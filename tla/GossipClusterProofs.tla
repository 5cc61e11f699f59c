------------------------ MODULE GossipClusterProofs ------------------------
(***************************************************************************)
(* Proofs about GossipCluster and its refinement of ReplicatedCache, for   *)
(* any number of nodes, starts, world versions, suspicions and failures.   *)
(***************************************************************************)
EXTENDS GossipClusterRefinement, SequenceTheorems, WellFoundedInduction, TLAPS

States == {"off", "boot", "idle", "discover", "install", "publish"}
Replica == [ver : Nat, val : 0..MaxWorld]

-----------------------------------------------------------------------------
(* The type invariant *)

(* Who does anything has been started: a follower sync that reads its own  *)
(* node's state reads that of an instance.                                 *)
HasStarted ==
  \A n \in Nodes : asking[n] \/ serving[n] \/ pc[n] # "off" => starts[n] > 0

LEMMA SelfInInstances ==
  ASSUME TypeOK, NEW n \in Nodes, starts[n] >= 1
  PROVE  Self(n) \in Instances
BY ConstantsAssumption DEF TypeOK, Self, GenerationOf, Instances

LEMMA PublishedType ==
  ASSUME NEW old \in Replica, NEW c \in 0..MaxWorld
  PROVE  Publication(old, c) \in Replica
BY DEF Publication, Replica

LEMMA ReplicaUpdate ==
  ASSUME NEW g \in [Instances -> Replica], NEW i, NEW p,
         i \in Instances => p \in Replica
  PROVE  [g EXCEPT ![i] = p] \in [Instances -> Replica]
OBVIOUS

LEMMA InitTypeOK == Init => TypeOK
<1> SUFFICES ASSUME Init PROVE TypeOK
  OBVIOUS
<1> USE ConstantsAssumption
<1>1. Unset \in Replica
  BY DEF Unset, Replica
<1>2. kv \in [Nodes -> [Instances -> Replica]]
  BY <1>1 DEF Init
<1> QED BY <1>2 DEF Init, TypeOK, Versions, Replica

LEMMA StepTypeOK == TypeOK /\ HasStarted /\ [Next]_vars => TypeOK'
<1> SUFFICES ASSUME TypeOK, HasStarted, [Next]_vars PROVE TypeOK'
  OBVIOUS
<1> USE ConstantsAssumption DEF TypeOK, local, outside, Goto
<1>0. Unset \in Replica
  BY DEF Unset, Replica
<1>1. CASE WorldChanges
  BY <1>1 DEF WorldChanges, Versions
<1>2. ASSUME NEW n \in Nodes, Start(n) PROVE TypeOK'
  <2>1. {<<n, GenerationOf(starts[n] + 1)>>} \in SUBSET Instances
    BY <1>2 DEF Start, GenerationOf, Instances
  <2> QED BY <1>2, <2>1 DEF Start
<1>3. ASSUME NEW n \in Nodes, Crash(n) PROVE TypeOK'
  <2>1. kv' \in [Nodes -> [Instances -> Replica]]
    <3>1. [i \in Instances |-> Unset] \in [Instances -> Replica]
      BY <1>0
    <3> QED BY <1>3, <3>1 DEF Crash, Replica
  <2> QED BY <1>3, <2>1 DEF Crash, Replica
<1>4. ASSUME NEW n \in Nodes, DiscoveryFails(n) PROVE TypeOK'
  BY <1>4 DEF DiscoveryFails
<1>5. ASSUME NEW n \in Nodes, Network(n) PROVE TypeOK'
  <2>1. ASSUME NEW i \in Instances, Hear(n, i) PROVE TypeOK'
    BY <2>1 DEF Hear
  <2>2. ASSUME NEW i \in Instances, Bury(n, i) PROVE TypeOK'
    BY <2>2 DEF Bury
  <2>3. ASSUME NEW i \in Instances, NEW m \in Nodes, Gossip(n, m, i) PROVE TypeOK'
    BY <2>3 DEF Gossip
  <2> QED BY <1>5, <2>1, <2>2, <2>3 DEF Network
<1>6. ASSUME NEW n \in Nodes, NEW i \in Instances, Suspect(n, i) PROVE TypeOK'
  BY <1>6 DEF Suspect
<1>7. ASSUME NEW n \in Nodes, Background(n) PROVE TypeOK'
  <2>1. CASE Boot(n)
    BY <2>1 DEF Boot
  <2>2. CASE Tick(n)
    BY <2>2 DEF Tick
  <2>3. CASE Discover(n)
    BY <2>3 DEF Discover, Versions
  <2>4. CASE Install(n)
    BY <2>4 DEF Install
  <2>5. CASE Publish(n)
    <3> DEFINE i == Self(n)
               p == Publication(kv[n][i], cache[n])
    <3>1. kv' = [kv EXCEPT ![n] = [kv[n] EXCEPT ![i] = p]]
      BY <2>5 DEF Publish, Published
    <3>2. i \in Instances => p \in Replica
      <4>1. ASSUME i \in Instances PROVE kv[n][i] \in Replica
        BY <4>1 DEF Replica
      <4> QED BY <4>1, PublishedType
    <3>3. [kv[n] EXCEPT ![i] = p] \in [Instances -> Replica]
      <4>1. kv[n] \in [Instances -> Replica]
        BY DEF Replica
      <4> HIDE DEF i, p
      <4> QED BY <3>2, <4>1, ReplicaUpdate
    <3>4. kv' \in [Nodes -> [Instances -> Replica]]
      <4> HIDE DEF i, p
      <4> QED BY <3>1, <3>3 DEF Replica
    <3> QED BY <2>5, <3>4 DEF Publish, Replica
  <2> QED BY <1>7, <2>1, <2>2, <2>3, <2>4, <2>5 DEF Background
<1>8. ASSUME NEW n \in Nodes, FollowerSync(n) PROVE TypeOK'
  <2>1. CASE SyncRead(n)
    <3>1. PICK i \in LeaderInstances(n) : synced' = [synced EXCEPT ![n] = kv[n][i].val]
      BY <2>1 DEF SyncRead
    <3>2. i \in Instances
      <4>1. CASE IsLeader(n)
        <5>1. i = Self(n) /\ starts[n] >= 1
          BY <2>1, <3>1, <4>1 DEF LeaderInstances, SyncRead, HasStarted
        <5> QED BY <5>1, SelfInInstances
      <4>2. CASE ~IsLeader(n)
        BY <3>1, <4>2 DEF LeaderInstances
      <4> QED BY <4>1, <4>2
    <3>3. kv[n][i].val \in 0..MaxWorld
      BY <3>2
    <3> QED BY <2>1, <3>1, <3>3 DEF SyncRead
  <2>2. CASE SyncInstall(n)
    BY <2>2 DEF SyncInstall
  <2>3. CASE SyncTick(n)
    BY <2>3 DEF SyncTick
  <2> QED BY <1>8, <2>1, <2>2, <2>3 DEF FollowerSync
<1>9. CASE UNCHANGED vars
  BY <1>9 DEF vars
<1> QED BY <1>1, <1>2, <1>3, <1>4, <1>5, <1>6, <1>7, <1>8, <1>9 DEF Next

LEMMA StepHasStarted == TypeOK /\ HasStarted /\ [Next]_vars => HasStarted'
<1> SUFFICES ASSUME TypeOK, HasStarted, [Next]_vars PROVE HasStarted'
  OBVIOUS
<1> USE DEF TypeOK, HasStarted, local, outside, Goto
<1>1. CASE WorldChanges
  BY <1>1 DEF WorldChanges
<1>2. ASSUME NEW n \in Nodes, Start(n) PROVE HasStarted'
  BY <1>2 DEF Start
<1>3. ASSUME NEW n \in Nodes, Crash(n) PROVE HasStarted'
  BY <1>3 DEF Crash
<1>4. ASSUME NEW n \in Nodes, DiscoveryFails(n) PROVE HasStarted'
  BY <1>4 DEF DiscoveryFails
<1>5. ASSUME NEW n \in Nodes, Network(n) PROVE HasStarted'
  BY <1>5 DEF Network, Hear, Bury, Gossip
<1>6. ASSUME NEW n \in Nodes, NEW i \in Instances, Suspect(n, i) PROVE HasStarted'
  BY <1>6 DEF Suspect
<1>7. ASSUME NEW n \in Nodes, Background(n) PROVE HasStarted'
  BY <1>7 DEF Background, Boot, Tick, Discover, Install, Publish
<1>8. ASSUME NEW n \in Nodes, FollowerSync(n) PROVE HasStarted'
  BY <1>8 DEF FollowerSync, SyncTick, SyncRead, SyncInstall
<1>9. CASE UNCHANGED vars
  BY <1>9 DEF vars
<1> QED BY <1>1, <1>2, <1>3, <1>4, <1>5, <1>6, <1>7, <1>8, <1>9 DEF Next

(* The variables keep their types, whatever the numbers of the constants. *)
THEOREM TypeCorrect == Spec => []TypeOK
<1>1. Init => HasStarted
  BY DEF Init, HasStarted
<1> QED BY <1>1, InitTypeOK, StepTypeOK, StepHasStarted, PTL DEF Spec

-----------------------------------------------------------------------------
(* The replicas *)

LEMMA InitReplicationInv == Init => ReplicationInv
BY DEF Init, ReplicationInv, ReplicasFollowOwner, Unset

(* Steps that leave the gossip states and the processes alone. *)
LEMMA QuietStep ==
  ASSUME ReplicationInv, UNCHANGED <<kv, starts, up>>,
         \A n \in Nodes : pc'[n] # "off" => n \in up
  PROVE  ReplicationInv'
BY DEF ReplicationInv, ReplicasFollowOwner, Self, Unset

(* Two running nodes are different instances. *)
LEMMA SelfInjective ==
  ASSUME NEW n \in Nodes, NEW m \in Nodes, Self(n) = Self(m)
  PROVE  n = m
BY DEF Self

(* A node starts under a generation that nobody has heard of. *)
LEMMA StartReplicationInv ==
  ASSUME TypeOK, ReplicationInv, NEW n \in Nodes, Start(n)
  PROVE  ReplicationInv'
<1> USE ConstantsAssumption
<1> DEFINE me == <<n, starts[n] + 1>>
<1>1. me \in Instances /\ Self(n)' = me
  BY DEF Start, TypeOK, Instances, Self, GenerationOf
<1>2. \A m \in Nodes : kv[m][me] = Unset
  <2>1. me[2] > starts[me[1]]
    BY DEF TypeOK
  <2> QED BY <1>1, <2>1 DEF ReplicationInv
<1>3. \A o \in up', m \in Nodes : kv'[m][Self(o)'].ver <= kv'[o][Self(o)'].ver
  <2> SUFFICES ASSUME NEW o \in up', NEW m \in Nodes
               PROVE  kv'[m][Self(o)'].ver <= kv'[o][Self(o)'].ver
    OBVIOUS
  <2>1. CASE o = n
    BY <1>1, <1>2, <2>1 DEF Start, Unset
  <2>2. CASE o # n
    <3>1. o \in up /\ Self(o)' = Self(o)
      BY <2>2 DEF Start, Self, TypeOK
    <3> QED BY <3>1 DEF Start, ReplicationInv, ReplicasFollowOwner
  <2> QED BY <2>1, <2>2
<1>4. \A m \in Nodes, i \in Instances : i[2] > starts'[i[1]] => kv[m][i] = Unset
  <2> SUFFICES ASSUME NEW m \in Nodes, NEW i \in Instances, i[2] > starts'[i[1]]
               PROVE  kv[m][i] = Unset
    OBVIOUS
  <2>1. i[1] \in Nodes /\ i[2] \in Nat
    BY DEF Instances
  <2>2. i[2] > starts[i[1]]
    BY <2>1 DEF Start, TypeOK
  <2> QED BY <2>2 DEF ReplicationInv
<1>5. \A m \in Nodes : pc'[m] # "off" => m \in up'
  BY DEF Start, TypeOK, ReplicationInv
<1>6. \A o \in up' : starts'[o] > 0
  BY DEF Start, TypeOK, ReplicationInv
<1> QED BY <1>3, <1>4, <1>5, <1>6 DEF Start, ReplicationInv, ReplicasFollowOwner, Unset

(* A crashed node holds nothing; what others hold of it stays as it was. *)
LEMMA CrashReplicationInv ==
  ASSUME TypeOK, ReplicationInv, NEW n \in Nodes, Crash(n)
  PROVE  ReplicationInv'
<1>1. \A m \in Nodes, i \in Instances :
        kv'[m][i] = IF m = n THEN Unset ELSE kv[m][i]
  BY DEF Crash, TypeOK
<1>2. \A m \in Nodes, i \in Instances : kv[m][i].ver \in Nat
  BY DEF TypeOK
<1>3. ASSUME NEW o \in up', NEW m \in Nodes
      PROVE  kv'[m][Self(o)'].ver <= kv'[o][Self(o)'].ver
  <2>1. o \in up /\ o \in Nodes /\ o # n /\ Self(o)' = Self(o)
    BY <1>3 DEF Crash, Self, TypeOK
  <2>2. kv'[o] = kv[o]
    BY <2>1 DEF Crash, TypeOK
  <2>3. CASE m # n
    BY <2>1, <2>2, <2>3 DEF Crash, TypeOK, ReplicationInv, ReplicasFollowOwner
  <2>4. CASE m = n
    <3>1. Self(o) \in Instances
      <4>1. starts[o] > 0
        BY <2>1 DEF ReplicationInv
      <4> QED BY <2>1, <4>1, SelfInInstances DEF TypeOK
    <3> QED BY <1>1, <1>2, <2>1, <2>2, <2>4, <3>1 DEF Unset
  <2> QED BY <2>3, <2>4
<1>4. ASSUME NEW o \in Nodes, NEW m \in Nodes, NEW i \in Instances,
             kv'[o][i].ver = kv'[m][i].ver
      PROVE  kv'[o][i].val = kv'[m][i].val
  <2>1. \A r \in Nodes : kv[r][i].ver = 0 => kv[r][i] = Unset
    BY DEF ReplicationInv
  <2> QED BY <1>1, <1>4, <2>1 DEF ReplicationInv, ReplicasFollowOwner, Unset
<1>5. \A m \in Nodes : pc'[m] # "off" => m \in up'
  BY DEF Crash, TypeOK, ReplicationInv
<1>6. \A m \in Nodes, i \in Instances :
        /\ i[2] > starts'[i[1]] => kv'[m][i] = Unset
        /\ kv'[m][i].ver = 0 => kv'[m][i] = Unset
  BY <1>1 DEF Crash, ReplicationInv
<1>7. \A o \in up' : starts'[o] > 0
  BY DEF Crash, ReplicationInv
<1> QED
  <2>1. Unset' = Unset
    BY DEF Unset
  <2> QED BY <1>3, <1>4, <1>5, <1>6, <1>7, <2>1 DEF ReplicationInv, ReplicasFollowOwner

(* A copy is as old as what was copied, and is of an instance that is not  *)
(* the receiver.                                                           *)
LEMMA GossipReplicationInv ==
  ASSUME TypeOK, ReplicationInv,
         NEW n \in Nodes, NEW m \in Nodes, NEW i \in Instances, Gossip(n, m, i)
  PROVE  ReplicationInv'
<1>1. \A o \in Nodes, j \in Instances :
        kv'[o][j] = IF o = n /\ j = i THEN kv[m][i] ELSE kv[o][j]
  BY DEF Gossip, TypeOK
<1>2. ASSUME NEW o \in up', NEW r \in Nodes
      PROVE  kv'[r][Self(o)'].ver <= kv'[o][Self(o)'].ver
  <2>1. o \in up /\ o \in Nodes /\ Self(o)' = Self(o)
    BY DEF Gossip, Self, TypeOK, local, outside
  <2>2. Self(o) \in Instances
    <3>1. starts[o] > 0
      BY <2>1 DEF ReplicationInv
    <3> QED BY <2>1, <3>1, SelfInInstances DEF TypeOK
  <2>3. kv[m][Self(o)].ver <= kv[o][Self(o)].ver /\ kv[r][Self(o)].ver <= kv[o][Self(o)].ver
    BY <2>1 DEF ReplicationInv, ReplicasFollowOwner
  <2>4. ~(o = n /\ Self(o) = i)
    BY DEF Gossip, Self
  <2> QED BY <1>1, <2>1, <2>2, <2>3, <2>4
<1>3. \A o, r \in Nodes, j \in Instances :
        kv'[o][j].ver = kv'[r][j].ver => kv'[o][j].val = kv'[r][j].val
  BY <1>1, SMTT(30) DEF ReplicationInv, ReplicasFollowOwner
<1>4. \A r \in Nodes, j \in Instances :
        /\ j[2] > starts'[j[1]] => kv'[r][j] = Unset
        /\ kv'[r][j].ver = 0 => kv'[r][j] = Unset
  BY <1>1 DEF Gossip, local, outside, ReplicationInv
<1>5. /\ \A o \in Nodes : pc'[o] # "off" => o \in up'
      /\ \A o \in up' : starts'[o] > 0
  BY DEF Gossip, local, outside, ReplicationInv
<1> QED
  <2>1. Unset' = Unset
    BY DEF Unset
  <2> QED BY <1>2, <1>3, <1>4, <1>5, <2>1 DEF ReplicationInv, ReplicasFollowOwner

(* A publication is newer than everything known of its instance.           *)
LEMMA PublishReplicationInv ==
  ASSUME TypeOK, ReplicationInv, NEW n \in Nodes, Publish(n)
  PROVE  ReplicationInv'
<1> DEFINE me == Self(n)
           old == kv[n][me]
           p == Publication(old, cache[n])
<1>1. n \in up /\ me \in Instances
  <2>1. n \in up /\ starts[n] > 0
    BY DEF Publish, ReplicationInv
  <2> QED BY <2>1, SelfInInstances DEF TypeOK
<1>2. \A o \in Nodes, j \in Instances :
        kv'[o][j] = IF o = n /\ j = me THEN p ELSE kv[o][j]
  BY DEF Publish, Published, TypeOK
<1>3. \A o \in Nodes, j \in Instances : kv[o][j].ver \in Nat
  BY DEF TypeOK
<1>4. p = old \/ (p.ver = old.ver + 1 /\ p.ver > 0)
  BY <1>1, <1>3 DEF Publication
<1>5. \A o \in Nodes : kv[o][me].ver <= old.ver
  BY <1>1 DEF ReplicationInv, ReplicasFollowOwner
<1>6. \A o \in Nodes : Self(o)' = Self(o)
  BY DEF Publish, Self, outside
<1> HIDE DEF me, p
<1>7. ASSUME NEW o \in up', NEW r \in Nodes
      PROVE  kv'[r][Self(o)'].ver <= kv'[o][Self(o)'].ver
  <2>1. o \in up /\ o \in Nodes /\ Self(o)' = Self(o)
    BY <1>6 DEF Publish, outside, TypeOK
  <2>2. Self(o) \in Instances
    <3>1. starts[o] > 0
      BY <2>1 DEF ReplicationInv
    <3> QED BY <2>1, <3>1, SelfInInstances DEF TypeOK
  <2>3. CASE o = n
    <3>1. kv[r][me].ver \in Nat /\ kv[n][me].ver \in Nat
      BY <1>1, <1>3
    <3>2. p.ver \in Nat /\ p.ver >= kv[n][me].ver
      BY <1>4, <3>1
    <3>3. kv[r][me].ver <= kv[n][me].ver
      BY <1>5
    <3>4. kv'[r][me].ver <= kv'[n][me].ver
      BY <1>1, <1>2, <3>1, <3>2, <3>3
    <3>5. Self(o)' = me /\ o = n
      BY <2>1, <2>3 DEF me
    <3> QED BY <3>4, <3>5
  <2>4. CASE o # n
    <3>1. Self(o) # me
      BY <2>4 DEF Self, me
    <3> QED BY <1>2, <2>1, <2>2, <3>1 DEF ReplicationInv, ReplicasFollowOwner
  <2> QED BY <2>3, <2>4
<1>8. ASSUME NEW o \in Nodes, NEW r \in Nodes, NEW j \in Instances,
             kv'[o][j].ver = kv'[r][j].ver
      PROVE  kv'[o][j].val = kv'[r][j].val
  <2>1. \A x, y \in Nodes : kv[x][j].ver = kv[y][j].ver => kv[x][j].val = kv[y][j].val
    BY DEF ReplicationInv, ReplicasFollowOwner
  <2>2. CASE p = old
    BY <1>2, <1>8, <2>1, <2>2
  <2>3. CASE p.ver = old.ver + 1
    <3>1. \A x \in Nodes : kv[x][me].ver # p.ver
      BY <1>1, <1>3, <1>5, <2>3
    <3> QED BY <1>2, <1>8, <2>1, <3>1
  <2> QED BY <1>4, <2>2, <2>3
<1>9. \A r \in Nodes, j \in Instances :
        /\ j[2] > starts'[j[1]] => kv'[r][j] = Unset
        /\ kv'[r][j].ver = 0 => kv'[r][j] = Unset
  <2>1. ~(me[2] > starts[me[1]])
    BY DEF me, Self, GenerationOf, TypeOK
  <2>2. starts' = starts
    BY DEF Publish, outside
  <2> QED BY <1>1, <1>2, <1>4, <2>1, <2>2 DEF ReplicationInv
<1>10. /\ \A o \in Nodes : pc'[o] # "off" => o \in up'
       /\ \A o \in up' : starts'[o] > 0
  BY <1>1 DEF Publish, Goto, outside, ReplicationInv, TypeOK
<1> QED
  <2>1. Unset' = Unset
    BY DEF Unset
  <2> QED BY <1>7, <1>8, <1>9, <1>10, <2>1 DEF ReplicationInv, ReplicasFollowOwner

LEMMA StepReplicationInv == TypeOK /\ ReplicationInv /\ [Next]_vars => ReplicationInv'
<1> SUFFICES ASSUME TypeOK, ReplicationInv, [Next]_vars PROVE ReplicationInv'
  OBVIOUS
<1> USE DEF local, outside
<1>0. \A n \in Nodes : pc[n] # "off" => n \in up
  BY DEF ReplicationInv
<1>1. CASE WorldChanges
  BY <1>0, <1>1, QuietStep DEF WorldChanges
<1>2. ASSUME NEW n \in Nodes, Start(n) PROVE ReplicationInv'
  BY <1>2, StartReplicationInv
<1>3. ASSUME NEW n \in Nodes, Crash(n) PROVE ReplicationInv'
  BY <1>3, CrashReplicationInv
<1>4. ASSUME NEW n \in Nodes, DiscoveryFails(n) PROVE ReplicationInv'
  BY <1>0, <1>4, QuietStep DEF DiscoveryFails, Goto, TypeOK
<1>5. ASSUME NEW n \in Nodes, Network(n) PROVE ReplicationInv'
  <2>1. ASSUME NEW i \in Instances, Hear(n, i) PROVE ReplicationInv'
    BY <1>0, <2>1, QuietStep DEF Hear
  <2>2. ASSUME NEW i \in Instances, Bury(n, i) PROVE ReplicationInv'
    BY <1>0, <2>2, QuietStep DEF Bury
  <2>3. ASSUME NEW i \in Instances, NEW m \in Nodes, Gossip(n, m, i)
        PROVE  ReplicationInv'
    BY <2>3, GossipReplicationInv
  <2> QED BY <1>5, <2>1, <2>2, <2>3 DEF Network
<1>6. ASSUME NEW n \in Nodes, NEW i \in Instances, Suspect(n, i) PROVE ReplicationInv'
  BY <1>0, <1>6, QuietStep DEF Suspect
<1>7. ASSUME NEW n \in Nodes, Background(n) PROVE ReplicationInv'
  <2>1. CASE Boot(n)
    BY <1>0, <2>1, QuietStep DEF Boot, Goto, TypeOK
  <2>2. CASE Tick(n)
    BY <1>0, <2>2, QuietStep DEF Tick, Goto, TypeOK
  <2>3. CASE Discover(n)
    BY <1>0, <2>3, QuietStep DEF Discover, Goto, TypeOK
  <2>4. CASE Install(n)
    BY <1>0, <2>4, QuietStep DEF Install, Goto, TypeOK
  <2>5. CASE Publish(n)
    BY <2>5, PublishReplicationInv
  <2> QED BY <1>7, <2>1, <2>2, <2>3, <2>4, <2>5 DEF Background
<1>8. ASSUME NEW n \in Nodes, FollowerSync(n) PROVE ReplicationInv'
  BY <1>0, <1>8, QuietStep DEF FollowerSync, SyncTick, SyncRead, SyncInstall
<1>9. CASE UNCHANGED vars
  BY <1>0, <1>9, QuietStep DEF vars
<1> QED BY <1>1, <1>2, <1>3, <1>4, <1>5, <1>6, <1>7, <1>8, <1>9 DEF Next

(* What any node holds of an instance is a state that this instance        *)
(* published, through crashes, restarts and relayed gossip, for any number *)
(* of nodes and starts.                                                    *)
THEOREM ReplicasSound == Spec => []ReplicasFollowOwner
<1>1. Init => ReplicationInv
  BY InitReplicationInv
<1>2. TypeOK /\ ReplicationInv /\ [Next]_vars => ReplicationInv'
  BY StepReplicationInv
<1>3. ReplicationInv => ReplicasFollowOwner
  BY DEF ReplicationInv
<1> QED BY <1>1, <1>2, <1>3, TypeCorrect, PTL DEF Spec

-----------------------------------------------------------------------------
(* The history: what is left of the logs *)

(* Bounded numbers of a set of nodes have a greatest one: the least of     *)
(* their bounds is one of them.                                            *)
LEMMA GreatestSeen ==
  ASSUME NEW f \in [Nodes -> Nat], NEW b \in Nat, \A n \in Nodes : f[n] <= b
  PROVE  LET most == Max({f[n] : n \in Nodes})
         IN  /\ most \in Nat
             /\ \A n \in Nodes : f[n] <= most
             /\ \E n \in Nodes : f[n] = most
<1> DEFINE bounds == {k \in Nat : \A n \in Nodes : f[n] <= k}
           values == {f[n] : n \in Nodes}
<1>1. PICK k \in bounds : \A l \in bounds : ~ (<<l, k>> \in OpToRel(<, Nat))
  <2>1. bounds \subseteq Nat /\ bounds # {}
    OBVIOUS
  <2> HIDE DEF bounds
  <2> QED BY <2>1, NatLessThanWellFounded, WFMin, Zenon
<1>2. \A l \in bounds : ~ (l < k)
  BY <1>1 DEF OpToRel
<1>3. \E n \in Nodes : f[n] = k
  <2>1. CASE k = 0
    <3>1. PICK n \in Nodes : TRUE
      BY ConstantsAssumption
    <3> QED BY <2>1, <3>1
  <2>2. CASE k # 0
    <3>1. k - 1 \in Nat /\ ~ (k - 1 \in bounds)
      BY <1>2, <2>2
    <3>2. PICK n \in Nodes : ~ (f[n] <= k - 1)
      BY <3>1
    <3> QED BY <3>2
  <2> QED BY <2>1, <2>2
<1>4. k \in values /\ \A x \in values : k >= x
  BY <1>3
<1>5. Max(values) \in values /\ \A x \in values : Max(values) >= x
  BY <1>4, Zenon DEF Max
<1> QED BY <1>5

(* The entries of a log are lists that were published.                     *)
LEMMA LogEntry ==
  ASSUME LogInv, NEW i \in Instances
  PROVE  /\ log[i] \in Seq(0..MaxWorld) /\ Len(log[i]) \in Nat
         /\ \A k \in 1..Len(log[i]) : log[i][k] \in 0..MaxWorld
BY LenProperties, ElementOfSeq DEF LogInv

(* When nobody publishes, a log is cut down to what some replica has.      *)
LEMMA LogCut ==
  ASSUME TypeOK', LogInv, NEW i \in Instances,
         ~ (kv'[i[1]][i].ver > kv[i[1]][i].ver),
         \A n \in Nodes : kv'[n][i].ver <= Len(log[i])
  PROVE  \E k \in 0..Len(log[i]) :
           /\ MostSeen(i)' = k
           /\ Recorded[i] = SubSeq(log[i], 1, k)
           /\ \A n \in Nodes : kv'[n][i].ver <= k
           /\ \E n \in Nodes : kv'[n][i].ver = k
<1> DEFINE f == [n \in Nodes |-> kv'[n][i].ver]
           k == Max({f[n] : n \in Nodes})
<1>1. f \in [Nodes -> Nat]
  BY DEF TypeOK
<1>2. Len(log[i]) \in Nat /\ \A n \in Nodes : f[n] <= Len(log[i])
  BY LogEntry
<1>3. k \in Nat /\ (\A n \in Nodes : f[n] <= k) /\ (\E n \in Nodes : f[n] = k)
  <2> HIDE DEF f
  <2> QED BY <1>1, <1>2, GreatestSeen
<1>4. MostSeen(i)' = k
  <2>1. {kv'[n][i].ver : n \in Nodes} = {f[n] : n \in Nodes}
    OBVIOUS
  <2> QED BY <2>1 DEF MostSeen
<1>5. Recorded[i] = SubSeq(log[i], 1, k)
  BY <1>4 DEF Recorded
<1>6. k <= Len(log[i])
  BY <1>1, <1>2, <1>3
<1> HIDE DEF k
<1> QED BY <1>2, <1>3, <1>4, <1>5, <1>6

(* Where some replica still has all of it, nothing is cut.                 *)
LEMMA LogKept ==
  ASSUME TypeOK', LogInv, NEW i \in Instances,
         ~ (kv'[i[1]][i].ver > kv[i[1]][i].ver),
         \A n \in Nodes : kv'[n][i].ver <= Len(log[i]),
         \E n \in Nodes : kv'[n][i].ver = Len(log[i])
  PROVE  Recorded[i] = log[i]
<1>1. PICK k \in 0..Len(log[i]) :
        Recorded[i] = SubSeq(log[i], 1, k) /\ \A n \in Nodes : kv'[n][i].ver <= k
  BY LogCut
<1>2. k = Len(log[i])
  BY <1>1, LogEntry
<1> QED BY <1>1, <1>2, LogEntry, SubSeqFull

LEMMA LogUnchanged ==
  ASSUME TypeOK', LogInv, log' = Recorded, UNCHANGED kv
  PROVE  log' = log
<1>1. \A i \in Instances : Recorded[i] = log[i]
  <2> SUFFICES ASSUME NEW i \in Instances PROVE Recorded[i] = log[i]
    OBVIOUS
  <2>1. kv'[i[1]][i].ver \in Nat
    BY DEF TypeOK, Instances
  <2>2. ~ (kv'[i[1]][i].ver > kv[i[1]][i].ver)
    BY <2>1
  <2> QED BY <2>2, LogKept DEF LogInv
<1> QED BY <1>1 DEF LogInv, Recorded

LEMMA InitLogInv == HistoryInit => LogInv
<1> SUFFICES ASSUME HistoryInit PROVE LogInv
  OBVIOUS
<1>1. \A n \in Nodes, i \in Instances : kv[n][i].ver = 0
  BY DEF HistoryInit, Init, Unset
<1>2. \A i \in Instances : log[i] = << >> /\ Len(log[i]) = 0
  BY EmptySeq DEF HistoryInit
<1>3. log \in [Instances -> Seq(0..MaxWorld)]
  BY EmptySeq DEF HistoryInit
<1>4. \E n \in Nodes : TRUE
  BY ConstantsAssumption
<1> QED BY <1>1, <1>2, <1>3, <1>4 DEF LogInv

(* What the other nodes hold of each log is a beginning of what is left.   *)
LEMMA CrashLogInv ==
  ASSUME TypeOK, TypeOK', LogInv, log' = Recorded, NEW n \in Nodes, Crash(n)
  PROVE  LogInv'
<1>1. \A m \in Nodes, i \in Instances :
        kv'[m][i] = IF m = n THEN Unset ELSE kv[m][i]
  BY DEF Crash, TypeOK
<1>2. ASSUME NEW i \in Instances
      PROVE  \E k \in 0..Len(log[i]) :
               /\ log'[i] = SubSeq(log[i], 1, k)
               /\ \A m \in Nodes : kv'[m][i].ver <= k
               /\ \E m \in Nodes : kv'[m][i].ver = k
  <2>1. \A m \in Nodes : kv[m][i].ver \in Nat
    BY DEF TypeOK
  <2>2. ~ (kv'[i[1]][i].ver > kv[i[1]][i].ver)
    <3>1. i[1] \in Nodes
      BY DEF Instances
    <3> QED BY <1>1, <2>1, <3>1 DEF Unset
  <2>3. \A m \in Nodes : kv'[m][i].ver <= Len(log[i])
    BY <1>1, LogEntry DEF LogInv, Unset
  <2>4. log'[i] = Recorded[i]
    OBVIOUS
  <2> QED BY <2>2, <2>3, <2>4, LogCut
<1>3. ASSUME NEW i \in Instances
      PROVE  /\ log'[i] \in Seq(0..MaxWorld)
             /\ \A m \in Nodes :
                  /\ kv'[m][i].ver <= Len(log'[i])
                  /\ kv'[m][i].ver > 0 => kv'[m][i].val = log'[i][kv'[m][i].ver]
             /\ \E m \in Nodes : kv'[m][i].ver = Len(log'[i])
  <2>1. PICK k \in 0..Len(log[i]) :
          /\ log'[i] = SubSeq(log[i], 1, k)
          /\ \A m \in Nodes : kv'[m][i].ver <= k
          /\ \E m \in Nodes : kv'[m][i].ver = k
    BY <1>2
  <2>2. k \in Nat /\ k <= Len(log[i]) /\ Len(log[i]) \in Nat
    BY LogEntry
  <2>3. \A j \in 1..k : log[i][j] \in 0..MaxWorld
    BY <2>2, LogEntry
  <2>4. /\ log'[i] \in Seq(0..MaxWorld)
        /\ Len(log'[i]) = k
        /\ \A j \in 1..k : log'[i][j] = log[i][j]
    BY <2>1, <2>2, <2>3, SubSeqProperties
  <2>5. ASSUME NEW m \in Nodes, kv'[m][i].ver > 0
        PROVE  kv'[m][i].val = log'[i][kv'[m][i].ver]
    <3>1. kv'[m][i] = kv[m][i]
      BY <1>1, <2>5 DEF Unset
    <3>2. kv[m][i].ver \in Nat
      BY DEF TypeOK
    <3>3. kv'[m][i].ver \in 1..k
      BY <2>1, <2>2, <2>5, <3>1, <3>2
    <3> QED BY <2>4, <2>5, <3>1, <3>3 DEF LogInv
  <2> QED BY <2>1, <2>4, <2>5
<1>4. log' \in [Instances -> Seq(0..MaxWorld)]
  BY <1>3 DEF Recorded
<1> QED BY <1>3, <1>4 DEF LogInv

(* A received state is another beginning of the same log.                  *)
LEMMA GossipLogInv ==
  ASSUME TypeOK, TypeOK', LogInv, log' = Recorded,
         NEW n \in Nodes, NEW m \in Nodes, NEW i \in Instances, Gossip(n, m, i)
  PROVE  log' = log /\ LogInv'
<1>1. \A o \in Nodes, j \in Instances :
        kv'[o][j] = IF o = n /\ j = i THEN kv[m][i] ELSE kv[o][j]
  BY DEF Gossip, TypeOK
<1>2. \A o \in Nodes, j \in Instances : kv[o][j].ver \in Nat
  BY DEF TypeOK
<1>3. ASSUME NEW j \in Instances
      PROVE  /\ \A o \in Nodes :
                  /\ kv'[o][j].ver <= Len(log[j])
                  /\ kv'[o][j].ver > 0 => kv'[o][j].val = log[j][kv'[o][j].ver]
             /\ \E o \in Nodes : kv'[o][j].ver = Len(log[j])
  <2>1. \A o \in Nodes :
          /\ kv[o][j].ver <= Len(log[j])
          /\ kv[o][j].ver > 0 => kv[o][j].val = log[j][kv[o][j].ver]
    BY DEF LogInv
  <2>2. PICK o \in Nodes : kv[o][j].ver = Len(log[j])
    BY DEF LogInv
  <2>3. ~ (o = n /\ j = i)
    BY <1>2, <2>1, <2>2 DEF Gossip
  <2>4. \A p \in Nodes : kv'[p][j] = kv[p][j] \/ kv'[p][j] = kv[m][j]
    BY <1>1
  <2>5. kv'[o][j].ver = Len(log[j])
    BY <1>1, <2>2, <2>3
  <2>6. ASSUME NEW p \in Nodes
        PROVE  /\ kv'[p][j].ver <= Len(log[j])
               /\ kv'[p][j].ver > 0 => kv'[p][j].val = log[j][kv'[p][j].ver]
    <3>1. PICK q \in Nodes : kv'[p][j] = kv[q][j]
      BY <2>4
    <3> QED BY <2>1, <3>1
  <2> QED BY <2>5, <2>6
<1>4. ASSUME NEW j \in Instances PROVE Recorded[j] = log[j]
  <2>1. j[1] \in Nodes
    BY DEF Instances
  <2>2. ~ (kv'[j[1]][j].ver > kv[j[1]][j].ver)
    BY <1>1, <1>2, <2>1 DEF Gossip
  <2> QED BY <1>3, <2>2, LogKept
<1>5. log' = log
  BY <1>4 DEF LogInv, Recorded
<1> QED BY <1>3, <1>5 DEF LogInv

(* A node has all that is left of its own log; its publication is the next *)
(* entry, or what the log ends with.                                       *)
LEMMA OwnLog ==
  ASSUME TypeOK, ReplicationInv, LogInv, NEW n \in up
  PROVE  Self(n) \in Instances /\ kv[n][Self(n)].ver = Len(log[Self(n)])
<1>1. n \in Nodes /\ Self(n) \in Instances
  BY SelfInInstances DEF ReplicationInv, TypeOK
<1>2. PICK o \in Nodes : kv[o][Self(n)].ver = Len(log[Self(n)])
  BY <1>1 DEF LogInv
<1>3. kv[o][Self(n)].ver <= kv[n][Self(n)].ver
  BY DEF ReplicationInv, ReplicasFollowOwner
<1>4. kv[n][Self(n)].ver <= Len(log[Self(n)])
  BY <1>1 DEF LogInv
<1>5. kv[n][Self(n)].ver \in Nat /\ Len(log[Self(n)]) \in Nat
  BY <1>1, LogEntry DEF TypeOK
<1> QED BY <1>1, <1>2, <1>3, <1>4, <1>5

LEMMA PublishLogInv ==
  ASSUME TypeOK, TypeOK', ReplicationInv, LogInv, log' = Recorded,
         NEW n \in Nodes, Publish(n)
  PROVE  /\ LogInv'
         /\ IF kv[n][Self(n)].val = cache[n]
              THEN kv' = kv /\ log' = log
              ELSE /\ log' = [log EXCEPT ![Self(n)] = Append(@, cache[n])]
                   /\ \A m \in Nodes, i \in Instances :
                        kv'[m][i].ver = IF m = n /\ i = Self(n) THEN kv[m][i].ver + 1
                                                                ELSE kv[m][i].ver
<1> DEFINE me == Self(n)
<1>1. n \in up /\ me \in Instances /\ me[1] = n
  <2>1. n \in up
    BY DEF Publish, ReplicationInv
  <2> QED BY <2>1, OwnLog DEF Self
<1>2. kv[n][me].ver = Len(log[me]) /\ kv[n][me].ver \in Nat
  <2>1. Len(log[me]) \in Nat
    BY <1>1, LogEntry
  <2> QED BY <1>1, <2>1, OwnLog
<1>3. cache[n] \in 0..MaxWorld
  BY DEF TypeOK
<1>4. \A m \in Nodes, i \in Instances :
        kv'[m][i] = IF m = n /\ i = me THEN Publication(kv[n][me], cache[n]) ELSE kv[m][i]
  BY DEF Publish, Published, TypeOK
<1> HIDE DEF me
<1>5. CASE kv[n][me].val = cache[n]
  <2>1. kv' = kv
    <3>1. Published(n) = kv[n][me]
      BY <1>5 DEF Published, Publication, me
    <3> QED BY <1>1, <3>1 DEF Publish, TypeOK, me
  <2>2. log' = log
    BY <2>1, LogUnchanged
  <2> QED BY <1>5, <2>1, <2>2 DEF LogInv, me
<1>6. CASE kv[n][me].val # cache[n]
  <2>1. \A m \in Nodes, i \in Instances :
          kv'[m][i] = IF m = n /\ i = me THEN [ver |-> Len(log[me]) + 1, val |-> cache[n]]
                                         ELSE kv[m][i]
    BY <1>2, <1>4, <1>6 DEF Publication
  <2>2. \A m \in Nodes, i \in Instances : kv[m][i].ver \in Nat
    BY DEF TypeOK
  <2>3. ASSUME NEW i \in Instances, i # me PROVE Recorded[i] = log[i]
    <3>1. i[1] \in Nodes
      BY DEF Instances
    <3>2. \A m \in Nodes : kv'[m][i] = kv[m][i]
      BY <2>1, <2>3
    <3>3. ~ (kv'[i[1]][i].ver > kv[i[1]][i].ver)
      BY <2>2, <3>1, <3>2
    <3> QED BY <3>2, <3>3, LogKept DEF LogInv
  <2>4. Recorded[me] = Append(log[me], cache[n])
    <3>1. kv'[n][me].ver > kv[n][me].ver /\ kv'[n][me].val = cache[n]
      BY <1>1, <1>2, <2>1
    <3> QED BY <1>1, <3>1 DEF Recorded
  <2>5. log' = [log EXCEPT ![me] = Append(@, cache[n])]
    BY <1>1, <2>3, <2>4 DEF LogInv, Recorded
  <2>6. /\ log'[me] \in Seq(0..MaxWorld)
        /\ Len(log'[me]) = Len(log[me]) + 1
        /\ \A j \in 1..Len(log[me]) : log'[me][j] = log[me][j]
        /\ log'[me][Len(log[me]) + 1] = cache[n]
    <3>1. log'[me] = Append(log[me], cache[n])
      BY <2>4
    <3> QED BY <1>1, <1>3, <3>1, LogEntry, AppendProperties
  <2>7. log' \in [Instances -> Seq(0..MaxWorld)]
    BY <2>5, <2>6 DEF LogInv
  <2>8. ASSUME NEW i \in Instances
        PROVE  /\ \A m \in Nodes :
                    /\ kv'[m][i].ver <= Len(log'[i])
                    /\ kv'[m][i].ver > 0 => kv'[m][i].val = log'[i][kv'[m][i].ver]
               /\ \E m \in Nodes : kv'[m][i].ver = Len(log'[i])
    <3>1. CASE i = me
      <4>1. ASSUME NEW m \in Nodes, m # n
            PROVE  /\ kv'[m][me].ver <= Len(log'[me])
                   /\ kv'[m][me].ver > 0 => kv'[m][me].val = log'[me][kv'[m][me].ver]
        <5>1. kv'[m][me] = kv[m][me] /\ kv[m][me].ver <= Len(log[me])
          BY <1>1, <2>1, <4>1 DEF LogInv
        <5>2. kv[m][me].ver > 0 => kv[m][me].val = log[me][kv[m][me].ver]
          BY <1>1 DEF LogInv
        <5> QED BY <1>1, <1>2, <2>2, <2>6, <5>1, <5>2
      <4>2. kv'[n][me].ver = Len(log'[me]) /\ kv'[n][me].val = log'[me][kv'[n][me].ver]
        BY <1>1, <2>1, <2>6
      <4>3. kv'[n][me].ver <= Len(log'[me])
        BY <1>2, <2>6, <4>2
      <4> QED BY <3>1, <4>1, <4>2, <4>3
    <3>2. CASE i # me
      <4>1. log'[i] = log[i] /\ \A m \in Nodes : kv'[m][i] = kv[m][i]
        BY <2>1, <2>3, <3>2
      <4> QED BY <4>1 DEF LogInv
    <3> QED BY <3>1, <3>2
  <2>9. LogInv'
    BY <2>7, <2>8 DEF LogInv
  <2>10. \A m \in Nodes, i \in Instances :
           kv'[m][i].ver = IF m = n /\ i = me THEN kv[m][i].ver + 1 ELSE kv[m][i].ver
    BY <1>2, <2>1
  <2> QED BY <1>6, <2>5, <2>9, <2>10 DEF me
<1> QED BY <1>5, <1>6

(* Everything else leaves the gossip states and thereby the logs alone.    *)
LEMMA QuietLogInv ==
  ASSUME TypeOK', LogInv, log' = Recorded, UNCHANGED kv
  PROVE  LogInv' /\ log' = log
<1>1. log' = log
  BY LogUnchanged
<1> QED BY <1>1 DEF LogInv

LEMMA StepLogInv ==
  TypeOK /\ TypeOK' /\ ReplicationInv /\ LogInv /\ [HistoryNext]_historyVars => LogInv'
<1> SUFFICES ASSUME TypeOK, TypeOK', ReplicationInv, LogInv, HistoryNext PROVE LogInv'
  BY DEF historyVars, vars, LogInv
<1>0. log' = Recorded
  BY DEF HistoryNext
<1> USE <1>0, QuietLogInv
<1>1. CASE WorldChanges
  BY <1>1 DEF WorldChanges
<1>2. ASSUME NEW n \in Nodes, Start(n) PROVE LogInv'
  BY <1>2 DEF Start
<1>3. ASSUME NEW n \in Nodes, Crash(n) PROVE LogInv'
  BY <1>3, CrashLogInv
<1>4. ASSUME NEW n \in Nodes, DiscoveryFails(n) PROVE LogInv'
  BY <1>4 DEF DiscoveryFails
<1>5. ASSUME NEW n \in Nodes, Network(n) PROVE LogInv'
  <2>1. ASSUME NEW i \in Instances, Hear(n, i) \/ Bury(n, i) PROVE LogInv'
    BY <2>1 DEF Hear, Bury
  <2>2. ASSUME NEW i \in Instances, NEW m \in Nodes, Gossip(n, m, i) PROVE LogInv'
    BY <2>2, GossipLogInv
  <2> QED BY <1>5, <2>1, <2>2 DEF Network
<1>6. ASSUME NEW n \in Nodes, NEW i \in Instances, Suspect(n, i) PROVE LogInv'
  BY <1>6 DEF Suspect
<1>7. ASSUME NEW n \in Nodes, Background(n) PROVE LogInv'
  <2>1. CASE Publish(n)
    BY <2>1, PublishLogInv
  <2>2. CASE Boot(n) \/ Tick(n) \/ Discover(n) \/ Install(n)
    BY <2>2 DEF Boot, Tick, Discover, Install
  <2> QED BY <1>7, <2>1, <2>2 DEF Background
<1>8. ASSUME NEW n \in Nodes, FollowerSync(n) PROVE LogInv'
  BY <1>8 DEF FollowerSync, SyncTick, SyncRead, SyncInstall
<1> QED BY <1>1, <1>2, <1>3, <1>4, <1>5, <1>6, <1>7, <1>8 DEF HistoryNext, Next

-----------------------------------------------------------------------------
(* Processes that do not run *)

LEMMA InitAtRest == Init => AtRest
BY DEF Init, AtRest

(* A step of the node n, which runs, leaves the others as they are.        *)
LEMMA RunningStep ==
  ASSUME TypeOK, AtRest, NEW n \in up, UNCHANGED <<up>>,
         \A m \in Nodes \ {n} :
           /\ kv'[m] = kv[m] /\ cache'[m] = cache[m] /\ synced'[m] = synced[m]
           /\ asking'[m] = asking[m] /\ serving'[m] = serving[m]
           /\ pc'[m] = pc[m] /\ found'[m] = found[m],
         pc'[n] = "install" <=> found'[n] # 0,
         asking'[n] => synced'[n] = 0
  PROVE  AtRest'
<1>1. \A m \in Nodes \ up' : m \in Nodes \ up /\ m # n
  OBVIOUS
<1>2. Unset' = Unset
  BY DEF Unset
<1> QED BY <1>1, <1>2 DEF AtRest

LEMMA StepAtRest == TypeOK /\ ReplicationInv /\ AtRest /\ [Next]_vars => AtRest'
<1> SUFFICES ASSUME TypeOK, ReplicationInv, AtRest, [Next]_vars PROVE AtRest'
  OBVIOUS
<1> USE DEF local, outside, Goto
<1>0. /\ \A n \in Nodes : pc[n] # "off" => n \in up
      /\ \A n \in Nodes : serving[n] \/ asking[n] \/ synced[n] # 0 => n \in up
      /\ \A n \in Nodes : pc[n] = "install" <=> found[n] # 0
      /\ \A n \in Nodes : asking[n] => synced[n] = 0
  BY DEF ReplicationInv, AtRest
<1>F. /\ pc = [n \in Nodes |-> pc[n]] /\ found = [n \in Nodes |-> found[n]]
      /\ kv = [n \in Nodes |-> kv[n]] /\ cache = [n \in Nodes |-> cache[n]]
      /\ asking = [n \in Nodes |-> asking[n]] /\ synced = [n \in Nodes |-> synced[n]]
      /\ serving = [n \in Nodes |-> serving[n]]
  BY DEF TypeOK
<1>1. CASE WorldChanges
  BY <1>1 DEF WorldChanges, AtRest, Unset
<1>2. ASSUME NEW n \in Nodes, Start(n) PROVE AtRest'
  <2>1. pc[n] # "install" /\ pc'[n] = "boot"
    BY <1>0, <1>2 DEF Start, TypeOK
  <2>2. \A m \in Nodes : pc'[m] = "install" <=> pc[m] = "install"
    BY <1>2, <2>1 DEF Start, TypeOK
  <2> QED BY <1>2, <2>2 DEF Start, AtRest, Unset
<1>3. ASSUME NEW n \in Nodes, Crash(n) PROVE AtRest'
  <2>1. /\ kv'[n] = [i \in Instances |-> Unset] /\ cache'[n] = 0 /\ synced'[n] = 0
        /\ asking'[n] = FALSE /\ serving'[n] = FALSE /\ pc'[n] = "off" /\ found'[n] = 0
    BY <1>3, Zenon DEF Crash, TypeOK
  <2>2. \A m \in Nodes \ {n} :
           /\ kv'[m] = kv[m] /\ cache'[m] = cache[m] /\ synced'[m] = synced[m]
           /\ asking'[m] = asking[m] /\ serving'[m] = serving[m]
           /\ pc'[m] = pc[m] /\ found'[m] = found[m]
    BY <1>3 DEF Crash, TypeOK
  <2>3. up' = up \ {n} /\ Unset' = Unset
    BY <1>3 DEF Crash, Unset
  <2>4. \A m \in Nodes \ up' : m = n \/ m \in Nodes \ up
    BY <2>3
  <2> QED BY <2>1, <2>2, <2>3, <2>4 DEF AtRest
<1>4. ASSUME NEW n \in Nodes, DiscoveryFails(n) PROVE AtRest'
  BY <1>0, <1>4, <1>F, RunningStep DEF DiscoveryFails
<1>5. ASSUME NEW n \in Nodes, Network(n) PROVE AtRest'
  <2>1. ASSUME NEW i \in Instances, Hear(n, i) \/ Bury(n, i) PROVE AtRest'
    <3>1. UNCHANGED <<up, kv, pc, found, asking, synced, cache, serving>>
      BY <2>1 DEF Hear, Bury
    <3> QED BY <3>1 DEF AtRest, Unset
  <2>2. ASSUME NEW i \in Instances, NEW m \in Nodes, Gossip(n, m, i) PROVE AtRest'
    BY <1>0, <2>2, <1>F, RunningStep DEF Gossip
  <2> QED BY <1>5, <2>1, <2>2 DEF Network
<1>6. ASSUME NEW n \in Nodes, NEW i \in Instances, Suspect(n, i) PROVE AtRest'
  BY <1>6 DEF Suspect, AtRest, Unset
<1>7. ASSUME NEW n \in Nodes, Background(n) PROVE AtRest'
  <2>1. CASE Boot(n)
    <3>1. /\ n \in up /\ UNCHANGED <<up, kv, cache, asking, synced, found>>
          /\ found[n] = 0 /\ (asking[n] => synced[n] = 0)
      BY <1>0, <2>1 DEF Boot
    <3>2. /\ pc'[n] # "install"
          /\ \A m \in Nodes \ {n} : pc'[m] = pc[m] /\ serving'[m] = serving[m]
      BY <2>1 DEF Boot, TypeOK
    <3> QED BY <3>1, <3>2, RunningStep
  <2>2. CASE Tick(n)
    BY <1>0, <2>2, <1>F, RunningStep DEF Tick
  <2>3. CASE Discover(n)
    <3>1. world # 0
      BY ConstantsAssumption DEF TypeOK, Versions
    <3> QED BY <1>0, <2>3, <3>1, <1>F, RunningStep DEF Discover
  <2>4. CASE Install(n)
    BY <1>0, <2>4, <1>F, RunningStep DEF Install
  <2>5. CASE Publish(n)
    BY <1>0, <2>5, <1>F, RunningStep DEF Publish
  <2> QED BY <1>7, <2>1, <2>2, <2>3, <2>4, <2>5 DEF Background
<1>8. ASSUME NEW n \in Nodes, FollowerSync(n) PROVE AtRest'
  <2>1. CASE SyncTick(n)
    BY <1>0, <2>1, <1>F, RunningStep DEF SyncTick
  <2>2. CASE SyncRead(n)
    BY <1>0, <2>2, <1>F, RunningStep DEF SyncRead
  <2>3. CASE SyncInstall(n)
    BY <1>0, <2>3, <1>F, RunningStep DEF SyncInstall
  <2> QED BY <1>8, <2>1, <2>2, <2>3 DEF FollowerSync
<1>9. CASE UNCHANGED vars
  BY <1>9 DEF vars, AtRest, Unset
<1> QED BY <1>1, <1>2, <1>3, <1>4, <1>5, <1>6, <1>7, <1>8, <1>9 DEF Next

-----------------------------------------------------------------------------
(* The refinement *)

LEMMA OwnIsSelf == ASSUME NEW n PROVE Cluster!Own(n) = Self(n)
BY DEF Cluster!Own, Self, GenerationOf

(* Steps of which the specification of the cluster sees nothing.           *)
LEMMA HiddenStep ==
  ASSUME UNCHANGED <<world, starts, log, kv, found, synced, cache>>,
         TypeOK, TypeOK',
         \A n \in Nodes : pc'[n] = "publish" <=> pc[n] = "publish"
  PROVE  [Cluster!Next]_(Cluster!vars)
<1>1. Seen' = Seen
  BY DEF Seen
<1>2. Owing' = Owing
  BY Zenon DEF Owing
<1> QED BY <1>1, <1>2 DEF Cluster!vars

(* The log of an instance that is yet to start is empty.                   *)
LEMMA NewLogEmpty ==
  ASSUME ReplicationInv, LogInv, NEW i \in Instances, i[2] > starts[i[1]]
  PROVE  log[i] = << >>
<1>1. \A n \in Nodes : kv[n][i].ver = 0
  BY DEF ReplicationInv, Unset
<1>2. Len(log[i]) = 0
  BY <1>1 DEF LogInv
<1> QED BY <1>2, LogEntry, EmptySeq

LEMMA StartImplements ==
  ASSUME TypeOK, ReplicationInv, LogInv, AtRest, log' = log,
         NEW n \in Nodes, Start(n)
  PROVE  Cluster!Starts(n)
<1> DEFINE me == <<n, starts[n] + 1>>
<1>1. me \in Instances /\ log[me] = << >>
  <2>1. me \in Instances
    BY ConstantsAssumption DEF Start, TypeOK, Instances
  <2>2. me[2] > starts[me[1]]
    BY DEF TypeOK
  <2> QED BY <2>1, <2>2, NewLogEmpty
<1>2. /\ kv[n] = [i \in Instances |-> Unset]
      /\ cache[n] = 0 /\ synced[n] = 0 /\ pc[n] = "off" /\ found[n] = 0
  BY DEF Start, AtRest, ReplicationInv
<1>3. Seen' = [Seen EXCEPT ![n] = Cluster!Nothing]
  <2>1. Seen[n] = Cluster!Nothing
    BY <1>2 DEF Seen, Cluster!Nothing, Unset
  <2>2. Seen' = Seen
    BY DEF Start, Seen
  <2> QED BY <2>1, <2>2 DEF Seen
<1>4. Owing' = [Owing EXCEPT ![n] = FALSE]
  BY DEF Owing, Start, TypeOK
<1>5. /\ found' = [found EXCEPT ![n] = 0]
      /\ synced' = [synced EXCEPT ![n] = 0]
      /\ cache' = [cache EXCEPT ![n] = 0]
  BY <1>2 DEF Start, TypeOK
<1> QED BY <1>1, <1>3, <1>4, <1>5 DEF Start, Cluster!Starts, Cluster!Holds

LEMMA CrashImplements ==
  ASSUME TypeOK, TypeOK', log' = Recorded, NEW n \in Nodes, Crash(n)
  PROVE  Cluster!Stops(n)
<1>1. \A m \in Nodes, i \in Instances :
        kv'[m][i] = IF m = n THEN Unset ELSE kv[m][i]
  BY DEF Crash, TypeOK
<1>2. Seen' = [Seen EXCEPT ![n] = Cluster!Nothing]
  <2>1. \A m \in Nodes :
          Seen'[m] = IF m = n THEN Cluster!Nothing ELSE Seen[m]
    BY <1>1 DEF Seen, Cluster!Nothing, Unset
  <2> QED BY <2>1 DEF Seen
<1>3. Owing' = [Owing EXCEPT ![n] = FALSE]
  BY DEF Owing, Crash, TypeOK
<1>4. ASSUME NEW i \in Instances
      PROVE  Recorded[i] = SubSeq(log[i], 1, Max({Seen'[m][i] : m \in Nodes}))
  <2>1. i[1] \in Nodes /\ kv[i[1]][i].ver \in Nat
    BY DEF TypeOK, Instances
  <2>2. ~ (kv'[i[1]][i].ver > kv[i[1]][i].ver)
    BY <1>1, <2>1 DEF Unset
  <2>3. {Seen'[m][i] : m \in Nodes} = {kv'[m][i].ver : m \in Nodes}
    BY DEF Seen
  <2> QED BY <2>2, <2>3 DEF Recorded, MostSeen
<1>5. log' = [i \in Instances |-> SubSeq(log[i], 1, Max({Seen'[m][i] : m \in Nodes}))]
  BY <1>4, Zenon DEF Recorded
<1>6. log' = [i \in Instances |->
                SubSeq(log[i], 1, Cluster!Max({Seen'[m][i] : m \in Nodes}))]
  BY <1>5 DEF Cluster!Max, Max
<1> QED BY <1>2, <1>3, <1>6 DEF Crash, Cluster!Stops, Cluster!Holds

LEMMA GossipImplements ==
  ASSUME TypeOK, LogInv, log' = log,
         NEW n \in Nodes, NEW m \in Nodes, NEW i \in Instances, Gossip(n, m, i)
  PROVE  Cluster!Sees(n, i)
<1>1. kv[m][i].ver \in (kv[n][i].ver + 1)..Len(log[i])
  <2>1. kv[m][i].ver \in Nat /\ kv[n][i].ver \in Nat /\ Len(log[i]) \in Nat
    BY LogEntry DEF TypeOK
  <2> QED BY <2>1 DEF Gossip, LogInv
<1>2. Seen' = [Seen EXCEPT ![n][i] = kv[m][i].ver]
  BY DEF Gossip, Seen, TypeOK
<1>3. Owing' = Owing
  BY DEF Gossip, Owing, local
<1> QED BY <1>1, <1>2, <1>3 DEF Gossip, Cluster!Sees, Seen, outside, local

LEMMA DiscoverImplements ==
  ASSUME TypeOK, ReplicationInv, LogInv, AtRest, log' = log,
         NEW n \in Nodes, Discover(n)
  PROVE  Cluster!Discovers(n)
<1>1. Self(n) \in Instances
  BY OwnLog DEF Discover, ReplicationInv
<1>2. found[n] = 0 /\ ~Owing[n]
  BY DEF Discover, AtRest, Owing
<1>3. Seen' = Seen /\ Owing' = Owing
  BY DEF Discover, Goto, Seen, Owing, TypeOK
<1> QED BY <1>1, <1>2, <1>3, OwnIsSelf DEF Discover, Cluster!Discovers, outside

LEMMA InstallImplements ==
  ASSUME TypeOK, AtRest, log' = log, NEW n \in Nodes, Install(n)
  PROVE  Cluster!Serves(n)
<1>1. found[n] # 0
  BY DEF Install, AtRest
<1>2. Seen' = Seen
  BY DEF Install, Seen
<1>3. Owing' = [Owing EXCEPT ![n] = TRUE]
  BY DEF Install, Goto, Owing, TypeOK
<1> QED BY <1>1, <1>2, <1>3 DEF Install, Cluster!Serves, outside

(* What a node publishes is new, unless its log ends with it; an empty     *)
(* list is what an empty log ends with.                                    *)
LEMMA PublishImplements ==
  ASSUME TypeOK, TypeOK', ReplicationInv, LogInv, log' = Recorded,
         NEW n \in Nodes, Publish(n)
  PROVE  Cluster!Publishes(n)
<1> DEFINE me == Self(n)
<1>1. n \in up /\ pc[n] = "publish"
  BY DEF Publish, ReplicationInv
<1>2. me \in Instances /\ kv[n][me].ver = Len(log[me])
  BY <1>1, OwnLog
<1>3. Cluster!LastOf(log[me]) = kv[n][me].val
  <2>1. CASE log[me] = << >>
    <3>1. kv[n][me] = Unset
      BY <1>2, <2>1, EmptySeq DEF ReplicationInv
    <3> QED BY <2>1, <3>1 DEF Cluster!LastOf, Unset
  <2>2. CASE log[me] # << >>
    <3>1. kv[n][me].ver > 0
      <4>1. Len(log[me]) \in Nat \ {0}
        BY <1>2, <2>2, LogEntry, EmptySeq
      <4> QED BY <1>2, <4>1
    <3>2. kv[n][me].val = log[me][Len(log[me])]
      BY <1>2, <3>1 DEF LogInv
    <3> QED BY <2>2, <3>2 DEF Cluster!LastOf
  <2> QED BY <2>1, <2>2
<1>4. Owing[n] /\ Owing' = [Owing EXCEPT ![n] = FALSE]
  BY <1>1 DEF Publish, Goto, Owing, TypeOK
<1>5. Seen[n][me] = Len(log[me])
  BY <1>2 DEF Seen
<1>6. IF kv[n][me].val = cache[n]
        THEN Seen' = Seen /\ log' = log
        ELSE /\ log' = [log EXCEPT ![me] = Append(@, cache[n])]
             /\ Seen' = [Seen EXCEPT ![n][me] = @ + 1]
  <2>1. CASE kv[n][me].val = cache[n]
    BY <2>1, PublishLogInv DEF Seen
  <2>2. CASE kv[n][me].val # cache[n]
    <3>1. \A m \in Nodes, i \in Instances :
            kv'[m][i].ver = IF m = n /\ i = me THEN kv[m][i].ver + 1 ELSE kv[m][i].ver
      BY <2>2, PublishLogInv
    <3> HIDE DEF me
    <3>2. Seen' = [Seen EXCEPT ![n][me] = @ + 1]
      <4>1. \A m \in Nodes :
              Seen'[m] = IF m = n THEN [Seen[n] EXCEPT ![me] = @ + 1] ELSE Seen[m]
        BY <1>2, <3>1 DEF Seen
      <4> QED BY <4>1 DEF Seen
    <3> QED BY <2>2, <3>2, PublishLogInv DEF me
  <2> QED BY <2>1, <2>2
<1>7. Cluster!Own(n) = me
  BY OwnIsSelf
<1> HIDE DEF me
<1> QED BY <1>3, <1>4, <1>5, <1>6, <1>7 DEF Publish, Cluster!Publishes, outside

(* What is read is of an instance of no greater node_id, this node's own   *)
(* included, and what is held of it is the last entry that was seen.       *)
LEMMA SyncReadImplements ==
  ASSUME TypeOK, ReplicationInv, LogInv, AtRest, log' = log, NEW n \in Nodes, SyncRead(n)
  PROVE  [\E i \in Instances : Cluster!Copies(n, i)]_(Cluster!vars)
<1>1. PICK i \in LeaderInstances(n) : synced' = [synced EXCEPT ![n] = kv[n][i].val]
  BY DEF SyncRead
<1>2. n \in up /\ synced[n] = 0
  BY DEF SyncRead, AtRest
<1>3. i \in Instances /\ i[1] <= n
  <2>1. CASE IsLeader(n)
    <3>1. i = Self(n)
      BY <1>1, <2>1 DEF LeaderInstances
    <3> QED BY <1>2, <3>1, OwnLog, ConstantsAssumption DEF Self
  <2>2. CASE ~IsLeader(n)
    <3>1. i \in view[n] /\ \A m \in LiveIds(n) : i[1] <= m
      BY <1>1, <2>2 DEF LeaderInstances
    <3>2. PICK l \in LiveIds(n) : ~ (n <= l)
      BY <2>2 DEF IsLeader
    <3>3. view[n] \subseteq Instances /\ \A j \in Instances : j[1] \in Int
      BY ConstantsAssumption DEF TypeOK, Instances
    <3>4. i[1] \in Int /\ l \in Int /\ n \in Int
      BY <3>1, <3>2, <3>3, ConstantsAssumption DEF LiveIds
    <3> QED BY <3>1, <3>2, <3>3, <3>4
  <2> QED BY <2>1, <2>2
<1>4. Seen[n][i] = kv[n][i].ver /\ Seen' = Seen /\ Owing' = Owing
  BY <1>3 DEF Seen, Owing, SyncRead
<1>5. CASE kv[n][i].ver = 0
  <2>1. kv[n][i].val = 0
    BY <1>3, <1>5 DEF ReplicationInv, Unset
  <2>2. synced' = synced
    BY <1>1, <1>2, <2>1 DEF TypeOK
  <2> QED BY <1>4, <2>2 DEF SyncRead, Cluster!vars, outside
<1>6. CASE kv[n][i].ver # 0
  <2>1. kv[n][i].ver > 0 /\ kv[n][i].val = log[i][kv[n][i].ver]
    BY <1>3, <1>6 DEF LogInv, TypeOK
  <2>2. Cluster!Copies(n, i)
    BY <1>1, <1>2, <1>3, <1>4, <2>1 DEF SyncRead, Cluster!Copies, outside
  <2> QED BY <1>3, <2>2
<1> QED BY <1>5, <1>6

LEMMA SyncInstallImplements ==
  ASSUME log' = log, NEW n \in Nodes, SyncInstall(n)
  PROVE  Cluster!ServesCopy(n)
BY DEF SyncInstall, Cluster!ServesCopy, Seen, Owing, outside

LEMMA InitImplements == HistoryInit => Cluster!Init
<1> SUFFICES ASSUME HistoryInit PROVE Cluster!Init
  OBVIOUS
<1>1. Seen = [n \in Nodes |-> Cluster!Nothing]
  <2>1. \A n \in Nodes : Seen[n] = Cluster!Nothing
    BY DEF HistoryInit, Init, Seen, Cluster!Nothing, Unset
  <2> QED BY <2>1 DEF Seen
<1>2. Owing = [n \in Nodes |-> FALSE]
  BY DEF HistoryInit, Init, Owing
<1> QED BY <1>1, <1>2 DEF HistoryInit, Init, Cluster!Init

LEMMA StepImplements ==
  /\ TypeOK /\ TypeOK' /\ ReplicationInv /\ LogInv /\ AtRest
  /\ [HistoryNext]_historyVars
  => [Cluster!Next]_(Cluster!vars)
<1> SUFFICES ASSUME TypeOK, TypeOK', ReplicationInv, LogInv, AtRest,
                    [HistoryNext]_historyVars
             PROVE  [Cluster!Next]_(Cluster!vars)
  OBVIOUS
<1> USE DEF local, outside, Goto
<1>0. ASSUME HistoryNext PROVE log' = Recorded /\ (UNCHANGED kv => log' = log)
  BY <1>0, QuietLogInv DEF HistoryNext
<1>1. ASSUME HistoryNext, WorldChanges PROVE Cluster!Next
  <2>1. Seen' = Seen /\ Owing' = Owing
    BY <1>1 DEF WorldChanges, Seen, Owing
  <2> QED BY <1>0, <1>1, <2>1 DEF WorldChanges, Cluster!WorldMoves, Cluster!Next
<1>2. ASSUME HistoryNext, NEW n \in Nodes, Start(n) PROVE Cluster!Next
  <2>1. log' = log
    BY <1>0, <1>2 DEF Start
  <2> QED BY <1>2, <2>1, StartImplements DEF Cluster!Next
<1>3. ASSUME HistoryNext, NEW n \in Nodes, Crash(n) PROVE Cluster!Next
  BY <1>0, <1>3, CrashImplements DEF Cluster!Next
<1>4. ASSUME HistoryNext, NEW n \in Nodes, DiscoveryFails(n)
      PROVE  [Cluster!Next]_(Cluster!vars)
  <2>1. \A m \in Nodes : pc'[m] = "publish" <=> pc[m] = "publish"
    BY <1>4 DEF DiscoveryFails, TypeOK
  <2> QED BY <1>0, <1>4, <2>1, HiddenStep DEF DiscoveryFails
<1>5. ASSUME HistoryNext, NEW n \in Nodes, Network(n)
      PROVE  [Cluster!Next]_(Cluster!vars)
  <2>1. ASSUME NEW i \in Instances, Hear(n, i) \/ Bury(n, i)
        PROVE  [Cluster!Next]_(Cluster!vars)
    BY <1>0, <1>5, <2>1, HiddenStep DEF Hear, Bury
  <2>2. ASSUME NEW i \in Instances, NEW m \in Nodes, Gossip(n, m, i)
        PROVE  Cluster!Next
    BY <1>0, <1>5, <2>2, GossipLogInv, GossipImplements DEF Cluster!Next
  <2> QED BY <1>5, <2>1, <2>2 DEF Network
<1>6. ASSUME HistoryNext, NEW n \in Nodes, NEW i \in Instances, Suspect(n, i)
      PROVE  [Cluster!Next]_(Cluster!vars)
  BY <1>0, <1>6, HiddenStep DEF Suspect
<1>7. ASSUME HistoryNext, NEW n \in Nodes, Background(n)
      PROVE  [Cluster!Next]_(Cluster!vars)
  <2>1. CASE Boot(n) \/ Tick(n)
    <3>1. \A m \in Nodes : pc'[m] = "publish" <=> pc[m] = "publish"
      BY <2>1 DEF Boot, Tick, TypeOK
    <3>2. UNCHANGED <<outside, view, kv, found, synced, cache>>
      BY <2>1 DEF Boot, Tick
    <3> QED BY <1>0, <1>7, <3>1, <3>2, HiddenStep
  <2>2. CASE Discover(n)
    <3>1. log' = log
      BY <1>0, <1>7, <2>2 DEF Discover
    <3> QED BY <2>2, <3>1, DiscoverImplements DEF Cluster!Next
  <2>3. CASE Install(n)
    <3>1. log' = log
      BY <1>0, <1>7, <2>3 DEF Install
    <3> QED BY <2>3, <3>1, InstallImplements DEF Cluster!Next
  <2>4. CASE Publish(n)
    BY <1>0, <1>7, <2>4, PublishImplements DEF Cluster!Next
  <2> QED BY <1>7, <2>1, <2>2, <2>3, <2>4 DEF Background
<1>8. ASSUME HistoryNext, NEW n \in Nodes, FollowerSync(n)
      PROVE  [Cluster!Next]_(Cluster!vars)
  <2>1. log' = log
    BY <1>0, <1>8 DEF FollowerSync, SyncTick, SyncRead, SyncInstall
  <2>2. CASE SyncTick(n)
    BY <2>1, <2>2, HiddenStep DEF SyncTick
  <2>3. CASE SyncRead(n)
    BY <2>1, <2>3, SyncReadImplements DEF Cluster!Next
  <2>4. CASE SyncInstall(n)
    BY <2>1, <2>4, SyncInstallImplements DEF Cluster!Next
  <2> QED BY <1>8, <2>2, <2>3, <2>4 DEF FollowerSync
<1>9. CASE UNCHANGED historyVars
  BY <1>9, HiddenStep DEF historyVars, vars
<1> QED
  <2>1. CASE HistoryNext
    BY <1>1, <1>2, <1>3, <1>4, <1>5, <1>6, <1>7, <1>8, <2>1 DEF HistoryNext, Next
  <2> QED BY <1>9, <2>1

(* The cluster, with the record of what was published, implements the      *)
(* replicated cache, for any number of nodes, starts, versions of the      *)
(* world, suspicions and failures.                                         *)
THEOREM ClusterImplementsReplicatedCache == HistorySpec => ImplementsReplicatedCache
<1> DEFINE Inv == ReplicationInv /\ LogInv /\ AtRest
<1>1. HistorySpec => Spec
  <2>1. HistoryInit => Init
    BY DEF HistoryInit
  <2>2. [HistoryNext]_historyVars => [Next]_vars
    BY DEF HistoryNext, historyVars
  <2> QED BY <2>1, <2>2, PTL DEF HistorySpec, Spec
<1>2. HistoryInit => Inv
  BY InitReplicationInv, InitLogInv, InitAtRest DEF HistoryInit
<1>3. TypeOK /\ TypeOK' /\ Inv /\ [HistoryNext]_historyVars => Inv'
  <2>1. [HistoryNext]_historyVars => [Next]_vars
    BY DEF HistoryNext, historyVars
  <2> QED BY <2>1, StepReplicationInv, StepLogInv, StepAtRest
<1>4. HistoryInit => Cluster!Init
  BY InitImplements
<1>5. TypeOK /\ TypeOK' /\ Inv /\ [HistoryNext]_historyVars => [Cluster!Next]_(Cluster!vars)
  BY StepImplements
<1> QED
  BY <1>1, <1>2, <1>3, <1>4, <1>5, TypeCorrect, PTL
     DEF HistorySpec, ImplementsReplicatedCache, Cluster!Spec

=============================================================================
