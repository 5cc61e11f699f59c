--------------------------- MODULE CacheNodeProofs ---------------------------
(***************************************************************************)
(* Proofs about CacheNode, for every set of targets, clusters and manual   *)
(* requests, every configuration and every bound.                          *)
(***************************************************************************)
EXTENDS CacheNode, FiniteSetTheorems, TLAPS

-----------------------------------------------------------------------------
(* Finiteness: what the counts range over. *)

LEMMA CountInNat ==
  ASSUME NEW S \in SUBSET Targets, NEW c
  PROVE  CountIn(S, c) \in Nat
<1>1. IsFiniteSet({t \in S : ClusterOf[t] = c})
  BY FS_Subset, ConstantsAssumption
<1> QED BY <1>1, FS_CardinalityType DEF CountIn

LEMMA AddrsFinite ==
  ASSUME NEW S \in SUBSET Targets
  PROVE  IsFiniteSet(Addrs(S))
<1> DEFINE addr == [t \in S |-> AddrOf[t]]
<1>1. IsFiniteSet(S)
  BY FS_Subset, ConstantsAssumption
<1>2. addr \in Surjection(S, Addrs(S))
  BY DEF Addrs, Surjection
<1> QED BY <1>1, <1>2, FS_Surjection

LEMMA NetChurnInt ==
  ASSUME NEW old \in SUBSET Targets, NEW new \in SUBSET Targets
  PROVE  NetChurn(old, new) \in Int
<1>1. /\ IsFiniteSet(Addrs(new) \ Addrs(old))
      /\ IsFiniteSet(Addrs(old) \ Addrs(new))
  BY AddrsFinite, FS_Difference
<1> QED BY <1>1, FS_CardinalityType DEF NetChurn

-----------------------------------------------------------------------------
(* The type invariant *)

LEMMA JobOld ==
  ASSUME NEW j \in Jobs, NEW S \in SUBSET Targets
  PROVE  [j EXCEPT !.old = S] \in Jobs
BY DEF Jobs

LEMMA JobAt ==
  ASSUME NEW j \in Jobs, NEW n \in 0..MaxClock
  PROVE  [j EXCEPT !.at = n] \in Jobs
BY DEF Jobs

(* A target's turn changes the pass of one worker and nothing else; Turn   *)
(* says what it makes of the worker's job.                                 *)
Turn(w, t, j) ==
  /\ job' = [job EXCEPT ![w] = j]
  /\ j.seen = job[w].seen \cup {t}
  /\ j.here = (IF t \in world \ down THEN job[w].here \cup {t} ELSE job[w].here)
  /\ j.next = job[w].next /\ j.ok = job[w].ok /\ j.found = job[w].found
  /\ j.old = job[w].old /\ j.at = job[w].at

LEMMA TargetTurn ==
  ASSUME TypeOK, NEW w \in Workers, NEW t \in Targets, DiscoverTarget(w, t)
  PROVE  /\ pc[w] = "discover" /\ t \in TargetsOf(ClusterNow(w)) \ job[w].seen
         /\ ClusterNow(w) \notin down
         /\ \E j \in Jobs : Turn(w, t, j)
         /\ UNCHANGED <<env, requests, pc, snapshot, reading, mets, lastManual,
                        gossip, serving, shutdown>>
<1> DEFINE here == IF t \in world \ down THEN job[w].here \cup {t} ELSE job[w].here
           j == [job[w] EXCEPT !.seen = job[w].seen \cup {t}, !.here = here]
<1>1. job[w] \in Jobs /\ world \in SUBSET Targets
  BY DEF TypeOK
<1>2. here \in SUBSET Targets
  BY <1>1 DEF Jobs
<1>3. j \in Jobs /\ j.seen = job[w].seen \cup {t} /\ j.here = here
  <2> HIDE DEF here
  <2> QED BY <1>1, <1>2 DEF Jobs
<1>4. /\ j.next = job[w].next /\ j.ok = job[w].ok /\ j.found = job[w].found
      /\ j.old = job[w].old /\ j.at = job[w].at
  <2> HIDE DEF here
  <2> QED BY <1>1 DEF Jobs
<1>5. job' = [job EXCEPT ![w] = j]
  BY DEF DiscoverTarget, TypeOK
<1> HIDE DEF j
<1> QED BY <1>3, <1>4, <1>5 DEF DiscoverTarget, Turn

LEMMA InitTypeOK == Init => TypeOK
<1> SUFFICES ASSUME Init PROVE TypeOK
  OBVIOUS
<1> USE ConstantsAssumption
<1>1. leader \in BOOLEAN
  BY DEF Init
<1>2. NoJob \in Jobs
  BY DEF NoJob, Jobs
<1>3. pc \in [Workers -> PCs] /\ job \in [Workers -> Jobs]
  BY <1>2 DEF Init, PCs
<1>4. NotPublished \in GossipValues
  BY DEF NotPublished, GossipValues
<1>5. clock \in 1..MaxClock /\ gauge \in [Clusters -> Nat]
  BY DEF Init
<1>6. snapshot \in [targets : SUBSET Targets, routes : SUBSET Targets,
                   lastRefresh : 0..MaxClock]
  BY DEF Init
<1>7. remote \in GossipValues /\ published \in GossipValues
  BY <1>4 DEF Init
<1>8. /\ world \in SUBSET Targets /\ down \in SUBSET Failing
      /\ changes \in 0..MaxChanges /\ requests \in 0..MaxRequests
      /\ lastManual \in 0..MaxClock /\ churn \in Int
  BY DEF Init
<1>9. /\ reading \in BOOLEAN /\ started \in BOOLEAN
      /\ outcome \in {"none", "ok", "failed"}
      /\ publishedRoutes \in SUBSET Targets
      /\ serving \in BOOLEAN /\ shutdown \in BOOLEAN
  BY DEF Init
<1> QED BY <1>1, <1>3, <1>5, <1>6, <1>7, <1>8, <1>9 DEF TypeOK

LEMMA StepTypeOK == TypeOK /\ [Next]_vars => TypeOK'
<1> SUFFICES ASSUME TypeOK, [Next]_vars PROVE TypeOK'
  OBVIOUS
<1>11. ASSUME NEW w \in Workers, NEW t \in Targets, DiscoverTarget(w, t)
       PROVE  TypeOK'
  <2>1. PICK j \in Jobs : Turn(w, t, j)
    BY <1>11, TargetTurn
  <2>2. job' \in [Workers -> Jobs]
    BY <2>1 DEF Turn, TypeOK
  <2>3. UNCHANGED <<env, requests, pc, snapshot, reading, mets, lastManual,
                    gossip, serving, shutdown>>
    BY <1>11 DEF DiscoverTarget
  <2> QED BY <2>2, <2>3 DEF TypeOK, env, mets, gossip
<1> USE ConstantsAssumption DEF TypeOK, env, mets, gossip, Goto, Release
<1>0. NoJob \in Jobs
  BY DEF NoJob, Jobs
<1>1. CASE Environment
  <2> DEFINE EnvOK == /\ world' \in SUBSET Targets /\ down' \in SUBSET Failing
                      /\ clock' \in 1..MaxClock /\ leader' \in BOOLEAN
                      /\ remote' \in GossipValues /\ changes' \in 0..MaxChanges
  <2>1. ASSUME WorldChanges PROVE EnvOK
    BY <2>1, SMTT(30) DEF WorldChanges, EnvChange
  <2>2. ASSUME ReachabilityChanges PROVE EnvOK
    BY <2>2, SMTT(30) DEF ReachabilityChanges, EnvChange
  <2>3. ASSUME LeadershipChanges PROVE EnvOK
    BY <2>3 DEF LeadershipChanges, EnvChange
  <2>4. ASSUME PeerPublishes PROVE EnvOK
    BY <2>4 DEF PeerPublishes, EnvChange
  <2>5. ASSUME ClockTicks PROVE EnvOK
    BY <2>5 DEF ClockTicks
  <2>6. EnvOK
    BY <1>1, <2>1, <2>2, <2>3, <2>4, <2>5 DEF Environment
  <2> QED BY <1>1, <2>6 DEF Environment
<1>2. CASE Shutdown
  BY <1>2 DEF Shutdown
<1>3. ASSUME NEW w \in Workers, Refresh(w) PROVE TypeOK'
  <2>0. ASSUME NEW t \in Targets, DiscoverTarget(w, t) PROVE TypeOK'
    BY <2>0, <1>11
  <2>1. CASE DiscoverCluster(w)
    <3> DEFINE ok == SucceededSoFar(job[w].ok, ClusterNow(w) \notin down)
               found == job[w].found
                          \cup Contribution(job[w].here, ClusterNow(w) \notin down)
    <3>1. job[w] \in Jobs /\ found \in SUBSET Targets /\ ok \in BOOLEAN
      BY DEF Jobs, SucceededSoFar, Contribution
    <3> DEFINE r == [next |-> job[w].next + 1, seen |-> {}, here |-> {}, ok |-> ok,
                     found |-> found, old |-> job[w].old, at |-> job[w].at]
    <3>2. r \in Jobs
      <4> HIDE DEF ok, found
      <4> QED BY <3>1 DEF Jobs
    <3>3. job' \in [Workers -> Jobs]
      <4>1. job' = [job EXCEPT ![w] = r]
        BY <2>1 DEF DiscoverCluster
      <4> HIDE DEF r
      <4> QED BY <3>2, <4>1
    <3>4. pc' \in [Workers -> PCs]
      BY <2>1 DEF DiscoverCluster, PCs
    <3> QED BY <2>1, <3>3, <3>4 DEF DiscoverCluster
  <2>2. CASE DiscoveryFails(w)
    <3>1. PICK p \in {"idle", "stopped"} :
            pc' = [pc EXCEPT ![w] = p] /\ job' = [job EXCEPT ![w] = NoJob]
      BY <2>2 DEF DiscoveryFails, AfterCycle
    <3>2. pc' \in [Workers -> PCs]
      BY <3>1 DEF PCs
    <3>3. job' \in [Workers -> Jobs]
      BY <1>0, <3>1
    <3>4. outcome' \in {"none", "ok", "failed"} /\ serving' \in BOOLEAN
      BY <2>2 DEF DiscoveryFails
    <3> QED BY <2>2, <3>2, <3>3, <3>4 DEF DiscoveryFails
  <2>3. CASE ReadOld(w)
    <3>1. [job[w] EXCEPT !.old = snapshot.targets] \in Jobs
      BY JobOld
    <3>2. job' = [job EXCEPT ![w] = [job[w] EXCEPT !.old = snapshot.targets]]
      BY <2>3 DEF ReadOld
    <3> QED BY <2>3, <3>1, <3>2, SMTT(30) DEF ReadOld, PCs
  <2>4. CASE ResetGauge(w)
    BY <2>4 DEF ResetGauge, GaugeAfterReset, PCs
  <2>5. CASE RecordGauge(w)
    <3>1. \A c \in Clusters : CountIn(job[w].found, c) \in Nat
      BY CountInNat DEF Jobs
    <3>2. gauge' \in [Clusters -> Nat]
      BY <2>5, <3>1 DEF RecordGauge
    <3>3. [job[w] EXCEPT !.at = clock] \in Jobs
      <4>1. job[w] \in Jobs /\ clock \in 0..MaxClock
        OBVIOUS
      <4> QED BY <4>1, JobAt
    <3>4. job' \in {job, [job EXCEPT ![w] = [job[w] EXCEPT !.at = clock]]}
      BY <2>5 DEF RecordGauge
    <3>5. job' \in [Workers -> Jobs]
      BY <3>3, <3>4
    <3>6. pc' \in [Workers -> PCs]
      BY <2>5 DEF RecordGauge, PCs
    <3> QED BY <2>5, <3>2, <3>5, <3>6 DEF RecordGauge
  <2>6. CASE Install(w)
    BY <2>6 DEF Install, RoutesOf, PCs, Jobs
  <2>7. CASE CountChurn(w)
    <3>1. NetChurn(job[w].old, job[w].found) \in Int
      BY NetChurnInt DEF Jobs
    <3> QED BY <2>7, <3>1 DEF CountChurn, PCs
  <2>8. CASE RecordStartup(w)
    <3>1. PICK p \in {"publish", "idle"}, j \in {job[w], NoJob} :
            pc' = [pc EXCEPT ![w] = p] /\ job' = [job EXCEPT ![w] = j]
      BY <2>8 DEF RecordStartup
    <3>2. pc' \in [Workers -> PCs]
      BY <3>1 DEF PCs
    <3>3. job' \in [Workers -> Jobs]
      BY <1>0, <3>1
    <3> QED BY <2>8, <3>2, <3>3 DEF RecordStartup
  <2> QED BY <1>3, <2>0, <2>1, <2>2, <2>3, <2>4, <2>5, <2>6, <2>7, <2>8
          DEF Refresh, Discover, Replace
<1>4. CASE Background
  <2> USE DEF Workers
  <2>1. CASE Boot
    BY <2>1 DEF Boot, PCs
  <2>2. CASE RefreshTick
    BY <2>2 DEF RefreshTick, PCs
  <2>3. CASE RefreshWakes
    BY <2>3 DEF RefreshWakes, PCs
  <2>4. CASE Refresh("bg")
    BY <1>3, <2>4
  <2>5. CASE PublishCache
    <3>1. published' \in GossipValues
      BY <2>5 DEF PublishCache, GossipValues
    <3>2. pc' \in [Workers -> PCs]
      BY <2>5 DEF PublishCache, PCs
    <3>3. reading' \in BOOLEAN
      BY <2>5 DEF PublishCache, HoldsAcrossPublish
    <3> QED BY <2>5, <3>1, <3>2, <3>3 DEF PublishCache
  <2>6. CASE PublishRoutes
    BY <2>6 DEF PublishRoutes, ReleasedLock, PCs
  <2>7. CASE RecordSuccess
    BY <1>0, <2>7 DEF RecordSuccess, AfterCycle, PCs
  <2>8. CASE LoopStops("bg")
    BY <2>8 DEF LoopStops, PCs
  <2> QED BY <1>4, <2>1, <2>2, <2>3, <2>4, <2>5, <2>6, <2>7, <2>8 DEF Background
<1>5. CASE FollowerSync
  <2>1. CASE SyncTick
    BY <2>1 DEF SyncTick, PCs
  <2>2. CASE SyncFetch
    <3>1. LeaderValue \in GossipValues
      BY DEF LeaderValue
    <3> DEFINE r == [NoJob EXCEPT !.ok = TRUE, !.found = LeaderValue.targets]
    <3>2. r \in Jobs
      BY <1>0, <3>1 DEF Jobs, GossipValues
    <3>3. job' \in {job, [job EXCEPT !["fs"] = r]}
      BY <2>2 DEF SyncFetch
    <3>4. job' \in [Workers -> Jobs]
      BY <3>2, <3>3
    <3>5. pc' \in [Workers -> PCs]
      BY <2>2 DEF SyncFetch, PCs
    <3> QED BY <2>2, <3>4, <3>5 DEF SyncFetch
  <2>3. CASE Replace("fs")
    BY <1>3, <2>3 DEF Refresh, Workers
  <2>4. CASE LoopStops("fs")
    BY <2>4 DEF LoopStops, PCs
  <2> QED BY <1>5, <2>1, <2>2, <2>3, <2>4 DEF FollowerSync
<1>6. ASSUME NEW h \in Handlers, ManualCheck(h) PROVE TypeOK'
  <2>1. [job[h] EXCEPT !.at = clock] \in Jobs
    <3>1. job[h] \in Jobs /\ clock \in 0..MaxClock
      BY DEF Workers
    <3> QED BY <3>1, JobAt
  <2>2. job' = [job EXCEPT ![h] = [job[h] EXCEPT !.at = clock]]
    BY <1>6 DEF ManualCheck
  <2>3. job' \in [Workers -> Jobs]
    BY <2>1, <2>2
  <2>4. pc' \in [Workers -> PCs]
    BY <1>6 DEF ManualCheck, PCs
  <2>5. requests' \in 0..MaxRequests
    BY <1>6, SMTT(30) DEF ManualCheck
  <2> QED BY <1>6, <2>3, <2>4, <2>5 DEF ManualCheck
<1>7. ASSUME NEW h \in Handlers, Request(h) PROVE TypeOK'
  <2>1. CASE ManualStamp(h)
    BY <2>1 DEF ManualStamp, PCs, Jobs, Workers
  <2>2. CASE Refresh(h)
    BY <1>3, <2>2 DEF Workers
  <2> QED BY <1>7, <2>1, <2>2 DEF Request
<1>8. ASSUME NEW h \in Handlers, ClientDisconnects(h) PROVE TypeOK'
  BY <1>0, <1>8 DEF ClientDisconnects, PCs
<1>9. CASE UNCHANGED vars
  BY <1>9 DEF vars
<1> QED BY <1>1, <1>2, <1>4, <1>5, <1>6, <1>7, <1>8, <1>9 DEF Next

(* The state keeps its types in every reachable state: counters never go   *)
(* negative, the snapshot's time is never in the future of the clock's     *)
(* bound, and no worker leaves its control points (CacheNode).             *)
THEOREM TypeCorrect == Spec => []TypeOK
<1> QED BY InitTypeOK, StepTypeOK, PTL DEF Spec

-----------------------------------------------------------------------------
(* Announcements *)

LEMMA PopulationStep == TypeOK /\ PopulationInv /\ [Next]_vars => PopulationInv'
<1> SUFFICES ASSUME TypeOK, PopulationInv, [Next]_vars PROVE PopulationInv'
  OBVIOUS
<1>10. ASSUME NEW w \in Workers, NEW t \in Targets, DiscoverTarget(w, t)
       PROVE  PopulationInv'
  <2>1. PICK j \in Jobs : Turn(w, t, j)
    BY <1>10, TargetTurn
  <2>2. \A v \in Workers : job'[v].old = job[v].old /\ job'[v].at = job[v].at
    BY <2>1 DEF Turn, TypeOK
  <2>3. UNCHANGED <<pc, snapshot, started, outcome, published>>
    BY <1>10 DEF DiscoverTarget, mets, gossip
  <2> QED BY <2>2, <2>3 DEF PopulationInv, AnnouncedMeansPopulated, Populated
<1> USE ConstantsAssumption
    DEF TypeOK, env, mets, gossip, Goto, Release, NoJob,
        PopulationInv, AnnouncedMeansPopulated, Populated
<1>1. CASE Environment
  BY <1>1 DEF Environment
<1>2. CASE Shutdown
  BY <1>2 DEF Shutdown
<1>3. ASSUME NEW w \in Workers, Refresh(w) PROVE PopulationInv'
  <2>0. ASSUME NEW t \in Targets, DiscoverTarget(w, t) PROVE PopulationInv'
    BY <2>0, <1>10
  <2>1. CASE DiscoverCluster(w)
    BY <2>1 DEF DiscoverCluster
  <2>2. CASE DiscoveryFails(w)
    <3>1. PICK p \in {"idle", "stopped"} :
            pc' = [pc EXCEPT ![w] = p] /\ job' = [job EXCEPT ![w] = NoJob]
      BY <2>2 DEF DiscoveryFails, AfterCycle
    <3>2. UNCHANGED <<snapshot, started, published>> /\ outcome' \in {outcome, "failed"}
      BY <2>2 DEF DiscoveryFails
    <3> QED BY <3>1, <3>2
  <2>3. CASE ReadOld(w)
    BY <2>3 DEF ReadOld
  <2>4. CASE ResetGauge(w)
    BY <2>4 DEF ResetGauge
  <2>5. CASE RecordGauge(w)
    <3>1. CASE DiscardsAsChurn(job[w].old, job[w].found)
      <4>1. job[w].old # {}
        BY <3>1 DEF DiscardsAsChurn, Addrs
      <4> QED BY <2>5, <3>1, <4>1 DEF RecordGauge
    <3>2. CASE ~DiscardsAsChurn(job[w].old, job[w].found)
      <4>1. /\ pc' = [pc EXCEPT ![w] = "install"]
            /\ job' = [job EXCEPT ![w] = [job[w] EXCEPT !.at = clock]]
            /\ UNCHANGED <<snapshot, started, outcome, published>>
        BY <2>5, <3>2 DEF RecordGauge
      <4>2. job'[w].at = clock /\ \A v \in Workers \ {w} : job'[v] = job[v]
        BY <4>1 DEF Jobs
      <4> QED BY <4>1, <4>2
    <3> QED BY <3>1, <3>2
  <2>6. CASE Install(w)
    BY <2>6 DEF Install, Jobs
  <2>7. CASE CountChurn(w)
    BY <2>7 DEF CountChurn
  <2>8. CASE RecordStartup(w)
    BY <2>8 DEF RecordStartup
  <2> QED BY <1>3, <2>0, <2>1, <2>2, <2>3, <2>4, <2>5, <2>6, <2>7, <2>8
          DEF Refresh, Discover, Replace
<1>4. CASE Background
  <2> USE DEF Workers
  <2>1. CASE Boot
    BY <2>1 DEF Boot
  <2>2. CASE RefreshTick
    BY <2>2 DEF RefreshTick
  <2>3. CASE RefreshWakes
    BY <2>3 DEF RefreshWakes
  <2>4. CASE Refresh("bg")
    BY <1>3, <2>4
  <2>5. CASE PublishCache
    BY <2>5 DEF PublishCache
  <2>6. CASE PublishRoutes
    BY <2>6 DEF PublishRoutes
  <2>7. CASE RecordSuccess
    BY <2>7 DEF RecordSuccess, AfterCycle
  <2>8. CASE LoopStops("bg")
    BY <2>8 DEF LoopStops
  <2> QED BY <1>4, <2>1, <2>2, <2>3, <2>4, <2>5, <2>6, <2>7, <2>8 DEF Background
<1>5. CASE FollowerSync
  <2>1. CASE SyncTick
    BY <2>1 DEF SyncTick
  <2>2. CASE SyncFetch
    <3>1. PICK p \in {"replace", "idle"} : pc' = [pc EXCEPT !["fs"] = p]
      BY <2>2 DEF SyncFetch
    <3>2. \A w \in Workers \ {"fs"} : job'[w] = job[w]
      BY <2>2 DEF SyncFetch
    <3>3. UNCHANGED <<snapshot, started, outcome, published>>
      BY <2>2 DEF SyncFetch
    <3> QED BY <3>1, <3>2, <3>3
  <2>3. CASE Replace("fs")
    BY <1>3, <2>3 DEF Refresh, Workers
  <2>4. CASE LoopStops("fs")
    BY <2>4 DEF LoopStops
  <2> QED BY <1>5, <2>1, <2>2, <2>3, <2>4 DEF FollowerSync
<1>6. ASSUME NEW h \in Handlers, ManualCheck(h) PROVE PopulationInv'
  BY <1>6 DEF ManualCheck
<1>7. ASSUME NEW h \in Handlers, Request(h) PROVE PopulationInv'
  <2>1. CASE ManualStamp(h)
    BY <2>1 DEF ManualStamp
  <2>2. CASE Refresh(h)
    BY <1>3, <2>2 DEF Workers
  <2> QED BY <1>7, <2>1, <2>2 DEF Request
<1>8. ASSUME NEW h \in Handlers, ClientDisconnects(h) PROVE PopulationInv'
  BY <1>8 DEF ClientDisconnects
<1>9. CASE UNCHANGED vars
  BY <1>9 DEF vars
<1> QED BY <1>1, <1>2, <1>4, <1>5, <1>6, <1>7, <1>8, <1>9 DEF Next

LEMMA Population == Spec => []PopulationInv
<1>1. Init => PopulationInv
  BY DEF Init, PopulationInv, AnnouncedMeansPopulated, NotPublished
<1> QED BY <1>1, PopulationStep, TypeCorrect, PTL DEF Spec

(* The start-up duration, a successful last refresh and a gossiped cache   *)
(* are only ever announced by a node that has installed a snapshot, also   *)
(* after refreshes that the churn guard discarded (CacheNode).             *)
THEOREM AnnouncementsSound == Spec => []AnnouncedMeansPopulated
<1>1. PopulationInv => AnnouncedMeansPopulated
  BY DEF PopulationInv
<1> QED BY <1>1, Population, PTL

-----------------------------------------------------------------------------
(* Publication *)

LEMMA PublicationStep ==
  TypeOK /\ PopulationInv /\ PublicationInv /\ [Next]_vars => PublicationInv'
<1> SUFFICES ASSUME TypeOK, PopulationInv, PublicationInv, [Next]_vars
             PROVE  PublicationInv'
  OBVIOUS
<1> USE ConstantsAssumption
    DEF TypeOK, env, mets, gossip, Goto, Release, NoJob, Workers,
        PublicationInv, PublishedPairConsistent
<1>1. CASE Environment
  BY <1>1 DEF Environment
<1>2. CASE Shutdown
  BY <1>2 DEF Shutdown
<1>3. ASSUME NEW w \in Workers, Refresh(w) PROVE PublicationInv'
  <2>0. ASSUME NEW t \in Targets, DiscoverTarget(w, t) PROVE PublicationInv'
    BY <2>0, TargetTurn
  <2>1. CASE DiscoverCluster(w)
    BY <2>1 DEF DiscoverCluster
  <2>2. CASE DiscoveryFails(w)
    BY <2>2 DEF DiscoveryFails, AfterCycle
  <2>3. CASE ReadOld(w)
    BY <2>3 DEF ReadOld
  <2>4. CASE ResetGauge(w)
    BY <2>4 DEF ResetGauge
  <2>5. CASE RecordGauge(w)
    BY <2>5 DEF RecordGauge
  <2>6. CASE Install(w)
    <3>1. ~reading /\ pc["bg"] # "publishRoutes" /\ pc'["bg"] # "publishRoutes"
      BY <2>6 DEF Install, WriteLockFree
    <3> QED BY <2>6, <3>1 DEF Install, RoutesOf
  <2>7. CASE CountChurn(w)
    BY <2>7 DEF CountChurn
  <2>8. CASE RecordStartup(w)
    BY <2>8 DEF RecordStartup
  <2> QED BY <1>3, <2>0, <2>1, <2>2, <2>3, <2>4, <2>5, <2>6, <2>7, <2>8
          DEF Refresh, Discover, Replace
<1>4. CASE Background
  <2>1. CASE Boot
    BY <2>1 DEF Boot
  <2>2. CASE RefreshTick
    BY <2>2 DEF RefreshTick
  <2>3. CASE RefreshWakes
    BY <2>3 DEF RefreshWakes
  <2>4. CASE Refresh("bg")
    BY <1>3, <2>4
  <2>5. CASE PublishCache
    <3>1. Populated
      BY <2>5 DEF PublishCache, PopulationInv
    <3>2. Clustered => published'.targets = snapshot.targets
      BY <2>5, <3>1 DEF PublishCache, Populated
    <3> QED BY <2>5, <3>2 DEF PublishCache, HoldsAcrossPublish, RoutesOf
  <2>6. CASE PublishRoutes
    BY <2>6 DEF PublishRoutes, ReleasedLock
  <2>7. CASE RecordSuccess
    BY <2>7 DEF RecordSuccess, AfterCycle
  <2>8. CASE LoopStops("bg")
    BY <2>8 DEF LoopStops
  <2> QED BY <1>4, <2>1, <2>2, <2>3, <2>4, <2>5, <2>6, <2>7, <2>8 DEF Background
<1>5. CASE FollowerSync
  <2>1. CASE SyncTick
    BY <2>1 DEF SyncTick
  <2>2. CASE SyncFetch
    BY <2>2 DEF SyncFetch
  <2>3. CASE Replace("fs")
    BY <1>3, <2>3 DEF Refresh, Workers
  <2>4. CASE LoopStops("fs")
    BY <2>4 DEF LoopStops
  <2> QED BY <1>5, <2>1, <2>2, <2>3, <2>4 DEF FollowerSync
<1>6. ASSUME NEW h \in Handlers, ManualCheck(h) PROVE PublicationInv'
  BY <1>6 DEF ManualCheck
<1>7. ASSUME NEW h \in Handlers, Request(h) PROVE PublicationInv'
  <2>1. CASE ManualStamp(h)
    BY <2>1 DEF ManualStamp
  <2>2. CASE Refresh(h)
    BY <1>3, <2>2 DEF Workers
  <2> QED BY <1>7, <2>1, <2>2 DEF Request
<1>8. ASSUME NEW h \in Handlers, ClientDisconnects(h) PROVE PublicationInv'
  BY <1>8 DEF ClientDisconnects
<1>9. CASE UNCHANGED vars
  BY <1>9 DEF vars
<1> QED BY <1>1, <1>2, <1>4, <1>5, <1>6, <1>7, <1>8, <1>9 DEF Next

(* Between two publications the gossiped routing table always belongs to   *)
(* the gossiped cache: the read lock that publish_cache_to_gossip holds    *)
(* over its awaits keeps every other worker's installation out.            *)
THEOREM PublishedPairSound == Spec => []PublishedPairConsistent
<1>1. Init => PublicationInv
  BY DEF Init, PublicationInv, PublishedPairConsistent, NotPublished, RoutesOf, Workers
<1>2. PublicationInv => PublishedPairConsistent
  BY DEF PublicationInv
<1> QED BY <1>1, <1>2, PublicationStep, Population, TypeCorrect, PTL DEF Spec

-----------------------------------------------------------------------------
(* One refresher: the guard, the counters and the gauge *)

LEMMA ChurnSum ==
  ASSUME NEW old \in SUBSET Targets, NEW new \in SUBSET Targets
  PROVE  Cardinality(Addrs(old)) + NetChurn(old, new) = Cardinality(Addrs(new))
<1> DEFINE A == Addrs(old)
           B == Addrs(new)
<1>1. IsFiniteSet(A) /\ IsFiniteSet(B)
  BY AddrsFinite
<1>2. /\ Cardinality(A) \in Nat /\ Cardinality(B) \in Nat
      /\ Cardinality(A \cap B) \in Nat
  BY <1>1, FS_CardinalityType, FS_Intersection
<1>3. /\ Cardinality(A \ B) = Cardinality(A) - Cardinality(A \cap B)
      /\ Cardinality(B \ A) = Cardinality(B) - Cardinality(B \cap A)
  BY <1>1, FS_Difference
<1>4. Cardinality(B \cap A) = Cardinality(A \cap B)
  <2>1. A \cap B = B \cap A
    OBVIOUS
  <2> QED BY <2>1
<1>5. NetChurn(old, new) = Cardinality(B \ A) - Cardinality(A \ B)
  BY DEF NetChurn
<1> HIDE DEF A, B
<1>6. Cardinality(A) + NetChurn(old, new) = Cardinality(B)
  BY <1>2, <1>3, <1>4, <1>5
<1> QED BY <1>6 DEF A, B

LEMMA NoDropIsWithinLimit ==
  ASSUME NEW S \in SUBSET Targets
  PROVE  WithinDropLimit(S, S)
<1>1. Cardinality(Addrs(S)) \in Nat
  BY AddrsFinite, FS_CardinalityType
<1>2. Addrs(S) \ Addrs(S) = {} /\ Cardinality({}) = 0
  BY FS_EmptySet
<1>3. Cardinality(Addrs(S)) * DropNum >= 0 /\ 0 * DropDen = 0
  BY <1>1, ConstantsAssumption
<1> QED BY <1>2, <1>3 DEF WithinDropLimit

LEMMA KeptIsWithinLimit ==
  ASSUME NEW old \in SUBSET Targets, NEW new \in SUBSET Targets,
         ~DiscardsAsChurn(old, new)
  PROVE  WithinDropLimit(old, new)
<1>1. /\ Cardinality(Addrs(old)) \in Nat
      /\ Cardinality(Addrs(old) \ Addrs(new)) \in Nat
  BY AddrsFinite, FS_CardinalityType, FS_Difference
<1>2. /\ Cardinality(Addrs(old)) * DropNum \in Int
      /\ Cardinality(Addrs(old) \ Addrs(new)) * DropDen \in Int
  BY <1>1, ConstantsAssumption
<1> QED BY <1>2, ConstantsAssumption DEF DiscardsAsChurn, WithinDropLimit

LEMMA SoloInit == Solo /\ Init => SoloInv /\ SoloGaugeInv
<1> SUFFICES ASSUME Solo, Init PROVE SoloInv /\ SoloGaugeInv
  OBVIOUS
<1>1. Cardinality(Addrs({})) = 0 /\ \A c \in Clusters : CountIn({}, c) = 0
  BY FS_EmptySet DEF Addrs, CountIn
<1>2. pc["bg"] = "boot" /\ pc["fs"] = "idle"
  BY DEF Init, Workers
<1> QED BY <1>1, <1>2 DEF Init, SoloInv, SoloGaugeInv

(* The only worker that moves is the background one. *)
LEMMA SoloMoves ==
  ASSUME Solo, SoloInv, [Next]_vars
  PROVE  \/ Environment \/ Shutdown \/ Background
         \/ UNCHANGED vars
<1>1. ~FollowerSync
  BY DEF Solo, SoloInv, FollowerSync, SyncTick, SyncFetch, Replace, ReadOld,
         ResetGauge, RecordGauge, Install, CountChurn, RecordStartup, LoopStops, IsLoop
<1> QED BY <1>1 DEF Next, Solo

LEMMA SoloStep ==
  Solo /\ TypeOK /\ SoloInv /\ [Next]_vars => SoloInv'
<1> SUFFICES ASSUME Solo, TypeOK, SoloInv, [Next]_vars PROVE SoloInv'
  OBVIOUS
<1> USE DEF TypeOK, env, mets, gossip, Goto, Release, Workers, SoloInv
<1>1. CASE Environment
  BY <1>1 DEF Environment
<1>2. CASE Shutdown
  BY <1>2 DEF Shutdown
<1>3. CASE Background
  <2>1. CASE Boot
    BY <2>1 DEF Boot
  <2>2. CASE RefreshTick
    BY <2>2 DEF RefreshTick
  <2>3. CASE RefreshWakes
    BY <2>3 DEF RefreshWakes
  <2>0. ASSUME NEW t \in Targets, DiscoverTarget("bg", t) PROVE SoloInv'
    BY <2>0, TargetTurn
  <2>4. CASE DiscoverCluster("bg")
    BY <2>4 DEF DiscoverCluster
  <2>5. CASE DiscoveryFails("bg")
    BY <2>5 DEF DiscoveryFails, AfterCycle
  <2>6. CASE ReadOld("bg")
    <3>1. job'["bg"].old = snapshot.targets
      BY <2>6 DEF ReadOld, Jobs
    <3> QED BY <2>6, <3>1 DEF ReadOld
  <2>7. CASE ResetGauge("bg")
    BY <2>7 DEF ResetGauge
  <2>8. CASE RecordGauge("bg")
    <3>1. /\ job'["bg"].old = job["bg"].old
          /\ job'["bg"].found = job["bg"].found
      BY <2>8 DEF RecordGauge, Jobs
    <3> QED BY <2>8, <3>1 DEF RecordGauge
  <2>9. CASE Install("bg")
    BY <2>9 DEF Install
  <2>10. CASE CountChurn("bg")
    <3>1. job["bg"].old \in SUBSET Targets /\ job["bg"].found \in SUBSET Targets
      BY DEF Jobs
    <3>2. churn' = Cardinality(Addrs(job["bg"].found))
      BY <2>10, <3>1, ChurnSum DEF CountChurn
    <3> QED BY <2>10, <3>2 DEF CountChurn
  <2>11. CASE RecordStartup("bg")
    BY <2>11 DEF RecordStartup
  <2>12. CASE PublishCache
    BY <2>12 DEF PublishCache, Solo
  <2>13. CASE PublishRoutes
    BY <2>13 DEF PublishRoutes
  <2>14. CASE RecordSuccess
    BY <2>14 DEF RecordSuccess, AfterCycle
  <2>15. CASE LoopStops("bg")
    BY <2>15 DEF LoopStops
  <2> QED BY <1>3, <2>0, <2>1, <2>2, <2>3, <2>4, <2>5, <2>6, <2>7, <2>8, <2>9,
             <2>10, <2>11, <2>12, <2>13, <2>14, <2>15
          DEF Background, Refresh, Discover, Replace
<1>4. CASE UNCHANGED vars
  BY <1>4 DEF vars
<1> QED BY <1>1, <1>2, <1>3, <1>4, SoloMoves

LEMMA SoloInvariant == ASSUME Solo PROVE Spec => [](TypeOK /\ SoloInv)
<1>1. Solo
  OBVIOUS
<1>2. Init => SoloInv
  BY <1>1, SoloInit
<1>3. TypeOK /\ SoloInv /\ [Next]_vars => SoloInv'
  BY <1>1, SoloStep
<1> QED BY <1>2, <1>3, TypeCorrect, PTL DEF Spec

(* With one refresher a replacement never removes more than the configured *)
(* fraction of the addresses: the cache that the guard compared with is    *)
(* the one that is replaced (churn_guard_should_discard).                  *)
THEOREM SoloChurnBounded == ASSUME Solo PROVE Spec => ChurnBounded
<1>1. TypeOK /\ SoloInv /\ [Next]_vars
        => [WithinDropLimit(snapshot.targets, snapshot'.targets)]_vars
  <2> SUFFICES ASSUME TypeOK, SoloInv, [Next]_vars
               PROVE  WithinDropLimit(snapshot.targets, snapshot'.targets)
    OBVIOUS
  <2> USE DEF env, mets, gossip
  <2>0. snapshot.targets \in SUBSET Targets
    BY DEF TypeOK
  <2>1. CASE snapshot' = snapshot
    BY <2>0, <2>1, NoDropIsWithinLimit
  <2>2. CASE Install("bg")
    <3>1. /\ job["bg"].old = snapshot.targets
          /\ ~DiscardsAsChurn(job["bg"].old, job["bg"].found)
          /\ snapshot'.targets = job["bg"].found
      BY <2>2 DEF Install, SoloInv
    <3>2. job["bg"].found \in SUBSET Targets
      BY DEF TypeOK, Jobs, Workers
    <3> QED BY <2>0, <3>1, <3>2, KeptIsWithinLimit
  <2>3. Background => snapshot' = snapshot \/ Install("bg")
    BY DEF Background, Refresh, Replace, Boot, RefreshTick, RefreshWakes,
           Discover, DiscoverTarget, DiscoverCluster, DiscoveryFails, ReadOld, ResetGauge, RecordGauge,
           CountChurn, RecordStartup, PublishCache, PublishRoutes, RecordSuccess,
           LoopStops
  <2>4. Environment \/ Shutdown \/ UNCHANGED vars => snapshot' = snapshot
    BY DEF Environment, Shutdown, vars
  <2> QED BY <2>1, <2>2, <2>3, <2>4, SoloMoves
<1> QED BY <1>1, SoloInvariant, PTL DEF Spec, ChurnBounded

(* With one refresher the churn counters always sum up to the addresses    *)
(* served, whatever was discarded in between (target_address_churn).       *)
THEOREM SoloChurnConserved == ASSUME Solo PROVE Spec => []ChurnConserved
<1>1. SoloInv => ChurnConserved
  BY DEF SoloInv, ChurnConserved, Workers
<1> QED BY <1>1, SoloInvariant, PTL

LEMMA SoloGaugeStep ==
  Solo /\ DropNum = 0 /\ TypeOK /\ SoloInv /\ SoloGaugeInv /\ [Next]_vars
    => SoloGaugeInv'
<1> SUFFICES ASSUME Solo, DropNum = 0, TypeOK, SoloInv, SoloGaugeInv, [Next]_vars
             PROVE  SoloGaugeInv'
  OBVIOUS
<1>5. ASSUME NEW t \in Targets, DiscoverTarget("bg", t) PROVE SoloGaugeInv'
  <2>1. pc["bg"] = "discover" /\ UNCHANGED <<pc, gauge, snapshot>>
    BY <1>5 DEF DiscoverTarget, mets
  <2> QED BY <2>1 DEF SoloGaugeInv
<1> USE DEF TypeOK, env, mets, gossip, Goto, Release, Workers, SoloGaugeInv
<1>1. CASE Environment
  BY <1>1 DEF Environment
<1>2. CASE Shutdown
  BY <1>2 DEF Shutdown
<1>3. CASE Background
  <2>1. CASE Boot
    BY <2>1 DEF Boot
  <2>2. CASE RefreshTick
    BY <2>2 DEF RefreshTick
  <2>3. CASE RefreshWakes
    BY <2>3 DEF RefreshWakes
  <2>0. ASSUME NEW t \in Targets, DiscoverTarget("bg", t) PROVE SoloGaugeInv'
    BY <2>0, <1>5
  <2>4. CASE DiscoverCluster("bg")
    BY <2>4 DEF DiscoverCluster
  <2>5. CASE DiscoveryFails("bg")
    BY <2>5 DEF DiscoveryFails, AfterCycle
  <2>6. CASE ReadOld("bg")
    BY <2>6 DEF ReadOld
  <2>7. CASE ResetGauge("bg")
    <3>1. \A c \in Clusters : gauge[c] = CountIn(snapshot.targets, c)
      BY <2>7 DEF ResetGauge
    <3>2. \A c \in Clusters :
            c \notin ClustersToReset(job["bg"].old) => gauge[c] = 0
      <4> SUFFICES ASSUME NEW c \in Clusters,
                          c \notin {ClusterOf[t] : t \in snapshot.targets}
                   PROVE  gauge[c] = 0
        BY <2>7 DEF ResetGauge, ClustersToReset, SoloInv
      <4>1. {t \in snapshot.targets : ClusterOf[t] = c} = {}
        OBVIOUS
      <4> QED BY <3>1, <4>1, FS_EmptySet DEF CountIn
    <3> QED BY <2>7, <3>2 DEF ResetGauge, GaugeAfterReset
  <2>8. CASE RecordGauge("bg")
    <3>1. job["bg"].found \in SUBSET Targets
      BY DEF Jobs
    <3>2. \A c \in Clusters : CountIn(job["bg"].found, c) \in Nat
      BY <3>1, CountInNat
    <3>3. gauge' = [c \in Clusters |-> CountIn(job["bg"].found, c)]
      BY <2>8, <3>2 DEF RecordGauge
    <3>4. pc'["bg"] = "install" /\ job'["bg"].found = job["bg"].found
      BY <2>8 DEF RecordGauge, DiscardsAsChurn, Jobs
    <3> QED BY <3>3, <3>4
  <2>9. CASE Install("bg")
    BY <2>9 DEF Install
  <2>10. CASE CountChurn("bg")
    BY <2>10 DEF CountChurn
  <2>11. CASE RecordStartup("bg")
    BY <2>11 DEF RecordStartup
  <2>12. CASE PublishCache
    BY <2>12 DEF PublishCache
  <2>13. CASE PublishRoutes
    BY <2>13 DEF PublishRoutes
  <2>14. CASE RecordSuccess
    BY <2>14 DEF RecordSuccess, AfterCycle
  <2>15. CASE LoopStops("bg")
    BY <2>15 DEF LoopStops
  <2> QED BY <1>3, <2>0, <2>1, <2>2, <2>3, <2>4, <2>5, <2>6, <2>7, <2>8, <2>9,
             <2>10, <2>11, <2>12, <2>13, <2>14, <2>15
          DEF Background, Refresh, Discover, Replace
<1>4. CASE UNCHANGED vars
  BY <1>4 DEF vars
<1> QED BY <1>1, <1>2, <1>3, <1>4, SoloMoves

(* With one refresher and the guard off the per-cluster gauge shows the    *)
(* served cache whenever no replacement is half way, also for clusters     *)
(* that were configured by ARN (record_per_cluster_target_counts).         *)
THEOREM SoloGaugeMatches ==
  ASSUME Solo, DropNum = 0 PROVE Spec => []GaugeMatchesCache
<1>1. Solo /\ DropNum = 0
  OBVIOUS
<1>2. Init => SoloGaugeInv
  BY <1>1, SoloInit
<1>3. TypeOK /\ SoloInv /\ SoloGaugeInv /\ [Next]_vars => SoloGaugeInv'
  BY <1>1, SoloGaugeStep
<1>4. SoloGaugeInv => GaugeMatchesCache
  BY DEF SoloGaugeInv, GaugeMatchesCache, Workers
<1> QED BY <1>2, <1>3, <1>4, SoloInvariant, PTL DEF Spec
=============================================================================
