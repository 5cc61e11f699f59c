------------------------- MODULE HealthProbeProofs -------------------------
(***************************************************************************)
(* What an outage of AWS leaves of the cache and of the health endpoints,  *)
(* and what a healthy member has published, for every set of targets,      *)
(* clusters and manual requests, every configuration and every bound.      *)
(*                                                                         *)
(* That a populated cache never becomes empty is not inductive: an empty   *)
(* list might come from a discovery under way, or from gossip.  As long as *)
(* one target of each cluster keeps running and answering for itself, a    *)
(* pass that has looked at it has taken it over, an attempt that has had   *)
(* one answer has found something, and what was published was not empty    *)
(* either.                                                                 *)
(***************************************************************************)
EXTENDS HealthProbe, CacheNodeRefinementProofs

(* What a worker holds: of a pass under way, and of the clusters before.   *)
Holds(s, c, j) ==
  /\ j.ok => j.found # {}
  /\ s[c] \in j.seen => s[c] \in j.here

OutageInv(s) ==
  /\ \A w \in Workers : \A c \in Clusters : Holds(s, c, job[w])
  /\ published.kind = "list" => published.targets # {}
  /\ Populated => snapshot.targets # {}

(* What a probe has been told: once targets have been found the cache is   *)
(* not empty again, and what is under way has counted some.                *)
ProbeInv ==
  /\ available => snapshot.targets # {}
  /\ probe.stage = "counted" /\ available => probe.some
  /\ probe.stage = "answered" /\ available => probe.code = 200

(* A success is recorded after the publication only.                       *)
MemberInv ==
  Clustered /\ (outcome = "ok" \/ pc["bg"] \in {"publishRoutes", "outcome"}) =>
    published.kind = "list"

-----------------------------------------------------------------------------
(* A step that moves one worker disturbs only what that worker holds.      *)
LEMMA WorkerFinds ==
  ASSUME TypeOK, NEW s, OutageInv(s), NEW w \in Workers, NEW j,
         job' = [job EXCEPT ![w] = j], \A c \in Clusters : Holds(s, c, j),
         UNCHANGED <<snapshot, published>>
  PROVE  OutageInv(s)'
<1>1. \A v \in Workers : job'[v] = (IF v = w THEN j ELSE job[v])
  BY DEF TypeOK
<1>2. \A v \in Workers : \A c \in Clusters : Holds(s, c, job'[v])
  BY <1>1 DEF OutageInv
<1> QED BY <1>2 DEF OutageInv, Populated, Holds

(* Nor does a step that leaves what it has found and looked at.            *)
LEMMA WorkerHolds ==
  ASSUME TypeOK, NEW s, OutageInv(s), NEW w \in Workers, NEW j,
         job' = [job EXCEPT ![w] = j], UNCHANGED <<snapshot, published>>,
         j.ok = job[w].ok, j.found = job[w].found,
         j.seen = job[w].seen, j.here = job[w].here
  PROVE  OutageInv(s)'
<1>1. \A c \in Clusters : Holds(s, c, j)
  BY DEF OutageInv, Holds
<1> QED BY <1>1, WorkerFinds

LEMMA WorkerRests ==
  ASSUME TypeOK, NEW s, OutageInv(s), NEW w \in Workers,
         job' = [job EXCEPT ![w] = NoJob], UNCHANGED <<snapshot, published>>
  PROVE  OutageInv(s)'
<1>1. \A c \in Clusters : Holds(s, c, NoJob)
  BY DEF Holds, NoJob
<1> QED BY <1>1, WorkerFinds

LEMMA NothingFound ==
  ASSUME TypeOK, NEW s, OutageInv(s), UNCHANGED <<job, snapshot, published>>
  PROVE  OutageInv(s)'
BY DEF OutageInv, Populated, Holds

LEMMA ReplaceKeeps ==
  ASSUME TypeOK, DraftInv, NEW s, OutageInv(s), NEW w \in Workers, Replace(w)
  PROVE  OutageInv(s)'
<1> USE DEF env, mets, gossip, Goto, Release
<1>0. job[w] \in Jobs /\ (job[w].ok => job[w].found # {})
  BY ConstantsAssumption DEF TypeOK, OutageInv, Holds
<1>1. CASE ReadOld(w)
  <2> DEFINE j == [job[w] EXCEPT !.old = snapshot.targets]
  <2>1. job' = [job EXCEPT ![w] = j] /\ UNCHANGED <<snapshot, published>>
    BY <1>1 DEF ReadOld
  <2>2. /\ j.ok = job[w].ok /\ j.found = job[w].found
        /\ j.seen = job[w].seen /\ j.here = job[w].here
    BY <1>0 DEF Jobs
  <2> HIDE DEF j
  <2> QED BY <2>1, <2>2, WorkerHolds
<1>2. CASE ResetGauge(w) \/ CountChurn(w)
  BY <1>2, NothingFound DEF ResetGauge, CountChurn
<1>3. CASE RecordGauge(w)
  <2> DEFINE j == [job[w] EXCEPT !.at = clock]
  <2>1. job' \in {job, [job EXCEPT ![w] = j]} /\ UNCHANGED <<snapshot, published>>
    BY <1>3 DEF RecordGauge
  <2>2. /\ j.ok = job[w].ok /\ j.found = job[w].found
        /\ j.seen = job[w].seen /\ j.here = job[w].here
    BY <1>0 DEF Jobs
  <2> HIDE DEF j
  <2> QED BY <2>1, <2>2, WorkerHolds, NothingFound
<1>4. CASE Install(w)
  <2>1. job[w].ok
    BY <1>4 DEF Install, DraftInv, Replacing
  <2>2. snapshot'.targets # {}
    BY <1>0, <1>4, <2>1 DEF Install
  <2>3. UNCHANGED <<job, published>>
    BY <1>4 DEF Install
  <2> QED BY <2>2, <2>3 DEF OutageInv, Holds
<1>5. CASE RecordStartup(w)
  <2>1. job' \in {job, [job EXCEPT ![w] = NoJob]} /\ UNCHANGED <<snapshot, published>>
    BY <1>5 DEF RecordStartup
  <2> QED BY <2>1, WorkerRests, NothingFound
<1> QED BY <1>1, <1>2, <1>3, <1>4, <1>5 DEF Replace

LEMMA RefreshKeeps ==
  ASSUME NEW s \in Representatives, Steady(s), TypeOK, DraftInv, OutageInv(s),
         NEW w \in Workers, w # "fs", Refresh(w)
  PROVE  OutageInv(s)'
<1>0. ASSUME NEW t \in Targets, DiscoverTarget(w, t) PROVE OutageInv(s)'
  <2>0. PICK j \in Jobs : Turn(w, t, j)
    BY <1>0, TargetTurn
  <2>1. /\ job' = [job EXCEPT ![w] = j]
        /\ j.seen = job[w].seen \cup {t}
        /\ j.here = (IF t \in world \ down THEN job[w].here \cup {t} ELSE job[w].here)
        /\ j.ok = job[w].ok /\ j.found = job[w].found
    BY <2>0 DEF Turn
  <2>2. ASSUME NEW c \in Clusters PROVE Holds(s, c, j)
    <3>1. s[c] \in world \ down /\ Holds(s, c, job[w])
      BY DEF Steady, OutageInv
    <3> QED BY <2>1, <3>1 DEF Holds
  <2>3. UNCHANGED <<snapshot, published>>
    BY <1>0 DEF DiscoverTarget, gossip
  <2> QED BY <2>1, <2>2, <2>3, WorkerFinds
<1> USE DEF env, mets, gossip, Goto, Release
<1>1. CASE DiscoverCluster(w)
  <2> DEFINE c == ClusterNow(w)
             ok == SucceededSoFar(job[w].ok, c \notin down)
             found == job[w].found \cup Contribution(job[w].here, c \notin down)
             j == [next |-> job[w].next + 1, seen |-> {}, here |-> {}, ok |-> ok,
                   found |-> found, old |-> job[w].old, at |-> job[w].at]
  <2>1. c \in Clusters
    BY <1>1, ConstantsAssumption DEF DiscoverCluster, DraftInv, ClusterNow
  <2>2. c \notin down => job[w].here # {}
    <3>1. s[c] \in TargetsOf(c)
      BY <2>1 DEF Representatives, TargetsOf
    <3>2. Holds(s, c, job[w])
      BY <2>1 DEF OutageInv
    <3> QED BY <1>1, <3>1, <3>2 DEF DiscoverCluster, Holds
  <2>3. ok => found # {}
    <3>1. job[w].ok => job[w].found # {}
      BY <2>1 DEF OutageInv, Holds
    <3> QED BY <2>2, <3>1 DEF SucceededSoFar, Contribution
  <2>4. job' = [job EXCEPT ![w] = j] /\ UNCHANGED <<snapshot, published>>
    BY <1>1 DEF DiscoverCluster
  <2>5. j.ok = ok /\ j.found = found /\ j.seen = {}
    OBVIOUS
  <2> HIDE DEF j, ok, found
  <2>6. \A e \in Clusters : Holds(s, e, j)
    BY <2>3, <2>5 DEF Holds
  <2> QED BY <2>4, <2>6, WorkerFinds
<1>2. CASE DiscoveryFails(w)
  <2>1. job' = [job EXCEPT ![w] = NoJob] /\ UNCHANGED <<snapshot, published>>
    BY <1>2 DEF DiscoveryFails
  <2> QED BY <2>1, WorkerRests
<1>3. CASE Replace(w)
  BY <1>3, ReplaceKeeps
<1> QED BY <1>0, <1>1, <1>2, <1>3 DEF Refresh, Discover

LEMMA OutageStep ==
  ASSUME NEW s \in Representatives
  PROVE  Steady(s) /\ TypeOK /\ DraftInv /\ PopulationInv /\ OutageInv(s) /\ [Next]_vars
           => OutageInv(s)'
<1> SUFFICES ASSUME Steady(s), TypeOK, DraftInv, PopulationInv, OutageInv(s), [Next]_vars
             PROVE  OutageInv(s)'
  OBVIOUS
<1> USE DEF env, mets, gossip, Goto, Release, Workers
<1>1. CASE Environment \/ Shutdown \/ UNCHANGED vars
  BY <1>1, NothingFound DEF Environment, Shutdown, vars
<1>2. CASE Background
  <2>1. CASE Boot \/ RefreshTick \/ RefreshWakes \/ PublishRoutes \/ LoopStops("bg")
    BY <2>1, NothingFound DEF Boot, RefreshTick, RefreshWakes, PublishRoutes, LoopStops
  <2>2. CASE Refresh("bg")
    BY <2>2, RefreshKeeps
  <2>3. CASE PublishCache
    <3>1. snapshot.targets # {}
      BY <2>3 DEF PublishCache, PopulationInv, OutageInv
    <3>2. published' \in {published, [kind |-> "list", targets |-> snapshot.targets]}
      BY <2>3 DEF PublishCache
    <3>3. UNCHANGED <<job, snapshot>>
      BY <2>3 DEF PublishCache
    <3>4. published'.kind = "list" => published'.targets # {}
      <4>1. CASE published' = published
        BY <4>1 DEF OutageInv
      <4>2. CASE published' = [kind |-> "list", targets |-> snapshot.targets]
        BY <3>1, <4>2
      <4> QED BY <3>2, <4>1, <4>2
    <3> QED BY <3>3, <3>4 DEF OutageInv, Populated, Holds
  <2>4. CASE RecordSuccess
    <3>1. job' = [job EXCEPT !["bg"] = NoJob] /\ UNCHANGED <<snapshot, published>>
      BY <2>4 DEF RecordSuccess
    <3> QED BY <3>1, WorkerRests
  <2> QED BY <1>2, <2>1, <2>2, <2>3, <2>4 DEF Background
<1>3. CASE FollowerSync
  <2>1. CASE SyncTick \/ LoopStops("fs")
    BY <2>1, NothingFound DEF SyncTick, LoopStops
  <2>2. CASE SyncFetch
    <3> DEFINE j == [NoJob EXCEPT !.ok = TRUE, !.found = LeaderValue.targets]
    <3>1. CASE LeaderValue.kind = "list"
      <4>1. job' = [job EXCEPT !["fs"] = j] /\ UNCHANGED <<snapshot, published>>
        BY <2>2, <3>1 DEF SyncFetch
      <4>2. LeaderValue.targets # {}
        BY <3>1 DEF LeaderValue, OutageInv, Steady
      <4>3. j.found # {} /\ j.seen = {}
        BY <4>2 DEF NoJob
      <4> HIDE DEF j
      <4>4. \A c \in Clusters : Holds(s, c, j)
        BY <4>3 DEF Holds
      <4> QED BY <4>1, <4>4, WorkerFinds
    <3>2. CASE LeaderValue.kind # "list"
      BY <2>2, <3>2, NothingFound DEF SyncFetch
    <3> QED BY <3>1, <3>2
  <2>3. CASE Replace("fs")
    BY <2>3, ReplaceKeeps
  <2> QED BY <1>3, <2>1, <2>2, <2>3 DEF FollowerSync
<1>4. ASSUME NEW h \in Handlers, ManualCheck(h) \/ Request(h) \/ ClientDisconnects(h)
      PROVE  OutageInv(s)'
  <2>0. h \in Workers /\ h # "fs" /\ job[h] \in Jobs
    BY ConstantsAssumption DEF TypeOK
  <2>1. CASE ManualCheck(h)
    <3> DEFINE j == [job[h] EXCEPT !.at = clock]
    <3>1. job' = [job EXCEPT ![h] = j] /\ UNCHANGED <<snapshot, published>>
      BY <2>1 DEF ManualCheck
    <3>2. /\ j.ok = job[h].ok /\ j.found = job[h].found
          /\ j.seen = job[h].seen /\ j.here = job[h].here
      BY <2>0 DEF Jobs
    <3> HIDE DEF j
    <3> QED BY <2>0, <3>1, <3>2, WorkerHolds
  <2>2. CASE ManualStamp(h)
    BY <2>2, NothingFound DEF ManualStamp
  <2>3. CASE Refresh(h)
    BY <2>0, <2>3, RefreshKeeps
  <2>4. CASE ClientDisconnects(h)
    <3>1. job' = [job EXCEPT ![h] = NoJob] /\ UNCHANGED <<snapshot, published>>
      BY <2>4 DEF ClientDisconnects
    <3> QED BY <2>0, <3>1, WorkerRests
  <2> QED BY <1>4, <2>1, <2>2, <2>3, <2>4 DEF Request
<1> QED BY <1>1, <1>2, <1>3, <1>4 DEF Next

LEMMA OutageInit == ASSUME NEW s PROVE Init => OutageInv(s)
BY DEF Init, OutageInv, Holds, NoJob, NotPublished, Populated

-----------------------------------------------------------------------------
(* As long as one target of each cluster keeps running and answering for   *)
(* itself, and no leader publishes an empty cache, no refresh of a node    *)
(* ever installs one, whichever clusters fail at whatever point of their   *)
(* pass, whatever other targets come, go or drop out, and however the      *)
(* timer's, the manual and the follower's refreshes overlap                *)
(* (aggregate_cluster_results: a failed cluster contributes nothing, an    *)
(* attempt of which all failed installs nothing).                          *)
THEOREM OutageKeepsTargets == Spec => OutageNeverEmpties
<1> DEFINE Full == Populated => snapshot.targets # {}
<1>1. ASSUME NEW s \in Representatives PROVE Spec => ([]Steady(s) => []Full)
  <2>1. Init => OutageInv(s)
    BY OutageInit
  <2>2. OutageInv(s) => Full
    BY DEF OutageInv
  <2>3. Steady(s) /\ TypeOK /\ DraftInv /\ PopulationInv /\ OutageInv(s) /\ [Next]_vars
          => OutageInv(s)'
    BY OutageStep
  <2> HIDE DEF Full
  <2> QED BY <2>1, <2>2, <2>3, TypeCorrect, Population, DraftsSound, PTL DEF Spec
<1> HIDE DEF Full
<1>2. Spec => \A s \in Representatives : []Steady(s) => []Full
  BY <1>1
<1> QED BY <1>2 DEF OutageNeverEmpties, Full

-----------------------------------------------------------------------------
(* The probes beside the workers. *)

LEMMA NodeSteps == [ProbeNext]_allVars => [Next]_vars
BY DEF ProbeNext, allVars

LEMMA NodeBeside == ProbeSpec => Spec
<1>1. ProbeInit => Init
  BY DEF ProbeInit
<1> QED BY <1>1, NodeSteps, PTL DEF ProbeSpec, Spec

(* Only an installation changes the snapshot. *)
LEMMA SnapshotSteps ==
  ASSUME [Next]_vars PROVE UNCHANGED snapshot \/ \E w \in Workers : Install(w)
<1>1. \A w : Replace(w) => UNCHANGED snapshot \/ Install(w)
  BY DEF Replace, ReadOld, ResetGauge, RecordGauge, CountChurn, RecordStartup
<1>2. \A w : Refresh(w) => UNCHANGED snapshot \/ Install(w)
  BY <1>1 DEF Refresh, Discover, DiscoverTarget, DiscoverCluster, DiscoveryFails
<1>3. Background \/ FollowerSync => UNCHANGED snapshot \/ \E w \in Workers : Install(w)
  BY <1>1, <1>2
     DEF Background, FollowerSync, Workers, Boot, RefreshTick, RefreshWakes,
         PublishCache, PublishRoutes, RecordSuccess, LoopStops, SyncTick, SyncFetch
<1>4. \A h \in Handlers : ManualCheck(h) \/ Request(h) \/ ClientDisconnects(h)
                            => UNCHANGED snapshot \/ Install(h)
  BY <1>2 DEF ManualCheck, Request, ManualStamp, ClientDisconnects
<1>5. Environment \/ Shutdown \/ UNCHANGED vars => UNCHANGED snapshot
  BY DEF Environment, Shutdown, vars
<1> QED BY <1>3, <1>4, <1>5 DEF Next, Workers

LEMMA ProbeStep ==
  ASSUME NEW s
  PROVE  DraftInv /\ OutageInv(s) /\ ProbeInv /\ [ProbeNext]_allVars => ProbeInv'
<1> SUFFICES ASSUME DraftInv, OutageInv(s), ProbeInv, [ProbeNext]_allVars
             PROVE  ProbeInv'
  OBVIOUS
<1> USE DEF ProbeInv, probeVars, allVars
<1>1. CASE Next /\ UNCHANGED probeVars
  <2>1. ASSUME NEW w \in Workers, Install(w) PROVE snapshot'.targets # {}
    BY <2>1, ConstantsAssumption DEF Install, DraftInv, Replacing, OutageInv, Holds
  <2>2. snapshot.targets # {} => snapshot'.targets # {}
    BY <1>1, <2>1, SnapshotSteps
  <2> QED BY <1>1, <2>2
<1>2. CASE (\E e \in Endpoints : Ask(e)) /\ UNCHANGED vars
  BY <1>2 DEF Ask, Waiting, vars
<1>3. CASE ReadSnapshot /\ UNCHANGED vars
  BY <1>3 DEF ReadSnapshot, HasTargets, Readiness, Counted, Answered, vars
<1>4. CASE ReadOutcome /\ UNCHANGED vars
  <2>1. probe.some => HealthStatus(probe.some, outcome).code = 200
    BY DEF HealthStatus, Answered
  <2> QED BY <1>4, <2>1 DEF ReadOutcome, HealthStatus, Answered, vars
<1>5. CASE UNCHANGED allVars
  BY <1>5 DEF vars
<1> QED BY <1>1, <1>2, <1>3, <1>4, <1>5 DEF ProbeNext, Prober

(* As long as one target of each cluster keeps running and answering for   *)
(* itself and no leader publishes an empty cache, a node that was found to *)
(* have targets goes on answering 200 on both endpoints, alone or in a     *)
(* cluster, whatever else fails and whichever worker installs or records   *)
(* an outcome between the two reads of /health (determine_health_status,   *)
(* determine_readiness_status).                                            *)
THEOREM OutageKeepsInRotation == ProbeSpec => OutageKeepsAvailable
<1> DEFINE Good == available /\ probe.stage = "answered" => probe.code = 200
<1>1. ASSUME NEW s \in Representatives PROVE ProbeSpec => ([]Steady(s) => []Good)
  <2>1. ProbeInit => OutageInv(s) /\ ProbeInv
    BY OutageInit DEF ProbeInit, ProbeInv, NoProbe
  <2>2. ProbeInv => Good
    BY DEF ProbeInv
  <2>3. Steady(s) /\ TypeOK /\ DraftInv /\ PopulationInv /\ OutageInv(s) /\ [Next]_vars
          => OutageInv(s)'
    BY OutageStep
  <2>4. DraftInv /\ OutageInv(s) /\ ProbeInv /\ [ProbeNext]_allVars => ProbeInv'
    BY ProbeStep
  <2> HIDE DEF Good
  <2> QED BY <2>1, <2>2, <2>3, <2>4, NodeSteps, NodeBeside, TypeCorrect, Population,
             DraftsSound, PTL DEF ProbeSpec
<1> HIDE DEF Good
<1>2. ProbeSpec => \A s \in Representatives : []Steady(s) => []Good
  BY <1>1
<1> QED BY <1>2 DEF OutageKeepsAvailable, Good

-----------------------------------------------------------------------------
(* What a success says about publication. *)

LEMMA MemberStep ==
  TypeOK /\ PopulationInv /\ MemberInv /\ [Next]_vars => MemberInv'
<1> SUFFICES ASSUME TypeOK, PopulationInv, MemberInv, [Next]_vars PROVE MemberInv'
  OBVIOUS
<1> USE DEF MemberInv, env, mets, gossip, Goto, Release, TypeOK
<1>1. CASE Environment \/ Shutdown \/ UNCHANGED vars
  BY <1>1 DEF Environment, Shutdown, vars
<1>2. ASSUME NEW w \in Workers, Refresh(w) PROVE MemberInv'
  <2>1. UNCHANGED <<published>> /\ outcome' \in {outcome, "failed"}
    BY <1>2 DEF Refresh, Discover, DiscoverTarget, DiscoverCluster, DiscoveryFails,
                Replace, ReadOld, ResetGauge, RecordGauge, Install, CountChurn,
                RecordStartup
  <2>2. \E p \in PCs \ {"publishRoutes", "outcome"} : pc' = [pc EXCEPT ![w] = p]
    <3>1. CASE \E t \in Targets : DiscoverTarget(w, t)
      BY <3>1 DEF DiscoverTarget, PCs
    <3>2. CASE DiscoverCluster(w) \/ DiscoveryFails(w) \/ Replace(w)
      BY <3>2 DEF DiscoverCluster, DiscoveryFails, Replace, ReadOld, ResetGauge,
                  RecordGauge, Install, CountChurn, RecordStartup, AfterCycle, PCs
    <3> QED BY <1>2, <3>1, <3>2 DEF Refresh, Discover
  <2> QED BY <2>1, <2>2 DEF Workers
<1>3. CASE Background
  <2> USE DEF Workers
  <2>1. CASE Boot \/ RefreshTick \/ RefreshWakes \/ LoopStops("bg")
    BY <2>1 DEF Boot, RefreshTick, RefreshWakes, LoopStops
  <2>2. CASE Refresh("bg")
    BY <1>2, <2>2
  <2>3. CASE PublishCache
    <3>1. snapshot.lastRefresh # 0
      BY <2>3 DEF PublishCache, PopulationInv, Populated
    <3> QED BY <2>3, <3>1 DEF PublishCache
  <2>4. CASE PublishRoutes
    BY <2>4 DEF PublishRoutes
  <2>5. CASE RecordSuccess
    BY <2>5 DEF RecordSuccess, AfterCycle
  <2> QED BY <1>3, <2>1, <2>2, <2>3, <2>4, <2>5 DEF Background
<1>4. CASE FollowerSync
  <2> USE DEF Workers
  <2>1. CASE SyncTick \/ SyncFetch \/ LoopStops("fs")
    BY <2>1 DEF SyncTick, SyncFetch, LoopStops
  <2>2. CASE Replace("fs")
    BY <1>2, <2>2 DEF Refresh
  <2> QED BY <1>4, <2>1, <2>2 DEF FollowerSync
<1>5. ASSUME NEW h \in Handlers, ManualCheck(h) \/ Request(h) \/ ClientDisconnects(h)
      PROVE  MemberInv'
  <2>0. h \in Workers /\ h # "bg"
    BY ConstantsAssumption DEF Workers
  <2>1. CASE ManualCheck(h) \/ ManualStamp(h) \/ ClientDisconnects(h)
    <3>1. \E p \in {"stamp", "discover", "idle"} : pc' = [pc EXCEPT ![h] = p]
      BY <2>1 DEF ManualCheck, ManualStamp, ClientDisconnects
    <3>2. pc'["bg"] = pc["bg"]
      BY <2>0, <3>1 DEF Workers
    <3>3. UNCHANGED <<published, outcome>>
      BY <2>1 DEF ManualCheck, ManualStamp, ClientDisconnects
    <3> QED BY <3>2, <3>3
  <2>2. CASE Refresh(h)
    BY <1>2, <2>0, <2>2
  <2> QED BY <1>5, <2>1, <2>2 DEF Request
<1> QED BY <1>1, <1>3, <1>4, <1>5 DEF Next

(* What a probe has been told of the outcome stays true of the published   *)
(* cache, which no action takes back.                                      *)
HealthyInv ==
  /\ MemberInv
  /\ HealthyMemberHasPublished

LEMMA PublishedStays ==
  ASSUME [Next]_vars, published.kind = "list"
  PROVE  published'.kind = "list"
<1>1. CASE PublishCache
  BY <1>1 DEF PublishCache
<1>2. [Next]_vars => PublishCache \/ UNCHANGED published
  BY DEF Next, Environment, Shutdown, Background, FollowerSync, Request, Refresh, Replace,
         Boot, RefreshTick, RefreshWakes, Discover, DiscoverTarget, DiscoverCluster,
         DiscoveryFails, ReadOld,
         ResetGauge, RecordGauge, Install, CountChurn, RecordStartup,
         PublishRoutes, RecordSuccess, LoopStops, SyncTick, SyncFetch, ManualCheck,
         ManualStamp, ClientDisconnects, vars, gossip
<1> QED BY <1>1, <1>2

LEMMA HealthyStep ==
  TypeOK /\ PopulationInv /\ HealthyInv /\ [ProbeNext]_allVars => HealthyInv'
<1> SUFFICES ASSUME TypeOK, PopulationInv, HealthyInv, [ProbeNext]_allVars
             PROVE  HealthyInv'
  OBVIOUS
<1>0. MemberInv'
  BY NodeSteps, MemberStep DEF HealthyInv
<1> USE DEF HealthyInv, HealthyMemberHasPublished, probeVars, allVars
<1>1. CASE Next /\ UNCHANGED probeVars
  BY <1>0, <1>1, PublishedStays
<1>2. CASE (\E e \in Endpoints : Ask(e)) /\ UNCHANGED vars
  BY <1>0, <1>2 DEF Ask, Waiting
<1>3. CASE ReadSnapshot /\ UNCHANGED vars
  <2>1. Readiness(HasTargets).status # "healthy"
    BY DEF Readiness, Answered
  <2> QED BY <1>0, <1>3, <2>1 DEF ReadSnapshot, Counted
<1>4. CASE ReadOutcome /\ UNCHANGED vars
  <2>1. HealthStatus(probe.some, outcome).status = "healthy" => outcome = "ok"
    BY DEF HealthStatus, Answered
  <2> QED BY <1>0, <1>4, <2>1 DEF ReadOutcome, MemberInv, vars, mets, gossip
<1>5. CASE UNCHANGED allVars
  BY <1>0, <1>5 DEF vars, gossip
<1> QED BY <1>1, <1>2, <1>3, <1>4, <1>5 DEF ProbeNext, Prober

(* A member of a cluster that answers healthy has published a cache itself *)
(* (health.rs: a node that only copies its leader's is never healthy),     *)
(* also when the count and the outcome are read at different times.        *)
THEOREM HealthyMemberSound == ProbeSpec => []HealthyMemberHasPublished
<1>1. ProbeInit => HealthyInv
  BY DEF ProbeInit, Init, HealthyInv, MemberInv, HealthyMemberHasPublished, NoProbe, Workers
<1>2. HealthyInv => HealthyMemberHasPublished
  BY DEF HealthyInv
<1> QED BY <1>1, <1>2, NodeSteps, NodeBeside, HealthyStep, TypeCorrect, Population,
       PTL DEF ProbeSpec
=============================================================================
