------------------------------ MODULE CacheNode ------------------------------
(***************************************************************************)
(* One ecs-sd process: the in-memory target cache, the tasks that replace  *)
(* it, and the metrics, health and gossip state they update on the way.    *)
(*                                                                         *)
(* Three kinds of worker run concurrently on the tokio runtime:            *)
(*   "bg"     the start-up discovery of main() and then the background     *)
(*            refresh loop (the loop is spawned when start-up is over);    *)
(*   "fs"     the follower sync task of cluster mode;                      *)
(*   Handlers the requests to POST /sd/refresh that may be in flight.      *)
(* Every await, lock acquisition and shared atomic separates two actions;  *)
(* pc[w] says where worker w stands and job[w] holds its local variables.  *)
(*                                                                         *)
(* A target is an opaque element of Targets with a cluster name and an     *)
(* address; a list of targets is a set, because nothing here depends on    *)
(* its order.  AWS is "world" (the running targets) and "down": the        *)
(* clusters whose own calls fail, and the targets that a failing call or a *)
(* missing answer of their own keeps out of their cluster's list.  Gossip  *)
(* is "leader" (the answer of is_leader) and "remote" (what the elected    *)
(* leader has published, as seen from here).                               *)
(***************************************************************************)
EXTENDS Integers, Sequences, FiniteSets

CONSTANTS
  Targets,        \* everything ECS could ever run
  Clusters,       \* ECS cluster names
  ClusterOf,      \* the __meta_ecs_cluster_name label of each target
  AddrOf,         \* the scrape address of each target
  ClusterSeq,     \* config.clusters, in order
  NamedClusters,  \* the clusters configured by their name and not by ARN
  Failing,        \* the clusters and targets whose AWS calls may fail
  Handlers,       \* manual refresh requests that may overlap
  Clustered,      \* config.cluster_mode = Cluster
  ProxyMode,      \* config.mode = Proxy
  DropNum,        \* config.max_target_drop_ratio is DropNum / DropDen;
  DropDen,        \*   DropNum = 0 disables the guard
  MinInterval,    \* config.refresh_min_interval, in seconds
  MaxClock,       \* bound: the last second of the model's clock
  MaxChanges,     \* bound: how often the environment changes
  MaxRequests,    \* bound: how many manual refreshes are accepted
  MayShutdown     \* whether SIGTERM may arrive

Workers == {"bg", "fs"} \cup Handlers

ASSUME ConstantsAssumption ==
  /\ Clusters # {} /\ IsFiniteSet(Targets)
  /\ ClusterOf \in [Targets -> Clusters]
  /\ DOMAIN AddrOf = Targets
  /\ ClusterSeq \in Seq(Clusters) /\ ClusterSeq # << >>
  /\ NamedClusters \subseteq Clusters
  /\ Failing \subseteq Clusters \cup Targets
  /\ Handlers \cap {"bg", "fs"} = {}
  /\ {Clustered, ProxyMode, MayShutdown} \subseteq BOOLEAN
  /\ DropNum \in Nat /\ DropDen \in Nat \ {0} /\ DropNum <= DropDen
  /\ MinInterval \in Nat \ {0} /\ MaxClock \in Nat /\ MinInterval <= MaxClock
  /\ MaxChanges \in Nat /\ MaxRequests \in Nat

VARIABLES
  world,      \* AWS: the targets now running
  down,       \* AWS: the clusters and the targets whose own calls fail now
  clock,      \* SystemTime::now(), in seconds
  leader,     \* gossip: this node has the smallest live node_id
  remote,     \* gossip: the cache value of the leader, when it is a peer
  changes,    \* environment changes so far (bounded by MaxChanges)
  requests,   \* manual refreshes accepted so far (bounded by MaxRequests)
  pc,         \* where each worker stands
  job,        \* the local variables of each worker
  snapshot,   \* AppState.snapshot
  reading,    \* the publisher holds the snapshot's read lock
  gauge,      \* discovery_targets_per_cluster
  churn,      \* discovery_target_churn_total: added minus removed
  started,    \* startup_duration_recorded
  outcome,    \* last_refresh_outcome
  lastManual, \* last_manual_refresh_request
  published,  \* this node's ecs_sd.cache.v1 gossip value
  publishedRoutes, \* this node's ecs_sd.routing.v1 gossip value
  serving,    \* start-up is over: the tasks run and the listener is bound
  shutdown    \* the shutdown watch channel

env   == <<world, down, clock, leader, remote, changes>>
mets  == <<gauge, churn, started, outcome>>
gossip == <<published, publishedRoutes>>
vars  == <<env, requests, pc, job, snapshot, reading, mets, lastManual,
           gossip, serving, shutdown>>

-----------------------------------------------------------------------------
(* Values *)

NoJob == [next |-> 1, seen |-> {}, here |-> {}, ok |-> FALSE, found |-> {},
          old |-> {}, at |-> 0]
Jobs  == [next : Nat, seen : SUBSET Targets, here : SUBSET Targets,
          ok : BOOLEAN, found : SUBSET Targets,
          old : SUBSET Targets, at : 0..MaxClock]

NotPublished == [kind |-> "none", targets |-> {}]
GossipValues == [kind : {"none", "malformed", "list"}, targets : SUBSET Targets]

PCs == {"boot", "idle", "sleep", "fetch", "stamp", "discover", "failed",
        "replace", "reset", "record", "install", "churn", "startup",
        "publish", "publishRoutes", "outcome", "stopped"}

(* A refresh that a worker has under way, and its part that replaces the   *)
(* snapshot (replace_cache_and_record_metrics).                            *)
Busy == PCs \ {"boot", "idle", "stopped"}

Addrs(S) == {AddrOf[t] : t \in S}
CountIn(S, c) == Cardinality({t \in S : ClusterOf[t] = c})

(* The routing table of a snapshot: present in proxy mode only. *)
RoutesOf(S) == IF ProxyMode THEN S ELSE {}

(* The node refreshes from AWS when it stands alone or leads. *)
MayRefresh == ~Clustered \/ leader

(* Faulty variants of the guard: it fires at the limit, and so on an       *)
(* initial population too; it accepts any drop.                            *)
DiscardsAtLimit(old, new) ==
  /\ DropNum > 0
  /\ Cardinality(Addrs(old) \ Addrs(new)) * DropDen >= Cardinality(Addrs(old)) * DropNum
DiscardsNothing(old, new) == FALSE

(* churn_guard_should_discard: more than the configured fraction of the    *)
(* old addresses would go; never when disabled or when there were none.    *)
DiscardsAsChurn(old, new) ==
  /\ DropNum > 0
  /\ Addrs(old) # {}
  /\ Cardinality(Addrs(old) \ Addrs(new)) * DropDen > Cardinality(Addrs(old)) * DropNum

(* target_address_churn, as one signed number; the faulty variant counts   *)
(* targets although two of them may share an address.                      *)
ChurnCountingTargets(old, new) == Cardinality(new \ old) - Cardinality(old \ new)
NetChurn(old, new) ==
  Cardinality(Addrs(new) \ Addrs(old)) - Cardinality(Addrs(old) \ Addrs(new))

(* record_per_cluster_target_counts zeroes the clusters that had targets   *)
(* and the configured ones before it sets the new counts.  The faulty      *)
(* variant subtracts the old counts.                                       *)
ClustersToReset(old) == NamedClusters \cup {ClusterOf[t] : t \in old}

GaugeMinusOld(old, c) == gauge[c] - CountIn(old, c)
GaugeAfterReset(old, c) == IF c \in ClustersToReset(old) THEN 0 ELSE gauge[c]

-----------------------------------------------------------------------------
Init ==
  /\ world \in SUBSET Targets
  /\ down = {}
  /\ clock = MinInterval
  /\ leader \in (IF Clustered THEN BOOLEAN ELSE {TRUE})
  /\ remote = NotPublished
  /\ changes = 0
  /\ requests = 0
  /\ pc = [w \in Workers |-> IF w = "bg" THEN "boot" ELSE "idle"]
  /\ job = [w \in Workers |-> NoJob]
  /\ snapshot = [targets |-> {}, routes |-> {}, lastRefresh |-> 0]
  /\ reading = FALSE
  /\ gauge = [c \in Clusters |-> 0]
  /\ churn = 0
  /\ started = FALSE
  /\ outcome = "none"
  /\ lastManual = 0
  /\ published = NotPublished
  /\ publishedRoutes = {}
  /\ serving = FALSE
  /\ shutdown = FALSE

-----------------------------------------------------------------------------
(* The environment *)

EnvChange == changes < MaxChanges /\ changes' = changes + 1

WorldChanges ==
  /\ EnvChange
  /\ world' \in SUBSET Targets \ {world}
  /\ UNCHANGED <<down, clock, leader, remote>>

ReachabilityChanges ==
  /\ EnvChange
  /\ down' \in SUBSET Failing \ {down}
  /\ UNCHANGED <<world, clock, leader, remote>>

LeadershipChanges ==
  /\ Clustered
  /\ EnvChange
  /\ leader' = ~leader
  /\ UNCHANGED <<world, down, clock, remote>>

PeerPublishes ==
  /\ Clustered
  /\ EnvChange
  /\ remote' \in {v \in GossipValues : v.kind # "list" => v.targets = {}} \ {remote}
  /\ UNCHANGED <<world, down, clock, leader>>

ClockTicks ==
  /\ clock < MaxClock
  /\ clock' = clock + 1
  /\ UNCHANGED <<world, down, leader, remote, changes>>

Environment ==
  /\ \/ WorldChanges
     \/ ReachabilityChanges
     \/ LeadershipChanges
     \/ PeerPublishes
     \/ ClockTicks
  /\ UNCHANGED <<requests, pc, job, snapshot, reading, mets, lastManual,
                 gossip, serving, shutdown>>

-----------------------------------------------------------------------------
(* When a refresh starts *)

Goto(w, s) == pc' = [pc EXCEPT ![w] = s]
Release(w, s) == Goto(w, s) /\ job' = [job EXCEPT ![w] = NoJob]

(* The refresh loop looks at shutdown again at the end of an iteration;    *)
(* the faulty variant also leaves it after a failed refresh.               *)
AfterCycleOrFailure == IF shutdown \/ outcome = "failed" THEN "stopped" ELSE "idle"
AfterCycle == IF shutdown THEN "stopped" ELSE "idle"

(* main: only a node that stands alone or leads discovers at start-up; a   *)
(* follower spawns its tasks and binds the listener straight away.         *)
Boot ==
  /\ pc["bg"] = "boot"
  /\ IF MayRefresh THEN Goto("bg", "discover") /\ serving' = serving
                   ELSE Goto("bg", "idle") /\ serving' = TRUE
  /\ UNCHANGED <<env, requests, job, snapshot, reading, mets, lastManual,
                 gossip, shutdown>>

(* spawn_background_refresh: a tick on a follower changes nothing; on a    *)
(* leader it sleeps for the jittered delay before it refreshes.            *)
RefreshTick ==
  /\ pc["bg"] = "idle" /\ ~shutdown
  /\ MayRefresh
  /\ Goto("bg", "sleep")
  /\ UNCHANGED <<env, requests, job, snapshot, reading, mets, lastManual,
                 gossip, serving, shutdown>>

(* After the sleep only shutdown is looked at again, not leadership. *)
RefreshWakes ==
  /\ pc["bg"] = "sleep"
  /\ Goto("bg", IF shutdown THEN "stopped" ELSE "discover")
  /\ UNCHANGED <<env, requests, job, snapshot, reading, mets, lastManual,
                 gossip, serving, shutdown>>

(* spawn_follower_sync: a tick on the leader changes nothing. *)
SyncTick ==
  /\ Clustered /\ serving /\ ~shutdown
  /\ pc["fs"] = "idle"
  /\ ~leader
  /\ Goto("fs", "fetch")
  /\ UNCHANGED <<env, requests, job, snapshot, reading, mets, lastManual,
                 gossip, serving, shutdown>>

(* read_leader_cache takes the gossip lock again: by now this node may be  *)
(* the leader itself, and then it reads its own value.  The faulty         *)
(* variant always does.                                                    *)
OwnValue == published
LeaderValue == IF leader THEN published ELSE remote

SyncFetch ==
  /\ pc["fs"] = "fetch"
  /\ IF LeaderValue.kind = "list"
       THEN /\ Goto("fs", "replace")
            /\ job' = [job EXCEPT !["fs"] =
                         [NoJob EXCEPT !.ok = TRUE, !.found = LeaderValue.targets]]
       ELSE Goto("fs", "idle") /\ job' = job
  /\ UNCHANGED <<env, requests, snapshot, reading, mets, lastManual, gossip,
                 serving, shutdown>>

(* refresh_retry_after_seconds: saturating subtraction of the last request. *)
Elapsed(now) == IF now < lastManual THEN 0 ELSE now - lastManual

(* refresh_handler: an authorised request reads the clock and the last     *)
(* accepted time; a 429 changes nothing, an acceptance goes on to store.   *)
ManualCheck(h) ==
  /\ serving /\ ~shutdown
  /\ pc[h] = "idle"
  /\ requests < MaxRequests
  /\ Elapsed(clock) >= MinInterval
  /\ requests' = requests + 1
  /\ Goto(h, "stamp")
  /\ job' = [job EXCEPT ![h].at = clock]
  /\ UNCHANGED <<env, snapshot, reading, mets, lastManual, gossip, serving,
                 shutdown>>

ManualStamp(h) ==
  /\ pc[h] = "stamp"
  /\ lastManual' = job[h].at
  /\ Goto(h, "discover")
  /\ UNCHANGED <<env, requests, job, snapshot, reading, mets, gossip, serving,
                 shutdown>>

-----------------------------------------------------------------------------
(* Discovery: discover_all_clusters, one discover_cluster_targets a time *)

ClusterNow(w) == ClusterSeq[job[w].next]
TargetsOf(c) == {t \in Targets : ClusterOf[t] = c}

(* A pass over a cluster is a sequence of calls.  Each target's turn comes *)
(* once, in any order and at a moment of its own, so that a pass need not  *)
(* be what ran at any one time.  A target is taken over when it runs and   *)
(* no call of its own fails: a Fargate task without task definition or     *)
(* address, a task without instance, and one that has stopped are skipped  *)
(* with a warning, and the cluster's result is a success without them.     *)
DiscoverTarget(w, t) ==
  /\ pc[w] = "discover"
  /\ t \in TargetsOf(ClusterNow(w)) \ job[w].seen
  /\ ClusterNow(w) \notin down
  /\ job' = [job EXCEPT ![w].seen = @ \cup {t},
                        ![w].here = IF t \in world \ down THEN @ \cup {t} ELSE @]
  /\ UNCHANGED <<env, requests, pc, snapshot, reading, mets, lastManual, gossip,
                 serving, shutdown>>

(* Faulty variant: an error is taken for an empty cluster. *)
AnyResultSucceeds(ok, reachable) == TRUE

(* aggregate_cluster_results: one success among the clusters is enough. *)
SucceededSoFar(ok, reachable) == ok \/ reachable

(* What a cluster adds to the result: nothing when one of its calls failed *)
(* (faulty variant: what had been found in it until then).                 *)
PartlyFound(here, reachable) == here
Contribution(here, reachable) == IF reachable THEN here ELSE {}

(* The end of the pass: every target has had its turn, or a call of the    *)
(* cluster fails and what was found in it so far is dropped.  Then comes   *)
(* the next cluster in the configured order, after the last the            *)
(* aggregation.                                                            *)
DiscoverCluster(w) ==
  LET reachable == ClusterNow(w) \notin down
      ok == SucceededSoFar(job[w].ok, reachable)
      found == job[w].found \cup Contribution(job[w].here, reachable)
  IN /\ pc[w] = "discover"
     /\ reachable => job[w].seen = TargetsOf(ClusterNow(w))
     /\ job' = [job EXCEPT ![w] =
                  [next |-> job[w].next + 1, seen |-> {}, here |-> {}, ok |-> ok,
                   found |-> found, old |-> job[w].old, at |-> job[w].at]]
     /\ Goto(w, IF job[w].next < Len(ClusterSeq) THEN "discover"
                ELSE IF ok THEN "replace" ELSE "failed")
     /\ UNCHANGED <<env, requests, snapshot, reading, mets, lastManual, gossip,
                    serving, shutdown>>

(* All clusters failed: the refresh loop and start-up record the failure,  *)
(* a manual request answers 503 and records nothing.                       *)
DiscoveryFails(w) ==
  /\ pc[w] = "failed"
  /\ IF w = "bg"
       THEN Release(w, AfterCycle) /\ outcome' = "failed" /\ serving' = TRUE
       ELSE Release(w, "idle") /\ UNCHANGED <<outcome, serving>>
  /\ UNCHANGED <<env, requests, snapshot, reading, gauge, churn, started,
                 lastManual, gossip, shutdown>>

-----------------------------------------------------------------------------
(* replace_cache_and_record_metrics, and replace_cache_and_routing in it *)

ReadOld(w) ==
  /\ pc[w] = "replace"
  /\ job' = [job EXCEPT ![w].old = snapshot.targets]
  /\ Goto(w, "reset")
  /\ UNCHANGED <<env, requests, snapshot, reading, mets, lastManual, gossip,
                 serving, shutdown>>

ResetGauge(w) ==
  /\ pc[w] = "reset"
  /\ gauge' = [c \in Clusters |-> GaugeAfterReset(job[w].old, c)]
  /\ Goto(w, "record")
  /\ UNCHANGED <<env, requests, job, snapshot, reading, churn, started, outcome,
                 lastManual, gossip, serving, shutdown>>

(* The new counts are set before the guard decides; a refresh that passes  *)
(* it builds its snapshot, with the current time, before it asks for the   *)
(* write lock.                                                             *)
RecordGauge(w) ==
  /\ pc[w] = "record"
  /\ gauge' = [c \in Clusters |->
                 LET n == CountIn(job[w].found, c) IN IF n > 0 THEN n ELSE gauge[c]]
  /\ IF DiscardsAsChurn(job[w].old, job[w].found)
       THEN Goto(w, "startup") /\ job' = job
       ELSE Goto(w, "install") /\ job' = [job EXCEPT ![w].at = clock]
  /\ UNCHANGED <<env, requests, snapshot, reading, churn, started, outcome,
                 lastManual, gossip, serving, shutdown>>

(* snapshot.write() waits for the publisher, the one holder of the read    *)
(* lock that awaits while it holds it.                                     *)
WriteLockFree == ~reading

Install(w) ==
  /\ pc[w] = "install"
  /\ WriteLockFree
  /\ snapshot' = [targets |-> job[w].found, routes |-> RoutesOf(job[w].found),
                  lastRefresh |-> job[w].at]
  /\ Goto(w, "churn")
  /\ UNCHANGED <<env, requests, job, reading, mets, lastManual, gossip, serving,
                 shutdown>>

CountChurn(w) ==
  /\ pc[w] = "churn"
  /\ churn' = churn + NetChurn(job[w].old, job[w].found)
  /\ Goto(w, "startup")
  /\ UNCHANGED <<env, requests, job, snapshot, reading, gauge, started, outcome,
                 lastManual, gossip, serving, shutdown>>

(* record_startup_duration_once; a discarded refresh comes here too.  The  *)
(* manual request and the follower sync are then done.                     *)
RecordStartup(w) ==
  /\ pc[w] = "startup"
  /\ started' = TRUE
  /\ IF w = "bg" THEN Goto(w, "publish") /\ job' = job ELSE Release(w, "idle")
  /\ UNCHANGED <<env, requests, snapshot, reading, gauge, churn, outcome,
                 lastManual, gossip, serving, shutdown>>

-----------------------------------------------------------------------------
(* publish_cache_to_gossip, and the end of a background refresh *)

(* Faulty variant: the lock is not kept for the second publication. *)
NothingHeld == FALSE
HoldsAcrossPublish == ProxyMode

(* The snapshot in force is published, whoever installed it; in proxy mode *)
(* the read lock is kept until the routing table is published too.         *)
PublishCache ==
  /\ pc["bg"] = "publish"
  /\ IF ~Clustered
       THEN Goto("bg", "outcome") /\ UNCHANGED <<published, reading>>
       ELSE /\ published' = IF snapshot.lastRefresh = 0 THEN published
                            ELSE [kind |-> "list", targets |-> snapshot.targets]
            /\ reading' = HoldsAcrossPublish
            /\ Goto("bg", IF ProxyMode THEN "publishRoutes" ELSE "outcome")
  /\ UNCHANGED <<env, requests, job, snapshot, mets, lastManual, publishedRoutes,
                 serving, shutdown>>

(* Faulty variant: the read lock is never released. *)
KeptLock == TRUE
ReleasedLock == FALSE

PublishRoutes ==
  /\ pc["bg"] = "publishRoutes"
  /\ publishedRoutes' = snapshot.routes
  /\ reading' = ReleasedLock
  /\ Goto("bg", "outcome")
  /\ UNCHANGED <<env, requests, job, snapshot, mets, lastManual, published,
                 serving, shutdown>>

RecordSuccess ==
  /\ pc["bg"] = "outcome"
  /\ outcome' = "ok"
  /\ serving' = TRUE
  /\ Release("bg", AfterCycle)
  /\ UNCHANGED <<env, requests, snapshot, reading, gauge, churn, started,
                 lastManual, gossip, shutdown>>

-----------------------------------------------------------------------------
(* Cancellation and shutdown *)

(* A client that disconnects drops its request's future at the await where *)
(* it stands: in discovery or at one of the two lock acquisitions.         *)
ClientDisconnects(h) ==
  /\ pc[h] \in {"discover", "replace", "install"}
  /\ Release(h, "idle")
  /\ UNCHANGED <<env, requests, snapshot, reading, mets, lastManual, gossip,
                 serving, shutdown>>

(* shutdown_signal is installed when the server starts to serve. *)
Shutdown ==
  /\ MayShutdown /\ serving /\ ~shutdown
  /\ shutdown' = TRUE
  /\ UNCHANGED <<env, requests, pc, job, snapshot, reading, mets, lastManual,
                 gossip, serving>>

(* Both loops leave between two iterations once shutdown is signalled; in  *)
(* the faulty variant the follower sync is not told.                       *)
RefreshLoopOnly(w) == w = "bg"
IsLoop(w) == w = "fs" => Clustered

LoopStops(w) ==
  /\ shutdown
  /\ IsLoop(w)
  /\ pc[w] = "idle"
  /\ Goto(w, "stopped")
  /\ UNCHANGED <<env, requests, job, snapshot, reading, mets, lastManual, gossip,
                 serving, shutdown>>

-----------------------------------------------------------------------------
(* The steps every worker shares, then each worker. *)
Replace(w) ==
  \/ ReadOld(w) \/ ResetGauge(w) \/ RecordGauge(w)
  \/ Install(w) \/ CountChurn(w) \/ RecordStartup(w)

Discover(w) == (\E t \in Targets : DiscoverTarget(w, t)) \/ DiscoverCluster(w)
Refresh(w) == Discover(w) \/ DiscoveryFails(w) \/ Replace(w)

Background ==
  \/ Boot \/ RefreshTick \/ RefreshWakes
  \/ Refresh("bg")
  \/ PublishCache \/ PublishRoutes \/ RecordSuccess
  \/ LoopStops("bg")

FollowerSync == SyncTick \/ SyncFetch \/ Replace("fs") \/ LoopStops("fs")

Request(h) == ManualStamp(h) \/ Refresh(h)

Next ==
  \/ Environment \/ Shutdown
  \/ Background \/ FollowerSync
  \/ \E h \in Handlers : ManualCheck(h) \/ Request(h) \/ ClientDisconnects(h)

(* The runtime polls every task that can run; the write lock is granted in *)
(* the order of the requests for it, so a writer that waits gets it however *)
(* often the publisher comes back.  Nothing makes the environment act, a   *)
(* client send a request or shutdown arrive.                               *)
Fairness ==
  /\ WF_vars(Background) /\ WF_vars(FollowerSync)
  /\ SF_vars(Install("fs"))
  /\ \A h \in Handlers : WF_vars(Request(h)) /\ SF_vars(Install(h))

Spec == Init /\ [][Next]_vars
FairSpec == Spec /\ Fairness

-----------------------------------------------------------------------------
(* Properties *)

(* The types of the variables; the clock never passes its bound. *)
TypeOK ==
  /\ world \in SUBSET Targets /\ down \in SUBSET Failing
  /\ clock \in 1..MaxClock /\ leader \in BOOLEAN
  /\ remote \in GossipValues /\ changes \in 0..MaxChanges
  /\ requests \in 0..MaxRequests
  /\ pc \in [Workers -> PCs] /\ job \in [Workers -> Jobs]
  /\ snapshot \in [targets : SUBSET Targets, routes : SUBSET Targets,
                   lastRefresh : 0..MaxClock]
  /\ reading \in BOOLEAN
  /\ gauge \in [Clusters -> Nat] /\ churn \in Int
  /\ started \in BOOLEAN /\ outcome \in {"none", "ok", "failed"}
  /\ lastManual \in 0..MaxClock
  /\ published \in GossipValues /\ publishedRoutes \in SUBSET Targets
  /\ serving \in BOOLEAN /\ shutdown \in BOOLEAN

Populated == snapshot.lastRefresh > 0

(* No path announces a population that has not happened: the start-up      *)
(* duration, a successful last refresh and a gossiped cache all imply that *)
(* a snapshot was installed, although a refresh that the churn guard       *)
(* discards runs the same code after it (app_state.rs, main.rs).           *)
AnnouncedMeansPopulated ==
  started \/ outcome = "ok" \/ published.kind # "none" => Populated

(* Between two publications the gossiped routing table belongs to the      *)
(* gossiped cache, whatever other workers install while the publisher      *)
(* awaits between the two keys (publish_cache_to_gossip).                  *)
PublishedPairConsistent ==
  pc["bg"] # "publishRoutes" => publishedRoutes = RoutesOf(published.targets)

WithinDropLimit(old, new) ==
  \/ DropNum = 0
  \/ Addrs(old) = {}
  \/ Cardinality(Addrs(old) \ Addrs(new)) * DropDen
       <= Cardinality(Addrs(old)) * DropNum

(* One replacement of the cache never removes more than the configured     *)
(* fraction of its addresses (config.rs:143, CHURN-01).                    *)
ChurnBounded ==
  [][WithinDropLimit(snapshot.targets, snapshot'.targets)]_vars

(* When no replacement is half way, the per-cluster gauge shows the cache  *)
(* that is served (MET-10): clusters that vanished are zero again.         *)
GaugeMatchesCache ==
  (\A w \in Workers : pc[w] \notin {"record", "install"}) =>
    \A c \in Clusters : gauge[c] = CountIn(snapshot.targets, c)

(* When no replacement waits to be counted, the churn counters sum up to   *)
(* the addresses served (MET-11): nothing is counted twice or lost, and a  *)
(* discarded refresh is not counted.                                       *)
ChurnConserved ==
  (\A w \in Workers : pc[w] # "churn") =>
    churn = Cardinality(Addrs(snapshot.targets))

(* One target of each cluster that runs, and whose own calls succeed,      *)
(* beside a leader that publishes no empty cache.                          *)
Representatives ==
  {s \in [Clusters -> Targets] : \A c \in Clusters : ClusterOf[s[c]] = c}
Steady(s) ==
  /\ \A c \in Clusters : s[c] \in world \ down
  /\ remote.kind = "list" => remote.targets # {}

(* An outage does not wipe the cache (QUAL-02): as long as one and the     *)
(* same target of each cluster keeps running and answering for itself, no  *)
(* refresh installs an empty cache, whichever clusters fail before, during *)
(* or after their pass, whatever other targets come, go or drop out        *)
(* between two calls, and however refreshes overlap.                       *)
OutageNeverEmpties ==
  \A s \in Representatives : []Steady(s) => [](Populated => snapshot.targets # {})

(* Two accepted manual refreshes are at least the configured interval      *)
(* apart (config.rs:127, the rate limit of POST /sd/refresh).              *)
ManualRefreshesSpaced ==
  [][\A h \in Handlers : pc[h] = "stamp" /\ pc'[h] # "stamp" =>
       job[h].at - lastManual >= MinInterval]_vars

(* A node that keeps refreshing from a reachable AWS ends with the world   *)
(* in its cache, unless the churn guard holds on to the old one for ever.  *)
ConvergesUnlessGuarded ==
  <>[](MayRefresh /\ ~shutdown /\ down = {}) =>
    <>[](snapshot.targets = world \/ ~WithinDropLimit(snapshot.targets, world))

(* A follower ends with the cache its leader has published, on the same    *)
(* condition.                                                              *)
FollowerConverges ==
  <>[](Clustered /\ ~leader /\ ~shutdown /\ remote.kind = "list") =>
    <>[](\/ snapshot.targets = remote.targets
         \/ ~WithinDropLimit(snapshot.targets, remote.targets))

(* Every refresh ends: no worker waits for ever for the snapshot's lock.   *)
RefreshCompletes ==
  \A w \in Workers : pc[w] \in Busy ~> pc[w] \in {"idle", "stopped"}

(* After the signal the background tasks end, so that main's joins return. *)
ShutdownCompletes ==
  shutdown ~> (pc["bg"] = "stopped" /\ (Clustered => pc["fs"] = "stopped"))

-----------------------------------------------------------------------------
(* Inductive invariants *)

(* Whatever a worker has yet to announce is already populated: a worker    *)
(* reaches the announcements through its own installation, or because the  *)
(* guard compared the discovery with a cache that was not empty.           *)
PopulationInv ==
  /\ AnnouncedMeansPopulated
  /\ snapshot.targets # {} => Populated
  /\ \A w \in Workers :
       /\ pc[w] \in {"churn", "startup", "publish", "publishRoutes", "outcome"} => Populated
       /\ pc[w] \in {"reset", "record"} /\ job[w].old # {} => Populated
       /\ pc[w] = "install" => job[w].at > 0

(* The lock is held exactly between the two publications, so the snapshot  *)
(* that the second one reads is the one the first one published.           *)
PublicationInv ==
  /\ PublishedPairConsistent
  /\ snapshot.routes = RoutesOf(snapshot.targets)
  /\ reading <=> pc["bg"] = "publishRoutes"
  /\ pc["bg"] = "publishRoutes" => published.targets = snapshot.targets

(* One refresher only: a standalone node without manual requests. *)
Solo == Handlers = {} /\ ~Clustered

(* With one refresher the cache that the guard and the metrics compared    *)
(* with is the cache that the refresh replaces.                            *)
SoloInv ==
  /\ pc["fs"] = "idle"
  /\ pc["bg"] \in {"reset", "record", "install"} => job["bg"].old = snapshot.targets
  /\ pc["bg"] = "install" => ~DiscardsAsChurn(job["bg"].old, job["bg"].found)
  /\ IF pc["bg"] = "churn"
       THEN job["bg"].found = snapshot.targets /\ churn = Cardinality(Addrs(job["bg"].old))
       ELSE churn = Cardinality(Addrs(snapshot.targets))

(* With the guard off too, the gauge is the cache's, is cleared, or is the *)
(* discovery's that is about to be installed.                              *)
SoloGaugeInv ==
  \A c \in Clusters :
    gauge[c] = CASE pc["bg"] = "record" -> 0
                 [] pc["bg"] = "install" -> CountIn(job["bg"].found, c)
                 [] OTHER -> CountIn(snapshot.targets, c)

=============================================================================
