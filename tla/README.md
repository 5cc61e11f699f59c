# ecs-sd in TLA+

ecs-sd discovers the containers of AWS ECS clusters, keeps them in memory and
serves them to Prometheus (`GET /sd`), optionally as a reverse proxy, and
optionally as a cluster of nodes that gossip.  This directory holds its
formal model: TLA+ modules translated from the Rust source under `src/`, TLC
configurations, and theorems checked by TLAPS.  Paths below are relative to
the repository.

## The system

| Component | Source | State | Operations |
|---|---|---|---|
| Cache and refresh workers | `src/state/app_state.rs`, `src/main.rs`, `src/handlers/sd.rs` | snapshot (targets per level, routing table, last refresh), last outcome, rate limit, counters and gauges | start-up discovery, background refresh, manual refresh, follower sync, shutdown |
| Gossip cluster | `src/cluster/mod.rs`, `src/main.rs` | per node: live nodes, versioned key/value state of every node (chitchat, external) | elect, publish, read the leader's cache |
| AWS discovery | `src/aws/discovery.rs` | none between passes; per pass: caches of task definitions, container instances, EC2 instances | one pass per configured cluster, aggregation |
| Queries | `src/handlers/sd.rs`, `src/models/` | reads the snapshot | labels per level, routing table, filters, cache age |
| Health probes | `src/handlers/health.rs` | reads snapshot, outcome and gossip | `/health`, `/health/live`, `/health/ready` |
| Proxy | `src/handlers/proxy.rs` | reads the routing table | `/proxy/{id}/{path}` |
| Process lifecycle and timer | `src/main.rs` | the two tasks, two listeners, the shutdown channel, the gossip handle, the interval | start, serve, drain, join, leave; tick, sleep, refresh |
| Configuration | `src/config.rs` | static | parse, validate, normalise |
| Metrics registry, routes, OpenAPI, SDK clients | `src/metrics/`, `src/routes/`, `src/openapi.rs`, `src/aws/client.rs` | static, or counters | encoding |

Interaction: all workers share one `AppState`.  The snapshot is behind a tokio
`RwLock`, the outcome behind another, the rate limit and the start-up flag are
atomics, and chitchat is behind its own mutex.  `main` runs the start-up
discovery, then spawns the refresh loop and the follower sync, binds the
listener, and after SIGTERM joins both tasks.  A leader publishes its snapshot
under `ecs_sd.cache.v1` (and `ecs_sd.routing.v1`, which nothing reads);
followers poll the leader's key every five seconds.

What is hard here: several workers replace one snapshot, each in some ten
steps with awaits between them; the churn guard and the metrics compare with a
cache read earlier; leadership may change at any of these steps; AWS changes
and fails between any two calls of a pass; processes restart with an empty
gossip state under their old name; and label names carry meaning that two
tables have to agree on.  `PROJECT.json` lists every such hazard at its line.

What makes the components correct, in short:

- *Cache*: one replacement never drops more than configured; an outage that
  spares one target in each cluster never empties the cache; nothing is
  announced that was not populated; gauges and counters agree with what is
  served; every refresh ends; the cache converges.
- *Cluster*: one leader in the end, replicas never ahead of their owner, all
  nodes converge after failover.
- *Discovery*: whatever runs throughout a pass is found, nothing else is, and
  the pass ends.
- *Queries*: the answer is the set the request asks for, as far as the level
  can tell; higher levels extend lower ones; a proxy answers with the same
  containers, each reachable by a route of its own.
- *Health*: every probe is answered; a healthy member has published; such an
  outage takes no populated node out of rotation either; the status follows
  AWS.
- *Proxy*: a scrape reaches the container it names; routes are those of the
  last refresh.
- *Lifecycle*: the age of a leader's cache and the delay of a takeover are
  bounded; a signalled process ends in time and leaves the cluster.

## Modules

`CacheNode` models one process.  The workers are `"bg"` (the start-up
discovery, then the refresh loop), `"fs"` (the follower sync) and any number
of `Handlers` (requests to `POST /sd/refresh`).  `pc[w]` says where worker `w`
stands and `job[w]` holds its locals; every await, lock acquisition and atomic
separates two actions.  A refresh goes `discover` (cluster by cluster),
`replace` (`ReadOld`: the old cache under the read lock), `reset` and `record`
(the gauges, then the guard), `install` (the write lock), `churn`, `startup`,
and for `"bg"` `publish`, `publishRoutes`, `outcome`.  A discarded refresh
skips `install` and `churn` and still runs the rest, as the code does.
`reading` is the read lock that `publish_cache_to_gossip` keeps across its two
awaits; the other lock holders do not await, so their critical sections are
single actions.  AWS (`world`, `down`), gossip (`leader`, `remote`) and the
clock are the environment.

A pass over a cluster is no single step there either, and it may succeed with
targets missing.  `Discovery` has the calls one by one; `CacheNode` keeps of
them what decides on the result.  Each target of the cluster has one turn
(`DiscoverTarget`), in any order, while the world goes on changing between the
turns.  A target is taken over when it runs and no call of its own fails.
`down` holds clusters and targets: a cluster whose shared calls fail is an
error and loses what was found in it (`DiscoverCluster`), a target whose own
calls fail is left out of an answer that counts as a success.  The latter is a
Fargate task without definition (`discovery.rs:342-348`) or address
(`:387-392`), a container whose instance cannot be resolved (`:524-528`), or a
task that has stopped (`:399-403`).  So a cluster may answer `Ok([])` although
it runs something, and if every cluster does, the code installs an empty cache
and `/health/ready` turns 503.  `OutageNeverEmpties` and `OutageKeepsAvailable`
therefore ask for one target in each cluster that keeps running and whose own
calls work; everything else may fail at any moment.  What one pass promises
with the calls in full is shown of `Discovery` (`FoundWhatStayed`,
`NothingInvented`).

`GossipCluster` composes several processes with the gossip between them: an
instance is a node_id with a generation, `view` is chitchat's `live_nodes`,
`kv[n][i]` the versioned value node `n` holds of instance `i`.  A process may
crash and come back with a new generation and nothing else; the failure
detector may be late, or wrong a bounded number of times.  The refresh is that
of `CacheNode` reduced to discover, install, publish.  The follower sync takes
the gossip lock twice and the snapshot's lock once, and so has three steps:
`SyncTick` asks whether somebody else leads, `SyncRead` looks for the leader
again (by then it may be this node), `SyncInstall` replaces the snapshot.

`ReplicatedCache` is the abstract specification of such a cluster.  Every start
of a node has a log of what it publishes; a node discovers, serves, and then
publishes what it serves; it sees a beginning of every log, which only grows
while it runs, and may copy the last entry it has seen of a node with no
greater id.  There are no views, elections, relays or timing in it.
`GossipClusterRefinement` maps `GossipCluster` to it.  The logs are nowhere in
the cluster, where a version overwrites its predecessor, so a history variable
records them: what a node writes to its own part of the gossip state is
appended.  When a node stops, both specifications cut the logs down to what
some other node has seen, since nobody can ever tell what was in the rest.

`Discovery` models one pass of `discover_cluster_targets`, one action for each
AWS call or for the work between two calls, while tasks start and stop and EC2
instances are terminated.  A listing returns pages of whatever is live when
each page is asked for.  `failures` counts answers that are errors or leave
something out.  `excused` records the targets given up with a warning.  The
model picks services, tasks and containers in any order and uses one bound,
`Page`, for the page and chunk sizes 10 and 100.  The two calls of
`resolve_ec2_instance` are one action: nothing that the first one reads
changes.

`SdQuery` goes from discovered containers to answers.  A label name is the
sequence of its words, so that the prefixes which decide on a label's level
remain visible; values are told apart only where a filter or a route looks at
them.  The handler takes one lock, and a request is one action.

What a request asks for (`Wanted`) is said of containers and their tags and
not of labels.  A filter compares with a label of the level that is served,
and so it can only be met where that level shows the label: `TellingLevels`
lists those levels, field by field, in a table apart from the two of the code
(`LevelOf`, `Included`).  Tags are asked for with the word that says where a
tag comes from (`tag_task_env`), as `docs/api.md:176` has it; the shorter form
of `:63` is what `doc_filters` is about.

`TargetService` is the abstract specification of one node: refreshers draw up
drafts; a draft asks every cluster once, in which it looks at every target
once and takes over those it finds without trouble, or copies a gossiped list;
nothing is kept of a cluster that fails; and the served list is only replaced
as a whole by a finished draft that some cluster has answered.
`CacheNodeRefinement` maps `CacheNode` to it: a worker between `discover` and
`install` has a draft (what its `job` has looked at and found so far), the
guard's rejection, a failure and a disconnected client give it up, and every
metric, outcome, lock and schedule is a stutter.

`HealthProbe` puts a prober beside the workers of `CacheNode`.  `/health` is
two steps (snapshot, then outcome), `/health/ready` one; a read queues behind
a writer that waits for the publisher.

`RefreshTimer` is the refresh loop against a clock.  Time passes in units
(`TimePasses`) and only when nothing can run.  Because the interval skips
missed ticks, its deadlines are multiples of the period after the loop was
spawned; `due` and `grid` are all that matters of it.  `tenure`, `begun`,
`own`, `age` and `since` are histories for the properties.

`Configuration` is `try_from_args` as operators on a record of arguments
(lists are kept as the sets of their entries): `Accepts` for its error
returns, `ConfigOf` for the result, `Sound` for what the other modules
assume.  `Process` composes it and `RefreshTimer` into the life of one
process; `phase` says how far `main` has come.  `Holders` is who else has a
clone of the `Arc` that `main` unwraps to leave the cluster.

`ProxyRoute` adds to `SdQuery` a world that moves (`running`) and scrapes
through the routing table.  It has no durations: a timeout is a failure that
may come whenever the http client looks at it, while the head of the answer is
awaited (`SendFails`) or when the body is read on (`BodyEnds`).  The timeout of
a streamed body is looked at only then (`proxy.rs:154`, `:189`), so that a
client which stops reading keeps its scrape open for longer, and nothing is
claimed of how long a scrape may take.

`MCCacheNode`, `MCHealthProbe`, `MCGossipCluster`, `MCDiscovery`, `MCSdQuery`,
`MCProxyRoute`, `MCProcess` give the constants values for TLC.
`CacheNodeProofs`, `CacheNodeRefinementProofs`, `HealthProbeProofs`,
`GossipClusterProofs`, `DiscoveryProofs`, `SdQueryProofs`, `ProxyRouteProofs`
and `ProcessProofs` hold the theorems.  Some definitions come in pairs, a
commented faulty variant beside the one in use; the variants are the mutants
that show that a property can fail.

## Runs

| Run | Shows |
|---|---|
| `cache_solo` | one refresh loop, guard at 1/2, two clusters, two targets on one address: drop limit and churn counters hold, the cache converges unless the guard holds on for good, the health status follows AWS |
| `cache_member` | all workers of a proxy-mode member, two clusters, the guard, a manual request beside the loop, clusters and a target's own calls failing, a shutdown: announcements imply a population, the gossiped pair is consistent, the node implements `TargetService`, no outage that spares a target per cluster empties the cache, it converges whoever installs last, every refresh ends although the publisher awaits with a lock held, and both tasks end after the shutdown signal |
| `cache_follower` | leadership comes and goes, with a prober of `/health` and `/health/ready`: a follower ends with its leader's value, guard permitting, every probe is answered, a member that says healthy has published, and an available node stays so through outages that spare one target |
| `gossip_failover` | two nodes that crash and come back, or are suspected wrongly and fail to discover, while the world changes: type, replicas, one leader, convergence, and that the cluster implements `ReplicatedCache` |
| `discovery` | four tasks (two EC2 tasks with one definition, one without a container instance, one on Fargate), one item per page, two changes, one failure: complete, sound, definitions fetched once, terminating |
| `sd` | all deployments of five containers, all levels, 432 requests, both modes: the answer is what the request asks for at a level that can tell, directly and through routes; and scrapes while containers move: they reach what they name |
| `process` | 2427 command lines, then one process against a clock: accepted configurations are sound, cache age and takeover delay are bounded, the exit is in time and orderly |
| `doc_filters` | violated: `cluster=prod&tag_team=obs&filter_mode=or`, as in `README.md:234`, leaves out a container that has both, because neither filter finds its label at the default level |
| `doc_rate_limit` | violated: two manual refreshes are accepted in one second, the check and the store of the time being two steps |
| `doc_drop_ratio` | violated: with two refreshes under way one replacement drops more than the limit |
| `doc_boot_leader` | violated: a starting node has heard of nobody and takes itself for the leader |
| `doc_failover_delay` | violated: thirty seconds after it took over, a new leader has not begun a discovery |

The `doc_*` runs check what a comment or a document says and find a behaviour
of the code that differs; `PROJECT.json` quotes the line under `findings`.
More differences were met while modelling and have no run:

- The per-cluster gauge is written before the churn guard decides
  (`app_state.rs:229`), so that a discarded refresh leaves its counts beside
  the old cache.  `GaugeMatchesCache` fails then; it is proved for a node with
  one refresher and no guard.
- The service level lacks `__meta_ecs_desired_count` (`docs/api.md:419`):
  `filter_labels_by_level` takes it for an AWS label.
- When the own calls of every task fail, as in a `DescribeTaskDefinition`
  outage with Fargate tasks only, the clusters answer `Ok` with nothing and the
  cache is emptied, where a failure of the clusters' calls keeps it.
- A Fargate task that DescribeTasks reports as stopped still becomes a target
  (`discovery.rs:316`); an EC2 task does not.
- `build_routing_table` does not exclude ecs-sd itself, as
  `docs/proxy-mode.md` (Self-Exclusion) says.
- An IPv6 public address is accepted although the error text asks for a
  domain name: `host_str` keeps the brackets, and the address then parses as
  no `IpAddr` (`config.rs:374`).
- `NaN` passes the range check of the drop ratio (`config.rs:289`).
- A follower stamps a copied cache with its own time, so that its age hides
  how old the leader's discovery is.

### Bounds

Two or three targets in one or two clusters are enough for a cluster that
shrinks, vanishes and comes back, and for two targets that share an address.
Two or three environment changes, where the run affords them, let the world
change before, during and after a refresh.  One manual request overlaps the
background refresh; two overlap each other in `doc_rate_limit`.  With a
handler or leadership in play the state space grows manyfold with each change,
so that `cache_member` has one change and one target in each cluster, and
`cache_follower` two changes and two targets in one cluster; the safety
properties of both are proved.  Of the targets only `t1` has own calls that
fail in these runs (`SomeCalls`, `FirstCalls`), which leaves the others to be
the spared ones; in the `doc_*` runs any call may fail (`AnyCall`).  Two nodes
with two starts each give every kind of failover; three exceed TLC here, and
the safety properties are proved for any number. `MixFaults = FALSE` keeps
crashes apart from suspicions and failing discoveries within one behaviour.
With all three steps of the follower sync this run has 834,030 distinct
states, the most of any run.  The clock matters for the rate limit and the age
only. In `process` a unit is six seconds: a period of 10, a jitter of 1,
discoveries of up to 4 and requests of up to 12 units; `AgeBounded` and
`TakeoverBounded` fail if their bounds are lowered by one.  `AgeBounded` is
about refreshes that install: one that the churn guard discards counts as
failed there, and `ExitBounded` about clients that read what they asked for
within `MaxRequest`.  The command lines have values at and beside every limit,
in all combinations where the checks are independent.  In `sd` scrapes happen
one at a time, since they share nothing but counters, and at one value of the
clock, which does not matter to them; requests for targets are taken when no
scrape is under way, because they change nothing. `Page = 1` makes every
listing longer than a page.  Runs without `CHECK_DEADLOCK FALSE` check for
deadlock; the others may stop for good: a process that was shut down, a
cluster at rest, a finished pass.

### Fairness

tokio polls every ready task, so each worker's steps are weakly fair; a step
that waits for the snapshot's write lock is strongly fair, because tokio's
`RwLock` serves its waiters in order and a writer keeps later readers out.
AWS calls return (SDK timeouts), but none is assumed to fail or to succeed
beyond what the premise of a property says.  No fairness is asked of scrapes:
of them only safety is claimed.  chitchat gossips every second, and its
failure detector reports a silent node in the end: while there is anything to
hear in the cluster, somebody hears some of it in the end.  That is one weak
fairness condition for the network as a whole, not one for each node or
message.  The handler of a probe is treated alike: strongly fair where it
waits for the lock. `Process` needs no fairness: time passes only when no task
can run, and a bound on time stands where liveness would.  Nothing makes the
world change, a client call, a process crash or shutdown arrive.

## Proofs

All for every value of the constants that meets the assumption of their module
(`ConstantsAssumption`, `EndpointsAssumption`, `TimesAssumption`,
`ProcessAssumption`, `ArgumentsAssumption`): sets of containers, tasks and
nodes are finite, requests and arguments have the shape their parsers give
them, and the timer's jitter is no longer than its period.

`CacheNodeProofs`:

- `TypeCorrect`: `TypeOK` is inductive; one step per action.
- `AnnouncementsSound`: `PopulationInv` adds to `AnnouncedMeansPopulated` that
  a worker past the decision has a populated cache: it installed it itself,
  or the guard fired, which it does only on a cache that was not empty.
  Without the clause on `job[w].old` the step in which the guard discards
  would not be provable.
- `PublishedPairSound`: `PublicationInv` adds that the lock is held exactly
  between the two publications, and that the snapshot is then the published
  one.
- `SoloChurnBounded`, `SoloChurnConserved`, `SoloGaugeMatches`: under `Solo`
  (no manual requests, no gossip) `SoloInv` says that the cache compared with
  is the cache replaced; `SoloGaugeMatches` also needs the guard to be off.
  `doc_drop_ratio` shows that the first one needs its hypothesis.

`CacheNodeRefinementProofs`:

- `Implementation`: `CacheNode` implements `TargetService`.  `DraftInv` says
  what a worker's draft is at each control point: blank before it starts, with
  the next cluster to ask, and the targets of it looked at so far, while it
  discovers, with every cluster asked when it has failed, and with an answer
  besides from `replace` to `install`.  Without the last part `Install` would
  not be known to install a finished draft.  A step that starts a discovery is
  `Begin`, a target's turn is `Looks`, the end of a pass over a cluster is
  `Answers` or `CannotAnswer`, `SyncFetch` is `Copy`, `Install` is `Replace`,
  a failure, a discard and a disconnected client are `GiveUp`, the first half
  of a publication is `Publish`; everything else is shown to be a stutter.

`GossipClusterProofs`:

- `TypeCorrect`.  `TypeOK` needs `HasStarted` beside it: a sync that was asked
  for may read the node's own part of the gossip state, which exists only
  because a node that asks has been started.
- `ReplicasSound`: `ReplicationInv` adds that a generation that is yet to
  start is unknown everywhere, only started processes publish, and version 0
  is no value.
- `ClusterImplementsReplicatedCache`: `LogInv` says that every replica is a
  beginning of its instance's log and that some replica is all of it; without
  the second half a node that publishes could not be shown to have seen all
  that is left of its own log.  `AtRest` says that a process that does not run
  holds nothing and that a finding is kept until it is installed and no
  longer. With `ReplicationInv`, which leaves a new generation with an empty
  log, they are inductive.  `Start` is `Starts`, `Crash` is `Stops`,
  `Discover`, `Install` and `Publish` are `Discovers`, `Serves` and
  `Publishes`, `Gossip` is `Sees`, `SyncRead` is `Copies` unless there is
  nothing to read, `SyncInstall` is `ServesCopy`; views, suspicions, failures,
  elections and ticks are stutters.  `GreatestSeen`, that what the nodes have
  seen of a log has a maximum, is obtained from the order of the naturals
  being well-founded.

`HealthProbeProofs`:

- `OutageKeepsTargets`, `OutageKeepsInRotation`, on any node, alone or in a
  cluster: that a populated cache never becomes empty is not inductive,
  because an empty list might come from a discovery under way.  `OutageInv(s)`
  says, for a choice `s` of a spared target per cluster, that a pass which has
  looked at the spared target of its cluster holds it (`Holds`), that an
  attempt which has had an answer has therefore found something, and that what
  was published is not empty; `ProbeInv` says what a probe holds between the
  two reads of `/health`.
- `HealthyMemberSound`: `MemberInv` orders a member's success after its
  publication.  It builds on the invariants of `CacheNodeProofs`.

`DiscoveryProofs`:

- `NothingForgotten`: a promise about the end of a pass, whose invariant
  (`NoneForgotten`) accounts for each task that has run all the time at every
  moment of it: its service is still to be listed, it is in a chunk or under
  examination, or what it is owed has been built or given up with a warning.
- `TargetsAreOwed`, `OneCallPerDefinition`, `TypeCorrect`: the caches hold
  what AWS answers for the key they are asked with, and what is still to be
  asked for is in no cache yet.

`SdQueryProofs`:

- `LevelsAgree`: `CacheInv` says that the snapshot is what `BuildSnapshot`
  makes of the last discovery, at every level.
- `AnswersMeetRequests`: `PassesWhatIsWanted` shows the filter, which sees
  labels of a level only, to decide what `Wanted` says of the container, for
  any list of tag filters.  `LevelsTell` shows `TellingLevels` to be the
  levels at which the filter's own table lets a label through, `TagValues`
  that a tag's label holds that tag's value and no other's, `FixedAreNoTags`
  that no fixed label is taken for a tag.  It rests on `TagGroupsMeaning`,
  what the fold over the filters computes for every sequence.  The library's
  induction theorems cannot be used here; the lemma takes a smallest set of
  indices on which fold and closed form differ, and the fold's recursive
  definition is shown to have the closed form as a solution.
  `CanonicalLabels` is why the legacy labels never decide.
- `TypeCorrect`: no age is negative, whichever way the clock moves.

`ProxyRouteProofs`, about scrapes and requests together:

- `ScrapesReach`, `RoutesAreCurrent`: `RoutesInv` (the routes are those of
  the last refresh), `WorldInv` (no two containers share an identity or an
  address) and `ScrapeInv` (a scrape that is being sent has the address where
  the refresh before its lookup found the container it wants) are needed
  together.
- `ProxyAnswers`: entries and selected containers are in bijection, because
  the route shown in an entry identifies its container, and none of the labels
  that the proxy puts in is one that a filter reads.
- `AnswersBesideScrapes`: `QueriesBeside` shows that to a request for targets
  scrapes and moving containers are not there.

`ProcessProofs`, about the timer as part of a process:

- `LeaderStaysFresh`, `TakeoverInTime`, `ShutdownInTime`: how old the cache
  may get depends on how far the loop has come.  `Waiting`, `Sleeping` and
  `Discovering` say, for each place where it can stand, what a history adds up
  to with the time still to pass there; `Phases` says where `main` can stand
  meanwhile, and `Draining` bounds its wait for requests.
- `OrderlyLeave`: the order of the joins leaves only the metrics server as a
  holder of the state.
- `ConfigurationSound`: each conjunct of `Sound` from the checks of `Accepts`
  it rests on (`PublicAddressSound`, `AcceptedIsSound`), for any set of
  command lines.
- `TypeCorrect`.

The inductive invariants were checked by TLC first.  Model-checked only:

- liveness and everything under fairness (`OneLeader`, `AllConverge`,
  `ConvergesUnlessGuarded`, `FollowerConverges`, `HealthTracksAws`,
  `ProbeAnswered`, `RefreshCompletes`, `ShutdownCompletes`, `PassEnds`), which
  the prover does not reach;
- `ChurnBounded` and `ChurnConserved` on a node with two refreshers: the
  first is false there (`doc_drop_ratio`), and the theorems assume `Solo`;
- the `doc_*` runs, which are counterexamples.

## Not modelled, and why

`CacheNode` and `GossipCluster` are untimed: a tick may come at any time,
which includes what the real timers do; `RefreshTimer` has the durations.  A
request to `/health/live` reads nothing, and the bodies of the health answers
decide on nothing.  Of a scrape the forwarded headers, the query string,
malformed ids and the length of the timeout that its header asks for are left
out: each is one filter or one early return.  HTTP
routing, OpenAPI, the HTTP metrics middleware and SDK construction have no
state worth a model.  Of chitchat only what `src/` uses of it is modelled, and
it is marked external; that peers are reached at all (`0.0.0.0` is what a node
advertises) is assumed.  Lists are sets, so a cluster that is configured twice
is not told from one configured once.  Tag keys that collide after sanitising
are excluded by an assumption: the code's outcome then depends on a HashMap's
order.

## Plan

Done: all components with state; an abstract specification of one node and one
of a cluster of nodes, each with a proof that it is implemented; every safety
property that a passing run checks proved for every value of the constants,
`ChurnBounded` and `ChurnConserved` for one refresher. What would come next
are durations in `GossipCluster`, so that a failover has a bound there and not
only in `RefreshTimer`, and the order of lists, on which only duplicate
clusters depend.
