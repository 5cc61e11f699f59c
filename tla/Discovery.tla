------------------------------ MODULE Discovery ------------------------------
(***************************************************************************)
(* DiscoveryService::discover_cluster_targets: one pass over one ECS       *)
(* cluster.  The pass is one sequential task, but every AWS call is an     *)
(* await: tasks start and stop and instances go away between any two of    *)
(* them, and any of them may fail.  One action is one call, or the work    *)
(* between two calls.                                                      *)
(*                                                                         *)
(* AWS is external.  A listing is not a snapshot: a page holds some of     *)
(* what is live when it is asked for and was not on an earlier page.       *)
(* Which pages and chunks AWS's order makes is left open: pages, chunks,   *)
(* services, tasks and containers are taken in any order.                  *)
(***************************************************************************)
EXTENDS Integers, FiniteSets, FiniteSetsExt

CONSTANTS
  Services, Tasks, TaskDefs, Instances, Machines,
  ServiceOf,     \* the service of each task
  LaunchOf,      \* its launch type
  DefOf,         \* its task definition
  InstanceOf,    \* its container instance, Nowhere if it has none
  HasEni,        \* the tasks with a private address of their own
  MachineOf,     \* the EC2 instance of each container instance
  NetworkOf,     \* the network mode of each task definition
  ContainersOf,  \* its containers: [name, scrape, port]
  HostPorts,     \* the bindings [task, name, port, host] of running tasks
  Nowhere, NoPort,
  Unknown,       \* the empty container_instance_arn
  ProxyMode,     \* Mode::Proxy, the mode in which Fargate is supported
  Page,          \* bound: what one page or one chunk holds
  MaxChanges,    \* bound: changes of the world during the pass
  MaxFailures    \* bound: AWS calls that fail

ASSUME ConstantsAssumption ==
  /\ IsFiniteSet(Services) /\ IsFiniteSet(Tasks) /\ IsFiniteSet(TaskDefs)
  /\ IsFiniteSet(Instances) /\ IsFiniteSet(Machines)
  /\ ServiceOf \in [Tasks -> Services] /\ DefOf \in [Tasks -> TaskDefs]
  /\ LaunchOf \in [Tasks -> {"EC2", "FARGATE", "EXTERNAL"}]
  /\ {Nowhere, Unknown} \cap (Instances \cup Machines) = {} /\ Nowhere # Unknown
  /\ InstanceOf \in [Tasks -> Instances \cup {Nowhere}]
  /\ MachineOf \in [Instances -> Machines]
  /\ NetworkOf \in [TaskDefs -> {"awsvpc", "bridge", "host"}]
  /\ HasEni \subseteq Tasks /\ ProxyMode \in BOOLEAN
  /\ Page \in Nat \ {0} /\ MaxChanges \in Nat /\ MaxFailures \in Nat

VARIABLES
  \* the world
  running, \* the tasks that run
  started, \* the tasks that have run during the pass: a task never restarts
  steady,  \* the tasks that have run for all of it
  lost,    \* the EC2 instances that have been terminated
  changes, failures,
  \* the locals of the pass
  pc,
  cursor,       \* next_token: what the earlier pages of a listing held
  serviceArns,  \* services listed and not yet described
  services,     \* services described and not yet visited
  service,      \* the one being visited
  taskArns,     \* tasks of the current one, listed and not yet described
  tasks,        \* tasks of the current chunk, described and not yet examined
  reported,     \* the last_status DescribeTasks gave of each task
  missing,      \* what the populate functions still have to ask for
  task, containers, \* the task examined, and its containers yet to examine
  taskDefs,     \* task_definition_cache
  known,        \* container_instance_to_ec2_id_cache
  info,         \* ec2_instance_cache: the container_instance_arn it stores
  targets,
  \* of no influence on the pass
  defCalls,     \* aws_api_calls_total{operation="describe_task_definition"}
  excused       \* targets given up with a warning, after a failed lookup

world == <<running, started, steady, lost, changes>>
listing == <<cursor, serviceArns, services, service, taskArns>>
chunk == <<tasks, reported, missing>>
examined == <<task, containers>>
caches == <<taskDefs, known, info>>
result == <<targets, excused>>
vars == <<world, failures, pc, listing, chunk, examined, caches, result,
          defCalls>>

-----------------------------------------------------------------------------
(* The targets of a task.                                                  *)

\* Containers with prometheus.io/scrape=true and a valid prometheus.io/port.
Scraped(d) == {c \in ContainersOf[d] : c.scrape /\ c.port # NoPort}

\* bridge_host_port, bridge_target_port: the port a container is reached at.
BindingsOf(t, c) ==
  {b \in HostPorts : b.task = t /\ b.name = c.name /\ b.port = c.port}
TargetPort(t, c) ==
  IF NetworkOf[DefOf[t]] = "bridge" /\ BindingsOf(t, c) # {}
  THEN (CHOOSE b \in BindingsOf(t, c) : TRUE).host
  ELSE c.port

Eni(t) == <<"eni", t>>
OwnAddress(t) == LaunchOf[t] = "FARGATE" \/ NetworkOf[DefOf[t]] = "awsvpc"
Reachable(t) == OwnAddress(t) => t \in HasEni

\* instance: the container_instance_arn that the labels carry.
TargetOf(t, c, instance, machine) ==
  [task |-> t, container |-> c.name,
   address |-> IF OwnAddress(t) THEN Eni(t) ELSE <<"host", machine>>,
   port |-> IF LaunchOf[t] = "EC2" THEN TargetPort(t, c) ELSE c.port,
   instance |-> instance, machine |-> machine]

\* Which tasks the mode supports at all.
Supported(t) == \/ LaunchOf[t] = "EC2" /\ InstanceOf[t] # Nowhere
                \/ LaunchOf[t] = "FARGATE" /\ ProxyMode

\* What a pass owes a running task.
Promised(t) ==
  IF ~Supported(t) \/ ~Reachable(t) THEN {}
  ELSE LET machine == IF LaunchOf[t] = "EC2" THEN MachineOf[InstanceOf[t]]
                      ELSE Nowhere
           instance == IF LaunchOf[t] = "EC2" THEN InstanceOf[t] ELSE Nowhere
       IN  {TargetOf(t, c, instance, machine) : c \in Scraped(DefOf[t])}

-----------------------------------------------------------------------------
Init ==
  /\ running \in SUBSET Tasks
  /\ started = running /\ steady = running
  /\ lost = {} /\ changes = 0 /\ failures = 0
  /\ pc = "cluster"
  /\ cursor = {} /\ serviceArns = {} /\ services = {} /\ service = Nowhere
  /\ taskArns = {}
  /\ tasks = {} /\ reported = [t \in Tasks |-> "unseen"]
  /\ missing = {} /\ task = Nowhere /\ containers = {}
  /\ taskDefs = {} /\ known = {}
  /\ info = [m \in Machines |-> Nowhere]
  /\ targets = {} /\ defCalls = 0 /\ excused = {}

On(t, m) == /\ LaunchOf[t] = "EC2" /\ InstanceOf[t] # Nowhere
            /\ MachineOf[InstanceOf[t]] = m

\* A service starts a task, or stops one; an EC2 instance is terminated, and
\* the tasks on it with it.
TaskStarts ==
  \E t \in Tasks \ started :
    /\ \A m \in lost : ~On(t, m)
    /\ running' = running \cup {t}
    /\ started' = started \cup {t}
    /\ UNCHANGED <<steady, lost>>

TasksStop(gone) ==
  /\ running' = running \ gone
  /\ steady' = steady \ gone
  /\ UNCHANGED started

TaskStops == \E t \in running : TasksStop({t}) /\ UNCHANGED lost

MachineLost ==
  \E m \in Machines \ lost :
    /\ lost' = lost \cup {m}
    /\ TasksStop({t \in running : On(t, m)})

WorldChanges ==
  /\ changes < MaxChanges /\ pc \notin {"done", "failed"}
  /\ changes' = changes + 1
  /\ TaskStarts \/ TaskStops \/ MachineLost
  /\ UNCHANGED <<failures, pc, listing, chunk, examined, caches, result,
                 defCalls>>

-----------------------------------------------------------------------------
(* Paging and chunks.                                                      *)

\* apply_page: the page is appended and the token remembered; in the faulty
\* variants the page replaces the items, and the token is not advanced.
ReplacesItems(items, page) == page
Items(items, page) == items \cup page
StuckCursor(shown, page) == shown
Cursor(shown, page) == shown \cup page

SomeOf(S) == IF Cardinality(S) <= Page THEN {S} ELSE kSubset(Page, S)

\* The container instances of the EC2 tasks of a chunk; in the faulty variant
\* a task without one is not filtered out.
InstancesOrNone(chunkTasks) ==
  {InstanceOf[t] : t \in {u \in chunkTasks : LaunchOf[u] = "EC2"}}
InstancesOf(chunkTasks) ==
  {InstanceOf[t] : t \in {u \in chunkTasks : LaunchOf[u] = "EC2"}} \ {Nowhere}

\* One page of a listing whose live members are Live.
NextPage(Live, items, next) ==
  \E page \in SomeOf(Live \ cursor) :
    /\ items' = Items(items, page)
    /\ IF page = Live \ cursor
       THEN pc' = next /\ cursor' = {}
       ELSE pc' = pc /\ cursor' = Cursor(cursor, page)

\* An AWS call that answers: what every step of the listing part leaves alone.
Elsewhere == UNCHANGED <<world, failures, examined, caches, result, defCalls>>

DescribeCluster ==
  /\ pc = "cluster" /\ pc' = "listServices"
  /\ Elsewhere /\ UNCHANGED <<listing, chunk>>

\* list_all_services
ListServices ==
  /\ pc = "listServices"
  /\ NextPage(Services, serviceArns, "services")
  /\ Elsewhere /\ UNCHANGED <<services, service, taskArns, chunk>>

DescribeServices ==
  /\ pc = "services" /\ services = {} /\ serviceArns # {}
  /\ services' \in SomeOf(serviceArns)
  /\ serviceArns' = serviceArns \ services'
  /\ Elsewhere /\ UNCHANGED <<pc, cursor, service, taskArns, chunk>>

VisitService ==
  /\ pc = "services" /\ pc' = "listTasks"
  /\ service' \in services
  /\ services' = services \ {service'}
  /\ Elsewhere /\ UNCHANGED <<cursor, serviceArns, taskArns, chunk>>

Finish ==
  /\ pc = "services" /\ services = {} /\ serviceArns = {}
  /\ pc' = "done"
  /\ Elsewhere /\ UNCHANGED <<listing, chunk>>

\* list_service_tasks: AWS lists the tasks that run.
ListTasks ==
  /\ pc = "listTasks"
  /\ NextPage({t \in running : ServiceOf[t] = service}, taskArns, "chunks")
  /\ Elsewhere /\ UNCHANGED <<serviceArns, services, service, chunk>>

NextService ==
  /\ pc = "chunks" /\ taskArns = {}
  /\ pc' = "services"
  /\ Elsewhere /\ UNCHANGED <<listing, chunk>>

\* AWS describes a task that has stopped since it was listed as stopped.
DescribeTasks ==
  /\ pc = "chunks" /\ pc' = "instances" /\ taskArns # {}
  /\ tasks' \in SomeOf(taskArns)
  /\ taskArns' = taskArns \ tasks'
  /\ reported' = [t \in Tasks |->
       CASE t \notin tasks'                  -> reported[t]
         [] t \in tasks' /\ t \in running    -> "running"
         [] t \in tasks' /\ t \notin running -> "stopped"]
  /\ missing' = InstancesOf({t \in tasks' : t \in running}) \ known
  /\ Elsewhere /\ UNCHANGED <<cursor, serviceArns, services, service>>

-----------------------------------------------------------------------------
(* Filling the caches for the whole chunk.                                 *)

Filling == UNCHANGED <<world, listing, tasks, reported, examined, result,
                       taskDefs, defCalls>>

\* populate_container_instance_to_ec2_id_cache: an answer leaves out container
\* instances that AWS does not know, those of a terminated machine or, which
\* counts as a failure, others.
Terminated(gone) == \A i \in gone : MachineOf[i] \in lost
DescribeContainerInstances ==
  /\ pc = "instances" /\ missing # {}
  /\ \E asked \in SomeOf(missing) : \E gone \in SUBSET asked :
       /\ missing' = missing \ asked
       /\ known' = known \cup (asked \ gone)
       /\ \/ Terminated(gone) /\ UNCHANGED failures
          \/ /\ ~Terminated(gone) /\ failures < MaxFailures
             /\ failures' = failures + 1
  /\ Filling /\ UNCHANGED <<pc, info>>

\* missing_ec2_instance_ids
Cached == {m \in Machines : info[m] # Nowhere}
MachinesWanted ==
  /\ pc = "instances" /\ pc' = "machines" /\ missing = {}
  /\ missing' = {MachineOf[i] :
       i \in known \cap InstancesOf({t \in tasks : reported[t] = "running"})}
         \ Cached
  /\ Filling /\ UNCHANGED <<failures, known, info>>

\* populate_ec2_instance_cache: a terminated instance has no private address
\* and is left out.  The container instance is not known here.
DescribeInstances ==
  /\ pc = "machines" /\ missing # {}
  /\ \E asked \in SomeOf(missing) :
       /\ missing' = missing \ asked
       /\ info' = [m \in Machines |->
            IF m \in asked \ lost THEN Unknown ELSE info[m]]
  /\ Filling /\ UNCHANGED <<failures, pc, known>>

CachesFilled ==
  /\ pc = "machines" /\ pc' = "tasks" /\ missing = {}
  /\ Filling /\ UNCHANGED <<failures, missing, known, info>>

-----------------------------------------------------------------------------
(* One task after the other.                                               *)

\* task_definition_from_cache: the definition an arn is answered with; in the
\* faulty variant, whatever the cache holds.
AnyDefinition(d) == taskDefs
CachedDefinition(d) == taskDefs \cap {d}
\* The cache once a definition has been fetched, and when it is not inserted.
NothingCached(d) == taskDefs
WithDefinition(d) == taskDefs \cup {d}

\* The tests a task must pass before its definition is looked up: the EC2
\* branch skips what has stopped, the Fargate branch does not.
NotStopped(t) == LaunchOf[t] = "EC2" => reported[t] # "stopped"
Examinable(t) ==
  /\ \/ LaunchOf[t] = "EC2"
     \/ LaunchOf[t] = "FARGATE" /\ ProxyMode /\ t \in HasEni
  /\ NotStopped(t)

Examining == UNCHANGED <<world, failures, listing, reported, missing, known,
                         info, targets>>

SkipTask ==
  /\ pc = "tasks"
  /\ \E t \in tasks : ~Examinable(t) /\ tasks' = tasks \ {t}
  /\ Examining /\ UNCHANGED <<pc, examined, taskDefs, excused, defCalls>>

\* The containers of task t are examined with definition d.
Examine(t, d) ==
  /\ task' = t
  /\ tasks' = tasks \ {t}
  /\ containers' = Scraped(d)
  /\ pc' = "containers"

UseCachedDefinition ==
  /\ pc = "tasks"
  /\ \E t \in tasks : Examinable(t) /\ \E d \in CachedDefinition(DefOf[t]) :
       Examine(t, d)
  /\ Examining /\ UNCHANGED <<taskDefs, excused, defCalls>>

\* get_task_definition_cached, on a miss.
FetchDefinition ==
  /\ pc = "tasks"
  /\ \E t \in tasks :
       /\ Examinable(t) /\ CachedDefinition(DefOf[t]) = {}
       /\ Examine(t, DefOf[t])
       /\ taskDefs' = WithDefinition(DefOf[t])
  /\ defCalls' = defCalls + 1
  /\ Examining /\ UNCHANGED excused

\* The call fails for a Fargate task, or answers nothing: the task is skipped.
\* (For an EC2 task a failing call ends the pass: CallFails.)
NoDefinition ==
  /\ pc = "tasks" /\ failures < MaxFailures
  /\ failures' = failures + 1
  /\ \E t \in tasks :
       /\ Examinable(t) /\ CachedDefinition(DefOf[t]) = {}
       /\ tasks' = tasks \ {t}
       /\ excused' = excused \cup Promised(t)
  /\ defCalls' = defCalls + 1
  /\ UNCHANGED <<world, pc, listing, reported, missing, examined, caches,
                 targets>>

NextChunk ==
  /\ pc = "tasks" /\ tasks = {}
  /\ pc' = "chunks"
  /\ Examining /\ UNCHANGED <<tasks, examined, taskDefs, excused, defCalls>>

-----------------------------------------------------------------------------
(* One container after the other.                                          *)

\* ec2_instance_from_cache: the container instance is the task's own, not the
\* one stored with the machine.
StoredLabel(t) == info[MachineOf[InstanceOf[t]]]
InstanceLabel(t) == InstanceOf[t]

Resolved(t) == InstanceOf[t] \in known /\ MachineOf[InstanceOf[t]] \in Cached

Building == UNCHANGED <<world, listing, chunk, task, taskDefs, defCalls>>

Push(c, instance, machine) ==
  targets' = IF Reachable(task)
             THEN targets \cup {TargetOf(task, c, instance, machine)}
             ELSE targets

FargateTarget ==
  /\ pc = "containers" /\ LaunchOf[task] = "FARGATE"
  /\ \E c \in containers :
       containers' = containers \ {c} /\ Push(c, Nowhere, Nowhere)
  /\ Building /\ UNCHANGED <<failures, pc, known, info, excused>>

\* "Task has no container instance"
UnplacedTask ==
  /\ pc = "containers"
  /\ LaunchOf[task] = "EC2" /\ InstanceOf[task] = Nowhere
  /\ \E c \in containers : containers' = containers \ {c}
  /\ Building /\ UNCHANGED <<failures, pc, known, info, result>>

Placed == LaunchOf[task] = "EC2" /\ InstanceOf[task] # Nowhere

Ec2Target ==
  /\ pc = "containers" /\ Placed /\ Resolved(task)
  /\ \E c \in containers :
       /\ containers' = containers \ {c}
       /\ Push(c, InstanceLabel(task), MachineOf[InstanceOf[task]])
  /\ Building /\ UNCHANGED <<failures, pc, known, info, excused>>

\* resolve_ec2_instance: a second attempt, for this container alone.
ResolveInstance ==
  /\ pc = "containers" /\ Placed /\ ~Resolved(task)
  /\ LET i == InstanceOf[task]  m == MachineOf[i] IN
       /\ m \notin lost
       /\ known' = known \cup {i}
       /\ info' = [info EXCEPT ![m] = i]
       /\ \E c \in containers :
            containers' = containers \ {c} /\ Push(c, i, m)
  /\ Building /\ UNCHANGED <<failures, pc, excused>>

\* The machine has gone, or a call fails: the container is skipped.
ResolveFails ==
  /\ pc = "containers" /\ Placed /\ ~Resolved(task)
  /\ \/ MachineOf[InstanceOf[task]] \in lost /\ UNCHANGED failures
     \/ failures < MaxFailures /\ failures' = failures + 1
  /\ \E c \in containers :
       /\ containers' = containers \ {c}
       /\ excused' = excused \cup {x \in Promised(task) : x.container = c.name}
  /\ Building /\ UNCHANGED <<pc, known, info, targets>>

NextTask ==
  /\ pc = "containers" /\ containers = {}
  /\ pc' = "tasks"
  /\ Building /\ UNCHANGED <<failures, containers, known, info, result>>

-----------------------------------------------------------------------------
\* The calls whose error ends the pass with `?`, a missing cluster included.
Propagates ==
  \/ pc \in {"cluster", "listServices", "listTasks"}
  \/ pc = "services" /\ services = {} /\ serviceArns # {}
  \/ pc = "chunks" /\ taskArns # {}
  \/ pc \in {"instances", "machines"} /\ missing # {}
  \/ pc = "tasks" /\ \E t \in tasks :
       LaunchOf[t] = "EC2" /\ NotStopped(t) /\ CachedDefinition(DefOf[t]) = {}

CallFails ==
  /\ failures < MaxFailures /\ Propagates
  /\ failures' = failures + 1
  /\ pc' = "failed"
  /\ defCalls' = IF pc = "tasks" THEN defCalls + 1 ELSE defCalls
  /\ UNCHANGED <<world, listing, chunk, examined, caches, result>>

Answered ==
  \/ DescribeCluster \/ ListServices \/ DescribeServices \/ VisitService
  \/ Finish \/ ListTasks \/ NextService \/ DescribeTasks
  \/ DescribeContainerInstances \/ MachinesWanted \/ DescribeInstances
  \/ CachesFilled
  \/ SkipTask \/ UseCachedDefinition \/ FetchDefinition \/ NextChunk
  \/ FargateTarget \/ UnplacedTask \/ Ec2Target \/ ResolveInstance
  \/ ResolveFails \/ NextTask

Next == WorldChanges \/ Answered \/ NoDefinition \/ CallFails

Spec == Init /\ [][Next]_vars
\* The task that runs the pass is polled, and every AWS call returns; no call
\* is assumed to fail.
FairSpec == Spec /\ WF_vars(Answered)

-----------------------------------------------------------------------------
TypeOK ==
  /\ running \subseteq started /\ started \subseteq Tasks
  /\ steady \subseteq running /\ lost \subseteq Machines
  /\ changes \in 0..MaxChanges /\ failures \in 0..MaxFailures
  /\ pc \in {"cluster", "listServices", "services", "listTasks", "chunks",
             "instances", "machines", "tasks", "containers", "done", "failed"}
  /\ cursor \subseteq Services \cup Tasks
  /\ serviceArns \subseteq Services /\ services \subseteq Services
  /\ taskArns \subseteq {t \in Tasks : ServiceOf[t] = service}
  /\ service \in Services \cup {Nowhere}
  /\ tasks \subseteq Tasks
  /\ reported \in [Tasks -> {"unseen", "running", "stopped"}]
  /\ pc = "instances" => missing \subseteq Instances \ known
  /\ pc = "machines" => missing \subseteq Machines \ Cached
  /\ taskDefs \subseteq TaskDefs /\ known \subseteq Instances
  /\ info \in [Machines -> Instances \cup {Nowhere, Unknown}]
  /\ pc = "containers" => task \in Tasks /\ containers \subseteq Scraped(DefOf[task])
  /\ defCalls \in Nat

\* A pass that ends well has found every scraped container of every task that
\* ran throughout it, unless a lookup for that very target failed with a
\* warning: pages, chunks and the per-pass caches lose nothing.
FoundWhatStayed ==
  pc = "done" => \A t \in steady : Promised(t) \subseteq targets \cup excused

\* Every target is one a task that ran during the pass is owed, with its own
\* address, host port, container instance and machine: the caches shared by
\* the tasks never lend one task what belongs to another.
NothingInvented ==
  targets \subseteq UNION {Promised(t) : t \in started}

\* A task definition is asked for once per pass, however many tasks share it,
\* and once more for each call that failed.
DefinitionsFetchedOnce ==
  defCalls <= Cardinality(taskDefs) + failures

\* Whatever changes meanwhile, the pass ends: the listings run out of pages.
PassEnds == <>(pc \in {"done", "failed"})
=============================================================================
