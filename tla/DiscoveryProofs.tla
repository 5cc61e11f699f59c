-------------------------- MODULE DiscoveryProofs --------------------------
(***************************************************************************)
(* What a pass over a cluster promises, for any services, tasks and        *)
(* machines, any page size, and any changes and failures during the pass.  *)
(*                                                                         *)
(* That a pass has found what stayed says nothing before its end.  The     *)
(* invariant behind it follows each task that has run all the time through *)
(* the lists of the pass: at any moment it is in one of them, or what it   *)
(* is owed has been built or excused.                                      *)
(***************************************************************************)
EXTENDS Discovery, FiniteSetTheorems, TLAPS

(* The target a container of a supported task is owed.                     *)
Owed(t, c) ==
  IF LaunchOf[t] = "EC2"
  THEN TargetOf(t, c, InstanceOf[t], MachineOf[InstanceOf[t]])
  ELSE TargetOf(t, c, Nowhere, Nowhere)

(* The listings: a cursor is in use while its pages are asked for only,    *)
(* and what it is past has been kept.                                      *)
Listings ==
  /\ pc \notin {"listServices", "listTasks", "failed"} => cursor = {}
  /\ pc = "listServices" => cursor \subseteq serviceArns
  /\ pc = "listTasks" => cursor \subseteq taskArns
  /\ pc \in {"cluster", "listServices", "services", "done"} => taskArns = {}
  /\ pc = "done" => serviceArns = {} /\ services = {}

(* What is examined ran during the pass, and the mode supports it if it is *)
(* placed.                                                                 *)
Examination ==
  /\ taskArns \subseteq started /\ tasks \subseteq started
  /\ pc = "containers" => task \in started /\ (LaunchOf[task] = "FARGATE" => ProxyMode)

Chunk == {"instances", "machines", "tasks", "containers"}

Accounted(t) ==
  \/ Promised(t) \subseteq targets \cup excused
  \/ pc \in {"cluster", "listServices"}
  \/ ServiceOf[t] \in serviceArns \cup services
  \/ pc = "listTasks" /\ ServiceOf[t] = service
  \/ t \in taskArns
  \/ pc \in Chunk /\ t \in tasks /\ reported[t] = "running"
  \/ /\ pc = "containers" /\ t = task
     /\ \A c \in Scraped(DefOf[t]) \ containers :
          Supported(t) /\ Reachable(t) => Owed(t, c) \in targets \cup excused

NoneForgotten == pc # "failed" => \A t \in steady : Accounted(t)

IInv ==
  /\ TypeOK /\ Listings /\ Examination
  /\ NoneForgotten /\ NothingInvented /\ DefinitionsFetchedOnce

-----------------------------------------------------------------------------
(* The operators *)

LEMMA SomeOfSubset ==
  ASSUME NEW S, NEW T \in SomeOf(S) PROVE T \subseteq S
BY DEF SomeOf, kSubset

LEMMA InstancesOfType ==
  ASSUME NEW S \in SUBSET Tasks PROVE InstancesOf(S) \subseteq Instances
BY ConstantsAssumption DEF InstancesOf

(* What a task is owed: nothing, or the target of each scraped container.  *)
LEMMA PromisedIsOwed ==
  ASSUME NEW t
  PROVE  /\ ~(Supported(t) /\ Reachable(t)) => Promised(t) = {}
         /\ Supported(t) /\ Reachable(t) =>
              Promised(t) = {Owed(t, c) : c \in Scraped(DefOf[t])}
BY DEF Promised, Owed, Supported

(* The excuse for a container covers the target of that container.         *)
LEMMA OwedHasName ==
  ASSUME NEW t, NEW c PROVE Owed(t, c).container = c.name
BY DEF Owed, TargetOf

LEMMA UnexaminableIsOwedNothing ==
  ASSUME NEW t \in Tasks, reported[t] = "running", ~Examinable(t)
  PROVE  Promised(t) = {}
BY PromisedIsOwed DEF Examinable, NotStopped, Supported, Reachable, OwnAddress

-----------------------------------------------------------------------------
(* Types, listings and what is examined *)

LEMMA InitIInv == Init => IInv
<1> SUFFICES ASSUME Init PROVE IInv
  OBVIOUS
<1> USE ConstantsAssumption DEF Init
<1>1. TypeOK
  BY DEF TypeOK
<1>2. Listings /\ Examination
  BY DEF Listings, Examination
<1>3. NoneForgotten /\ NothingInvented
  BY DEF NoneForgotten, Accounted, NothingInvented
<1>4. DefinitionsFetchedOnce
  BY FS_EmptySet DEF DefinitionsFetchedOnce
<1> QED BY <1>1, <1>2, <1>3, <1>4 DEF IInv

Frames == TypeOK /\ Listings /\ Examination

LEMMA WorldFrames == ASSUME Frames, WorldChanges PROVE Frames'
<1> USE ConstantsAssumption DEF Frames, WorldChanges, listing, chunk, examined, caches, result
<1>1. running' \subseteq started' /\ started' \subseteq Tasks /\ steady' \subseteq running'
      /\ lost' \subseteq Machines /\ started \subseteq started'
  BY DEF TypeOK, TaskStarts, TaskStops, MachineLost, TasksStop
<1>2. changes' \in 0..MaxChanges
  BY DEF TypeOK
<1>3. TypeOK'
  BY <1>1, <1>2 DEF TypeOK, Cached
<1>4. Listings' /\ Examination'
  BY <1>1 DEF Listings, Examination
<1> QED BY <1>3, <1>4

LEMMA ListingFrames ==
  ASSUME Frames,
         DescribeCluster \/ ListServices \/ DescribeServices \/ VisitService \/ Finish
           \/ ListTasks \/ NextService \/ DescribeTasks
  PROVE  Frames'
<1> USE ConstantsAssumption
    DEF Frames, Elsewhere, world, listing, chunk, examined, caches, result
<1>1. CASE DescribeCluster
  BY <1>1 DEF DescribeCluster, TypeOK, Cached, Listings, Examination
<1>2. CASE ListServices
  <2>1. PICK page \in SUBSET (Services \ cursor) :
          /\ serviceArns' = serviceArns \cup page
          /\ \/ pc' = "services" /\ cursor' = {}
             \/ pc' = pc /\ cursor' = cursor \cup page
    BY <1>2, SomeOfSubset DEF ListServices, NextPage, Items, Cursor
  <2> QED BY <1>2, <2>1 DEF ListServices, TypeOK, Cached, Listings, Examination
<1>3. CASE DescribeServices
  BY <1>3, SomeOfSubset DEF DescribeServices, TypeOK, Cached, Listings, Examination
<1>4. CASE VisitService
  BY <1>4 DEF VisitService, TypeOK, Cached, Listings, Examination
<1>5. CASE Finish
  BY <1>5 DEF Finish, TypeOK, Cached, Listings, Examination
<1>6. CASE ListTasks
  <2>1. PICK page \in SUBSET ({t \in running : ServiceOf[t] = service} \ cursor) :
          /\ taskArns' = taskArns \cup page
          /\ \/ pc' = "chunks" /\ cursor' = {}
             \/ pc' = pc /\ cursor' = cursor \cup page
    BY <1>6, SomeOfSubset DEF ListTasks, NextPage, Items, Cursor
  <2> QED BY <1>6, <2>1 DEF ListTasks, TypeOK, Cached, Listings, Examination
<1>7. CASE NextService
  BY <1>7 DEF NextService, TypeOK, Cached, Listings, Examination
<1>8. CASE DescribeTasks
  <2>1. tasks' \subseteq taskArns /\ taskArns' \subseteq taskArns
    BY <1>8, SomeOfSubset DEF DescribeTasks
  <2>2. reported' \in [Tasks -> {"unseen", "running", "stopped"}]
    BY <1>8 DEF DescribeTasks, TypeOK
  <2>3. missing' \subseteq Instances \ known
    <3>1. {t \in tasks' : t \in running} \in SUBSET Tasks
      BY <2>1 DEF TypeOK
    <3> QED BY <1>8, <3>1, InstancesOfType DEF DescribeTasks
  <2> QED BY <1>8, <2>1, <2>2, <2>3 DEF DescribeTasks, TypeOK, Cached, Listings, Examination
<1> QED BY <1>1, <1>2, <1>3, <1>4, <1>5, <1>6, <1>7, <1>8

LEMMA FillingFrames ==
  ASSUME Frames,
         DescribeContainerInstances \/ MachinesWanted \/ DescribeInstances \/ CachesFilled
  PROVE  Frames'
<1> USE ConstantsAssumption
    DEF Frames, Filling, world, listing, examined, result
<1>1. CASE DescribeContainerInstances
  <2>1. PICK asked \in SUBSET missing :
          missing' = missing \ asked /\ \E gone : known' = known \cup (asked \ gone)
    BY <1>1, SomeOfSubset DEF DescribeContainerInstances
  <2>2. failures' \in 0..MaxFailures
    BY <1>1 DEF DescribeContainerInstances, TypeOK
  <2> QED BY <1>1, <2>1, <2>2
          DEF DescribeContainerInstances, TypeOK, Cached, Listings, Examination
<1>2. CASE MachinesWanted
  <2>1. missing' \subseteq Machines \ Cached
    <3>1. \A i \in known : MachineOf[i] \in Machines
      BY DEF TypeOK
    <3> QED BY <1>2, <3>1, Zenon DEF MachinesWanted
  <2> QED BY <1>2, <2>1 DEF MachinesWanted, TypeOK, Cached, Listings, Examination
<1>3. CASE DescribeInstances
  <2>1. PICK asked \in SUBSET missing :
          /\ missing' = missing \ asked
          /\ info' = [m \in Machines |-> IF m \in asked \ lost THEN Unknown ELSE info[m]]
    BY <1>3, SomeOfSubset DEF DescribeInstances
  <2>2. info' \in [Machines -> Instances \cup {Nowhere, Unknown}]
    BY <2>1 DEF TypeOK
  <2>3. missing' \subseteq Machines \ Cached'
    BY <1>3, <2>1 DEF DescribeInstances, TypeOK, Cached
  <2> QED BY <1>3, <2>2, <2>3 DEF DescribeInstances, TypeOK, Listings, Examination
<1>4. CASE CachesFilled
  BY <1>4 DEF CachesFilled, TypeOK, Cached, Listings, Examination
<1> QED BY <1>1, <1>2, <1>3, <1>4

LEMMA TaskFrames ==
  ASSUME Frames,
         SkipTask \/ UseCachedDefinition \/ FetchDefinition \/ NoDefinition \/ NextChunk
  PROVE  Frames'
<1> USE ConstantsAssumption
    DEF Frames, Examining, Examine, world, listing, examined, caches, result
<1>1. CASE SkipTask \/ NextChunk
  BY <1>1 DEF SkipTask, NextChunk, TypeOK, Cached, Listings, Examination
<1>2. CASE UseCachedDefinition \/ FetchDefinition
  <2>1. PICK t \in tasks : Examinable(t) /\ Examine(t, DefOf[t])
    BY <1>2 DEF UseCachedDefinition, FetchDefinition, CachedDefinition
  <2>2. taskDefs' \subseteq TaskDefs /\ defCalls' \in Nat
    BY <1>2 DEF UseCachedDefinition, FetchDefinition, WithDefinition, TypeOK
  <2>3. UNCHANGED <<running, started, steady, lost, changes, failures, cursor, serviceArns,
                    services, service, taskArns, reported, missing, known, info, targets>>
    BY <1>2 DEF UseCachedDefinition, FetchDefinition
  <2>4. Listings' /\ Examination'
    BY <1>2, <2>1, <2>3 DEF UseCachedDefinition, FetchDefinition, Listings, Examination,
                            TypeOK, Examinable
  <2> QED BY <2>1, <2>2, <2>3, <2>4 DEF TypeOK
<1>3. CASE NoDefinition
  BY <1>3 DEF NoDefinition, TypeOK, Cached, Listings, Examination
<1> QED BY <1>1, <1>2, <1>3

LEMMA ContainerFrames ==
  ASSUME Frames,
         FargateTarget \/ UnplacedTask \/ Ec2Target \/ ResolveInstance \/ ResolveFails
           \/ NextTask
  PROVE  Frames'
<1> USE ConstantsAssumption
    DEF Frames, Building, world, listing, chunk, result
<1>1. CASE FargateTarget \/ UnplacedTask \/ Ec2Target \/ NextTask
  BY <1>1 DEF FargateTarget, UnplacedTask, Ec2Target, NextTask, TypeOK, Cached, Listings,
              Examination
<1>2. CASE ResolveInstance
  <2>1. InstanceOf[task] \in Instances
    BY <1>2 DEF ResolveInstance, Placed, TypeOK
  <2>2. known' \subseteq Instances /\ info' \in [Machines -> Instances \cup {Nowhere, Unknown}]
    BY <1>2, <2>1 DEF ResolveInstance, TypeOK
  <2>3. containers' \subseteq containers
    BY <1>2 DEF ResolveInstance
  <2> QED BY <1>2, <2>2, <2>3 DEF ResolveInstance, TypeOK, Listings, Examination
<1>3. CASE ResolveFails
  BY <1>3 DEF ResolveFails, TypeOK, Cached, Listings, Examination
<1> QED BY <1>1, <1>2, <1>3

LEMMA FailFrames == ASSUME Frames, CallFails PROVE Frames'
<1> USE ConstantsAssumption
    DEF CallFails, world, listing, chunk, examined, caches, result
<1>1. failures' \in 0..MaxFailures /\ defCalls' \in Nat
  BY DEF Frames, TypeOK
<1> QED BY <1>1 DEF Frames, TypeOK, Listings, Examination

LEMMA StepFrames == ASSUME Frames, [Next]_vars PROVE Frames'
<1>1. CASE UNCHANGED vars
  BY <1>1 DEF vars, world, listing, chunk, examined, caches, result, Frames, TypeOK, Cached,
              Listings, Examination
<1> QED BY <1>1, WorldFrames, ListingFrames, FillingFrames, TaskFrames, ContainerFrames,
           FailFrames DEF Next, Answered

-----------------------------------------------------------------------------
(* Nothing is invented *)

(* What is pushed for a container of the examined task is what the task is *)
(* owed, and nothing is pushed for a task that has no address.             *)
LEMMA PlacedPush ==
  ASSUME NEW c, Placed, Push(c, InstanceOf[task], MachineOf[InstanceOf[task]])
  PROVE  targets' = IF Reachable(task) THEN targets \cup {Owed(task, c)} ELSE targets
BY DEF Push, Placed, Owed

LEMMA FargatePush ==
  ASSUME NEW c, LaunchOf[task] = "FARGATE", Push(c, Nowhere, Nowhere)
  PROVE  targets' = IF Reachable(task) THEN targets \cup {Owed(task, c)} ELSE targets
BY DEF Push, Owed

(* The actions that build a target, all alike.                             *)
Builds == FargateTarget \/ Ec2Target \/ ResolveInstance

LEMMA BuildsOne ==
  ASSUME Frames, Builds
  PROVE  /\ pc = "containers" /\ Supported(task)
         /\ \E c \in containers :
              /\ containers' = containers \ {c}
              /\ targets' = IF Reachable(task) THEN targets \cup {Owed(task, c)} ELSE targets
         /\ UNCHANGED <<world, pc, listing, chunk, task, taskDefs, defCalls, failures, excused>>
<1>1. CASE FargateTarget
  BY <1>1, FargatePush DEF FargateTarget, Building, Supported, Frames, Examination
<1>2. CASE Ec2Target
  <2>1. PICK c \in containers :
          /\ containers' = containers \ {c}
          /\ Push(c, InstanceOf[task], MachineOf[InstanceOf[task]])
    BY <1>2 DEF Ec2Target, InstanceLabel
  <2>2. Placed /\ pc = "containers" /\ Building /\ UNCHANGED <<pc, failures, excused>>
    BY <1>2 DEF Ec2Target
  <2>3. targets' = IF Reachable(task) THEN targets \cup {Owed(task, c)} ELSE targets
    BY <2>1, <2>2, PlacedPush
  <2>4. Supported(task)
    BY <2>2 DEF Placed, Supported
  <2> QED BY <2>1, <2>2, <2>3, <2>4 DEF Building
<1>3. CASE ResolveInstance
  <2>1. PICK c \in containers :
          /\ containers' = containers \ {c}
          /\ Push(c, InstanceOf[task], MachineOf[InstanceOf[task]])
    BY <1>3 DEF ResolveInstance
  <2>2. Placed /\ pc = "containers" /\ Building /\ UNCHANGED <<pc, failures, excused>>
    BY <1>3 DEF ResolveInstance
  <2>3. targets' = IF Reachable(task) THEN targets \cup {Owed(task, c)} ELSE targets
    BY <2>1, <2>2, PlacedPush
  <2>4. Supported(task)
    BY <2>2 DEF Placed, Supported
  <2> QED BY <2>1, <2>2, <2>3, <2>4 DEF Building
<1> QED BY <1>1, <1>2, <1>3 DEF Builds

LEMMA TargetsElsewhere ==
  ASSUME [Next]_vars, ~Builds
  PROVE  targets' = targets
BY DEF Next, Answered, Builds, WorldChanges, DescribeCluster, ListServices, DescribeServices,
       VisitService, Finish, ListTasks, NextService, DescribeTasks, DescribeContainerInstances,
       MachinesWanted, DescribeInstances, CachesFilled, SkipTask, UseCachedDefinition,
       FetchDefinition, NextChunk, UnplacedTask, ResolveFails, NextTask, NoDefinition, CallFails,
       Elsewhere, Filling, Examining, Building, result, vars

LEMMA StartedGrows ==
  ASSUME Frames, [Next]_vars
  PROVE  started \subseteq started' /\ steady' \subseteq steady
BY DEF Frames, TypeOK, Next, Answered, WorldChanges, TaskStarts, TaskStops, MachineLost,
       TasksStop, DescribeCluster, ListServices, DescribeServices,
       VisitService, Finish, ListTasks, NextService, DescribeTasks, DescribeContainerInstances,
       MachinesWanted, DescribeInstances, CachesFilled, SkipTask, UseCachedDefinition,
       FetchDefinition, NextChunk, FargateTarget, UnplacedTask, Ec2Target, ResolveInstance,
       ResolveFails, NextTask, NoDefinition, CallFails,
       Elsewhere, Filling, Examining, Building, world, vars

LEMMA NothingInventedStep ==
  ASSUME Frames, NothingInvented, [Next]_vars
  PROVE  NothingInvented'
<1>1. \A t : Promised(t)' = Promised(t)
  BY DEF Promised, TargetOf, TargetPort, BindingsOf, Eni, OwnAddress, Supported, Reachable, Scraped
<1>2. CASE Builds
  <2>1. PICK c \in containers :
          targets' = IF Reachable(task) THEN targets \cup {Owed(task, c)} ELSE targets
    BY <1>2, BuildsOne
  <2>2. pc = "containers" /\ Supported(task) /\ started' = started
    BY <1>2, BuildsOne DEF world
  <2>3. task \in started /\ c \in Scraped(DefOf[task])
    BY <2>1, <2>2 DEF Frames, TypeOK, Examination
  <2>4. Reachable(task) => Owed(task, c) \in Promised(task)
    BY <2>2, <2>3, PromisedIsOwed
  <2> QED BY <1>1, <2>1, <2>2, <2>3, <2>4 DEF NothingInvented
<1>3. CASE ~Builds
  BY <1>1, <1>3, TargetsElsewhere, StartedGrows DEF NothingInvented
<1> QED BY <1>2, <1>3

-----------------------------------------------------------------------------
(* Definitions are fetched once *)

LEMMA DefinitionsStep ==
  ASSUME Frames, DefinitionsFetchedOnce, [Next]_vars
  PROVE  DefinitionsFetchedOnce'
<1>1. IsFiniteSet(taskDefs) /\ Cardinality(taskDefs) \in Nat /\ failures \in Nat
      /\ defCalls \in Nat
  BY ConstantsAssumption, FS_Subset, FS_CardinalityType DEF Frames, TypeOK
<1>2. CASE FetchDefinition
  <2>1. PICK t \in tasks : CachedDefinition(DefOf[t]) = {} /\ taskDefs' = WithDefinition(DefOf[t])
    BY <1>2 DEF FetchDefinition
  <2>2. DefOf[t] \notin taskDefs
    BY <2>1 DEF CachedDefinition
  <2>3. Cardinality(taskDefs') = Cardinality(taskDefs) + 1
    BY <1>1, <2>1, <2>2, FS_AddElement DEF WithDefinition
  <2>4. defCalls' = defCalls + 1 /\ failures' = failures
    BY <1>2 DEF FetchDefinition, Examining
  <2> QED BY <1>1, <2>3, <2>4 DEF DefinitionsFetchedOnce
<1>3. CASE NoDefinition
  BY <1>1, <1>3 DEF NoDefinition, caches, DefinitionsFetchedOnce
<1>4. CASE CallFails
  BY <1>1, <1>4 DEF CallFails, caches, DefinitionsFetchedOnce
<1>5. ASSUME ~FetchDefinition, ~NoDefinition, ~CallFails
      PROVE  /\ UNCHANGED <<taskDefs, defCalls>>
             /\ failures' = failures \/ failures' = failures + 1
  BY <1>5 DEF Next, Answered, WorldChanges, DescribeCluster, ListServices, DescribeServices,
       VisitService, Finish, ListTasks, NextService, DescribeTasks, DescribeContainerInstances,
       MachinesWanted, DescribeInstances, CachesFilled, SkipTask, UseCachedDefinition,
       NextChunk, FargateTarget, UnplacedTask, Ec2Target, ResolveInstance,
       ResolveFails, NextTask, Elsewhere, Filling, Examining, Building, caches, vars
<1>6. CASE ~FetchDefinition /\ ~NoDefinition /\ ~CallFails
  BY <1>1, <1>5, <1>6 DEF DefinitionsFetchedOnce
<1> QED BY <1>2, <1>3, <1>4, <1>6

-----------------------------------------------------------------------------
(* No task is forgotten.  Each lemma follows one task that stays through    *)
(* the steps of one part of the pass.                                       *)

Followed(t) == Frames /\ t \in steady /\ Accounted(t)

LEMMA PromisedConstant == ASSUME NEW t PROVE Promised(t)' = Promised(t)
BY DEF Promised, TargetOf, TargetPort, BindingsOf, Eni, OwnAddress, Supported, Reachable, Scraped

LEMMA WorldFollows ==
  ASSUME NEW t, Followed(t), WorldChanges
  PROVE  Accounted(t)'
BY PromisedConstant
   DEF Followed, Accounted, WorldChanges, listing, chunk, examined, result,
       Scraped, Supported, Reachable, OwnAddress, Owed, TargetOf, TargetPort, BindingsOf, Eni

(* A listing that is complete holds all services, and all tasks of the     *)
(* service that stay.                                                      *)
LEMMA ListingFollows ==
  ASSUME NEW t, Followed(t),
         DescribeCluster \/ ListServices \/ DescribeServices \/ VisitService \/ ListTasks
           \/ NextService \/ DescribeTasks
  PROVE  Accounted(t)'
<1> USE DEF Followed, Frames, Elsewhere, world, listing, chunk, examined, result
<1>0. t \in Tasks /\ t \in running /\ ServiceOf[t] \in Services
  BY ConstantsAssumption DEF TypeOK
<1>1. CASE DescribeCluster
  BY <1>1 DEF DescribeCluster, Accounted
<1>2. CASE ListServices
  <2>1. PICK page \in SUBSET (Services \ cursor) :
          /\ serviceArns' = serviceArns \cup page
          /\ \/ page = Services \ cursor /\ pc' = "services"
             \/ pc' = pc
    BY <1>2, SomeOfSubset DEF ListServices, NextPage, Items
  <2>2. CASE pc' = pc
    BY <1>2, <2>2 DEF ListServices, Accounted
  <2>3. CASE page = Services \ cursor
    <3>1. Services \subseteq serviceArns'
      BY <1>2, <2>1, <2>3 DEF ListServices, Listings
    <3> QED BY <1>0, <3>1 DEF Accounted
  <2> QED BY <2>1, <2>2, <2>3
<1>3. CASE DescribeServices
  <2>1. serviceArns' \cup services' = serviceArns \cup services
    BY <1>3, SomeOfSubset DEF DescribeServices
  <2> QED BY <1>3, <2>1, PromisedConstant DEF DescribeServices, Accounted, Chunk
<1>4. CASE VisitService
  BY <1>4, PromisedConstant DEF VisitService, Accounted, Chunk
<1>5. CASE ListTasks
  <2>1. PICK page \in SUBSET ({u \in running : ServiceOf[u] = service} \ cursor) :
          /\ taskArns' = taskArns \cup page
          /\ \/ page = {u \in running : ServiceOf[u] = service} \ cursor
             \/ pc' = pc
    BY <1>5, SomeOfSubset DEF ListTasks, NextPage, Items
  <2>2. UNCHANGED <<serviceArns, services, service, targets, excused>> /\ pc = "listTasks"
    BY <1>5 DEF ListTasks
  <2>3. CASE ServiceOf[t] = service
    <3>1. CASE pc' = pc
      BY <2>2, <2>3, <3>1 DEF Accounted
    <3>2. CASE page = {u \in running : ServiceOf[u] = service} \ cursor
      <4>1. t \in taskArns'
        BY <1>0, <2>1, <2>2, <2>3, <3>2 DEF Listings
      <4> QED BY <4>1 DEF Accounted
    <3> QED BY <2>1, <3>1, <3>2
  <2>4. CASE ServiceOf[t] # service
    <3>1. \/ Promised(t) \subseteq targets \cup excused
          \/ ServiceOf[t] \in serviceArns \cup services
          \/ t \in taskArns
      BY <2>2, <2>4 DEF Accounted, Chunk
    <3> QED BY <2>1, <2>2, <3>1, PromisedConstant DEF Accounted
  <2> QED BY <2>3, <2>4
<1>6. CASE NextService
  BY <1>6, PromisedConstant DEF NextService, Accounted, Chunk
<1>7. CASE DescribeTasks
  <2>1. taskArns \subseteq taskArns' \cup tasks'
    BY <1>7, SomeOfSubset DEF DescribeTasks
  <2>2. t \in tasks' => reported'[t] = "running"
    BY <1>0, <1>7 DEF DescribeTasks
  <2>3. \/ Promised(t) \subseteq targets \cup excused
        \/ ServiceOf[t] \in serviceArns \cup services
        \/ t \in taskArns
    BY <1>7 DEF DescribeTasks, Accounted, Chunk
  <2>4. pc' = "instances" /\ UNCHANGED <<serviceArns, services, targets, excused>>
    BY <1>7 DEF DescribeTasks
  <2> QED BY <2>1, <2>2, <2>3, <2>4, PromisedConstant DEF Accounted, Chunk
<1> QED BY <1>1, <1>2, <1>3, <1>4, <1>5, <1>6, <1>7

LEMMA FillingFollows ==
  ASSUME NEW t, Followed(t),
         DescribeContainerInstances \/ MachinesWanted \/ DescribeInstances \/ CachesFilled
  PROVE  Accounted(t)'
<1>1. /\ UNCHANGED <<world, listing, tasks, reported, examined, result>>
      /\ pc \in {"instances", "machines"} /\ pc' \in {"instances", "machines", "tasks"}
  BY DEF Filling, DescribeContainerInstances, MachinesWanted, DescribeInstances, CachesFilled
<1> QED BY <1>1, PromisedConstant
        DEF Followed, Accounted, Chunk, listing, examined, result

(* A task is skipped only if it is owed nothing, and what is examined of   *)
(* the one that is taken is what it is owed.                               *)
LEMMA TaskFollows ==
  ASSUME NEW t, Followed(t),
         SkipTask \/ UseCachedDefinition \/ FetchDefinition \/ NoDefinition \/ NextChunk
  PROVE  Accounted(t)'
<1> USE DEF Followed, Frames, Examining, Examine, world, listing, examined, caches, result
<1>0. t \in Tasks
  BY DEF TypeOK
<1>1. /\ pc = "tasks" /\ UNCHANGED <<listing, reported, targets>> /\ excused \subseteq excused'
  BY DEF SkipTask, UseCachedDefinition, FetchDefinition, NoDefinition, NextChunk
<1>2. \/ Promised(t) \subseteq targets \cup excused
      \/ ServiceOf[t] \in serviceArns \cup services
      \/ t \in taskArns
      \/ t \in tasks /\ reported[t] = "running"
  BY <1>1 DEF Accounted
<1>3. CASE t \notin tasks \/ reported[t] # "running"
  BY <1>1, <1>2, <1>3, PromisedConstant DEF Accounted
<1>4. ASSUME t \in tasks, reported[t] = "running" PROVE Accounted(t)'
  <2>1. CASE SkipTask
    <3>1. PICK u \in tasks : ~Examinable(u) /\ tasks' = tasks \ {u}
      BY <2>1 DEF SkipTask
    <3>2. CASE u = t
      <4>1. Promised(t)' = {}
        BY <1>0, <1>4, <3>1, <3>2, UnexaminableIsOwedNothing, PromisedConstant
      <4> QED BY <4>1 DEF Accounted
    <3>3. CASE u # t
      <4>1. pc' = "tasks" /\ t \in tasks' /\ reported'[t] = "running"
        BY <1>1, <1>4, <2>1, <3>1, <3>3 DEF SkipTask
      <4> QED BY <4>1 DEF Accounted, Chunk
    <3> QED BY <3>2, <3>3
  <2>2. CASE UseCachedDefinition \/ FetchDefinition
    <3>1. PICK u \in tasks : Examine(u, DefOf[u])
      BY <2>2 DEF UseCachedDefinition, FetchDefinition, CachedDefinition
    <3>2. CASE u = t
      <4>1. Scraped(DefOf[t]) \subseteq containers' /\ pc' = "containers" /\ t = task'
        BY <3>1, <3>2
      <4> QED BY <4>1 DEF Accounted, Scraped
    <3>3. CASE u # t
      <4>1. pc' = "containers" /\ t \in tasks' /\ reported'[t] = "running"
        BY <1>1, <1>4, <3>1, <3>3
      <4> QED BY <4>1 DEF Accounted, Chunk
    <3> QED BY <3>2, <3>3
  <2>3. CASE NoDefinition
    <3>1. PICK u \in tasks : tasks' = tasks \ {u} /\ excused' = excused \cup Promised(u)
      BY <2>3 DEF NoDefinition
    <3>2. CASE u = t
      BY <3>1, <3>2, PromisedConstant DEF Accounted
    <3>3. CASE u # t
      <4>1. pc' = "tasks" /\ t \in tasks' /\ reported'[t] = "running"
        BY <1>1, <1>4, <2>3, <3>1, <3>3 DEF NoDefinition
      <4> QED BY <4>1 DEF Accounted, Chunk
    <3> QED BY <3>2, <3>3
  <2>4. CASE NextChunk
    BY <1>4, <2>4 DEF NextChunk
  <2> QED BY <2>1, <2>2, <2>3, <2>4
<1> QED BY <1>3, <1>4

(* A container leaves the list with its target built or excused, or when   *)
(* its task is owed nothing.                                               *)
LEMMA ContainerFollows ==
  ASSUME NEW t, Followed(t),
         Builds \/ UnplacedTask \/ ResolveFails \/ NextTask
  PROVE  Accounted(t)'
<1> USE DEF Followed
<1>1. /\ pc = "containers" /\ UNCHANGED <<listing, chunk, task>>
      /\ targets \subseteq targets' /\ excused \subseteq excused'
  BY BuildsOne DEF UnplacedTask, ResolveFails, NextTask, Building, result
<1>2. \/ Promised(t) \subseteq targets \cup excused
      \/ ServiceOf[t] \in serviceArns \cup services
      \/ t \in taskArns
      \/ t \in tasks /\ reported[t] = "running"
      \/ /\ t = task
         /\ \A c \in Scraped(DefOf[t]) \ containers :
              Supported(t) /\ Reachable(t) => Owed(t, c) \in targets \cup excused
  BY <1>1 DEF Accounted
<1>3. pc' \in {"containers", "tasks"} /\ (pc' = "tasks" => NextTask)
  BY BuildsOne DEF UnplacedTask, ResolveFails, NextTask
<1>4. CASE t # task
  BY <1>1, <1>2, <1>3, <1>4, PromisedConstant DEF Accounted, Chunk, listing, chunk
<1>5. CASE t = task /\ ~(Supported(t) /\ Reachable(t))
  BY <1>5, PromisedIsOwed, PromisedConstant DEF Accounted
<1>6. ASSUME t = task, Supported(t), Reachable(t),
             \A c \in Scraped(DefOf[t]) \ containers : Owed(t, c) \in targets \cup excused
      PROVE  Accounted(t)'
  <2>1. CASE NextTask
    <3>1. \A c \in Scraped(DefOf[t]) : Owed(t, c) \in targets \cup excused
      BY <1>6, <2>1 DEF NextTask
    <3>2. Promised(t) \subseteq targets \cup excused
      BY <1>6, <3>1, PromisedIsOwed
    <3> QED BY <1>1, <3>2, PromisedConstant DEF Accounted
  <2>2. CASE UnplacedTask
    BY <1>6, <2>2 DEF UnplacedTask, Supported
  <2>3. ASSUME NEW c \in containers, containers' = containers \ {c}, pc' = "containers",
               Owed(t, c) \in targets' \cup excused'
        PROVE  Accounted(t)'
    <3>1. \A d \in Scraped(DefOf[t]) \ containers' : Owed(t, d) \in targets' \cup excused'
      BY <1>1, <1>6, <2>3
    <3>2. t = task'
      BY <1>1, <1>6
    <3> QED BY <2>3, <3>1, <3>2 DEF Accounted, Owed, TargetOf, TargetPort, BindingsOf, Eni,
                                    OwnAddress, Scraped
  <2>4. CASE Builds
    <3>1. PICK c \in containers :
            containers' = containers \ {c} /\ targets' = targets \cup {Owed(task, c)}
      BY <1>6, <2>4, BuildsOne
    <3> QED BY <1>6, <2>3, <2>4, <3>1, BuildsOne
  <2>5. CASE ResolveFails
    <3>1. PICK c \in containers :
            /\ containers' = containers \ {c}
            /\ excused' = excused \cup {x \in Promised(task) : x.container = c.name}
      BY <2>5 DEF ResolveFails
    <3>2. Owed(t, c) \in excused'
      <4>1. c \in Scraped(DefOf[t])
        BY <1>1, <1>6, <3>1 DEF Frames, TypeOK
      <4>2. Owed(t, c) \in Promised(t)
        BY <1>6, <4>1, PromisedIsOwed
      <4> QED BY <1>6, <3>1, <4>2, OwedHasName
    <3>3. pc' = "containers"
      BY <2>5 DEF ResolveFails
    <3> QED BY <2>3, <3>1, <3>2, <3>3
  <2> QED BY <2>1, <2>2, <2>4, <2>5
<1>7. CASE t = task /\ ~\A c \in Scraped(DefOf[t]) \ containers :
                          Supported(t) /\ Reachable(t) => Owed(t, c) \in targets \cup excused
  BY <1>1, <1>2, <1>3, <1>7, PromisedConstant DEF Accounted, Chunk, listing, chunk
<1> QED BY <1>4, <1>5, <1>6, <1>7

LEMMA NoneForgottenStep ==
  ASSUME Frames, NoneForgotten, [Next]_vars
  PROVE  NoneForgotten'
<1> SUFFICES ASSUME pc' # "failed", NEW t \in steady' PROVE Accounted(t)'
  BY DEF NoneForgotten
<1>1. pc # "failed"
  BY DEF Next, Answered, WorldChanges, DescribeCluster, ListServices, NextPage, DescribeServices,
       VisitService, Finish, ListTasks, NextService, DescribeTasks, DescribeContainerInstances,
       MachinesWanted, DescribeInstances, CachesFilled, SkipTask, UseCachedDefinition,
       FetchDefinition, NoDefinition, NextChunk, FargateTarget, UnplacedTask, Ec2Target,
       ResolveInstance, ResolveFails, NextTask, CallFails, vars
<1>2. Followed(t)
  BY <1>1, StartedGrows DEF NoneForgotten, Followed
<1>3. CASE UNCHANGED vars
  BY <1>2, <1>3, PromisedConstant
     DEF vars, listing, chunk, examined, result, Followed, Accounted, Owed, TargetOf,
         TargetPort, BindingsOf, Eni, OwnAddress, Scraped, Supported, Reachable
<1>4. CASE Finish
  BY <1>2, <1>4, PromisedConstant
     DEF Finish, Elsewhere, listing, result, Followed, Frames, Listings, Accounted, Chunk
<1>5. CASE CallFails
  BY <1>5 DEF CallFails
<1> QED
  BY <1>2, <1>3, <1>4, <1>5, WorldFollows, ListingFollows, FillingFollows, TaskFollows,
     ContainerFollows
  DEF Next, Answered, Builds

-----------------------------------------------------------------------------
(* The theorems *)

LEMMA Invariance == Spec => []IInv
<1>1. IInv /\ [Next]_vars => IInv'
  <2> SUFFICES ASSUME IInv, [Next]_vars PROVE IInv'
    OBVIOUS
  <2>1. Frames /\ Frames'
    BY StepFrames DEF IInv, Frames
  <2>2. NothingInvented' /\ DefinitionsFetchedOnce' /\ NoneForgotten'
    BY <2>1, NothingInventedStep, DefinitionsStep, NoneForgottenStep DEF IInv
  <2> QED BY <2>1, <2>2 DEF IInv, Frames
<1> QED BY <1>1, InitIInv, PTL DEF Spec

(* Every reachable state of a pass is well typed: in particular what is    *)
(* still to be asked for is never in a cache already, and the containers   *)
(* under examination are those of the task that is examined                *)
(* (discover_cluster_targets).                                             *)
THEOREM TypeCorrect == Spec => []TypeOK
<1>1. IInv => TypeOK
  BY DEF IInv
<1> QED BY <1>1, Invariance, PTL

(* A pass that ends well has found every scraped container of every task   *)
(* that ran throughout it, or warned of it, however AWS cuts its pages and *)
(* chunks and whatever else starts, stops and fails meanwhile              *)
(* (discover_cluster_targets, apply_page, the populate functions).         *)
THEOREM NothingForgotten == Spec => []FoundWhatStayed
<1>1. IInv => FoundWhatStayed
  <2> SUFFICES ASSUME IInv, pc = "done", NEW t \in steady
               PROVE  Promised(t) \subseteq targets \cup excused
    BY DEF FoundWhatStayed
  <2>1. Accounted(t)
    BY DEF IInv, NoneForgotten
  <2>2. serviceArns = {} /\ services = {} /\ taskArns = {}
    BY DEF IInv, Listings
  <2> QED BY <2>1, <2>2 DEF Accounted, Chunk
<1> QED BY <1>1, Invariance, PTL

(* Every target is one that a task which ran during the pass is owed, with *)
(* its own address, port, container instance and machine, although the     *)
(* caches are shared by all tasks (build_ec2_targets,                      *)
(* ec2_instance_from_cache, resolve_ec2_instance).                         *)
THEOREM TargetsAreOwed == Spec => []NothingInvented
<1>1. IInv => NothingInvented
  BY DEF IInv
<1> QED BY <1>1, Invariance, PTL

(* However many tasks share it, a task definition is asked for once in a   *)
(* pass, and once more for each call that failed                           *)
(* (get_task_definition_cached).                                           *)
THEOREM OneCallPerDefinition == Spec => []DefinitionsFetchedOnce
<1>1. IInv => DefinitionsFetchedOnce
  BY DEF IInv
<1> QED BY <1>1, Invariance, PTL
=============================================================================
