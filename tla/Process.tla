------------------------------- MODULE Process -------------------------------
(***************************************************************************)
(* The life of one ecs-sd process: from its arguments over the start-up    *)
(* and the two listeners to the shutdown, in which main waits for the      *)
(* requests under way, joins both background tasks and shuts the gossip    *)
(* node down if it holds the last reference to it.                         *)
(*                                                                         *)
(* The refresh loop and the clock are those of RefreshTimer.  The follower *)
(* sync does nothing here that takes time, and other references to the     *)
(* state than those of tasks and servers live no longer than a request.    *)
(***************************************************************************)
EXTENDS RefreshTimer, Configuration

CONSTANTS
  Arguments,     \* the command lines considered
  MaxRequest,    \* the longest that a request under way takes
  FailoverTime   \* thirty seconds, in units

ASSUME ProcessAssumption == MaxRequest \in Nat /\ FailoverTime \in Nat

(* Ratios are numbers, and None is no address. *)
ASSUME ArgumentsAssumption ==
  \A a \in Arguments :
    /\ a.dropRatio \subseteq Int
    /\ a.publicAddress # Absent => PublicAddress(a.publicAddress) # Absent

VARIABLES
  phase,     \* how far main has come
  exit,      \* how the process ended
  args,      \* its command line, until it is parsed
  settings,  \* what of the Config the rest of main reads
  gossip,    \* the chitchat node
  sync,      \* the follower sync task
  work       \* how long main's discovery, or the last request, still takes

main == <<phase, exit, args, settings, gossip, sync, work>>
vars == <<timerVars, main>>

Unparsed == [clustered |-> FALSE, metricsPort |-> Absent]

Init ==
  /\ TimerInit
  /\ phase = "args" /\ exit = "none"
  /\ args \in Arguments /\ settings = Unparsed
  /\ gossip = "off" /\ sync = "off" /\ work = 0

Exit(how) == phase' = "exited" /\ exit' = how

-----------------------------------------------------------------------------
(* Start-up *)

ParseArguments ==
  /\ phase = "args"
  /\ args' = Absent
  /\ IF Accepts(args)
       THEN /\ phase' = "region"
            /\ settings' = [clustered   |-> ConfigOf(args).clusterMode = "cluster",
                            metricsPort |-> ConfigOf(args).metricsPort]
            /\ UNCHANGED exit
       ELSE Exit("error") /\ UNCHANGED settings
  /\ UNCHANGED <<timerVars, gossip, sync, work>>

(* require_region, then the clients, whose construction cannot fail. *)
ResolveRegion ==
  /\ phase = "region"
  /\ \/ phase' = (IF settings.clustered THEN "gossip" ELSE "identity") /\ UNCHANGED exit
     \/ Exit("error")
  /\ UNCHANGED <<timerVars, args, settings, gossip, sync, work>>

StartGossip ==
  /\ phase = "gossip"
  /\ \/ phase' = "identity" /\ gossip' = "running" /\ leading' \in BOOLEAN /\ UNCHANGED exit
     \/ Exit("error") /\ UNCHANGED <<gossip, leading>>
  /\ UNCHANGED <<timing, tenure, begun, own, age, shutdown, since, args, settings, sync, work>>

(* AppState::new asks STS for the account. *)
AskIdentity ==
  /\ phase = "identity"
  /\ \/ phase' = "boot" /\ UNCHANGED exit
     \/ Exit("error")
  /\ UNCHANGED <<timerVars, args, settings, gossip, sync, work>>

BeginInitialDiscovery ==
  /\ phase = "boot"
  /\ IF leading
       THEN phase' = "discovering" /\ work' \in 0..MaxDiscovery /\ begun' = TRUE
       ELSE phase' = "spawn" /\ UNCHANGED <<work, begun>>
  /\ UNCHANGED <<timing, leading, tenure, own, age, shutdown, since,
                 exit, args, settings, gossip, sync>>

EndInitialDiscovery ==
  /\ phase = "discovering" /\ work = 0
  /\ phase' = "spawn"
  /\ \E ok \in BOOLEAN : Refreshed(ok)
  /\ UNCHANGED <<timing, leading, tenure, begun, shutdown, since,
                 exit, args, settings, gossip, sync, work>>

SpawnTasks ==
  /\ phase = "spawn"
  /\ phase' = "metrics"
  /\ SpawnLoop
  /\ sync' = IF settings.clustered THEN "running" ELSE "off"
  /\ UNCHANGED <<term, shutdown, since, exit, args, settings, gossip, work>>

BindMetrics ==
  /\ phase = "metrics"
  /\ \/ phase' = "listen" /\ UNCHANGED exit
     \/ settings.metricsPort # Absent /\ Exit("error")
  /\ UNCHANGED <<timerVars, args, settings, gossip, sync, work>>

(* The port of the metrics listener is no longer free for the other. *)
BindListen ==
  /\ phase = "listen"
  /\ \/ settings.metricsPort # "listen" /\ phase' = "serving" /\ UNCHANGED exit
     \/ Exit("error")
  /\ UNCHANGED <<timerVars, args, settings, gossip, sync, work>>

(* Signal handlers are installed with the server: until then SIGTERM kills. *)
Killed ==
  /\ phase \notin {"serving", "draining", "joinRefresh", "joinSync", "leave", "exited"}
  /\ Exit("signal")
  /\ UNCHANGED <<timerVars, args, settings, gossip, sync, work>>

-----------------------------------------------------------------------------
(* Shutdown *)

Signal ==
  /\ phase = "serving"
  /\ phase' = "draining"
  /\ shutdown' = TRUE
  /\ work' \in 0..MaxRequest
  /\ UNCHANGED <<timing, term, since, exit, args, settings, gossip, sync>>

Drained ==
  /\ phase = "draining" /\ work = 0
  /\ phase' = "joinRefresh"
  /\ UNCHANGED <<timerVars, exit, args, settings, gossip, sync, work>>

SyncStops ==
  /\ sync = "running" /\ shutdown
  /\ sync' = "stopped"
  /\ UNCHANGED <<timerVars, phase, exit, args, settings, gossip, work>>

JoinRefresh ==
  /\ phase = "joinRefresh" /\ loop = "stopped"
  /\ phase' = "joinSync"
  /\ UNCHANGED <<timerVars, exit, args, settings, gossip, sync, work>>

(* The faulty variant does not wait. *)
NotAwaited == TRUE
SyncEnded == sync # "running"

JoinSync ==
  /\ phase = "joinSync" /\ SyncEnded
  /\ phase' = "leave"
  /\ UNCHANGED <<timerVars, exit, args, settings, gossip, sync, work>>

(* Who else holds the Arc of the ClusterState: a task or server with a     *)
(* clone of the AppState.  The metrics server is never told to stop.       *)
Holders ==
  (IF loop \notin {"off", "stopped"} THEN {"refresh"} ELSE {})
    \cup (IF sync = "running" THEN {"sync"} ELSE {})
    \cup (IF settings.metricsPort # Absent THEN {"metrics"} ELSE {})

(* Arc::try_unwrap, and the handle's shutdown. *)
Leave ==
  /\ phase = "leave"
  /\ gossip' = IF settings.clustered /\ Holders = {} THEN "shutDown" ELSE gossip
  /\ Exit("ok")
  /\ UNCHANGED <<timerVars, args, settings, sync, work>>

-----------------------------------------------------------------------------
Startup == ParseArguments \/ ResolveRegion \/ StartGossip \/ AskIdentity
           \/ BeginInitialDiscovery \/ EndInitialDiscovery \/ SpawnTasks
           \/ BindMetrics \/ BindListen
Shutdown == Drained \/ SyncStops \/ JoinRefresh \/ JoinSync \/ Leave

(* The loop runs as long as the process does. *)
Loop == phase # "exited" /\ LoopSteps /\ UNCHANGED main
Elects == phase # "exited" /\ gossip = "running" /\ LeadershipChanges /\ UNCHANGED main

(* Some step is possible now and is taken before time goes on. *)
Urgent ==
  \/ LoopUrgent
  \/ sync = "running" /\ shutdown
  \/ phase \in {"discovering", "draining"} /\ work = 0
  \/ phase = "joinRefresh" /\ loop = "stopped"
  \/ phase = "joinSync" /\ SyncEnded
  \/ phase \notin {"discovering", "serving", "draining", "joinRefresh", "joinSync"}

Tick ==
  /\ phase # "exited" /\ ~Urgent
  /\ TimePasses
  /\ work' = Later(work)
  /\ UNCHANGED <<phase, exit, args, settings, gossip, sync>>

Ended == phase = "exited" /\ UNCHANGED vars

Next == Startup \/ Killed \/ Signal \/ Shutdown \/ Loop \/ Elects \/ Tick \/ Ended

Spec == Init /\ [][Next]_vars

-----------------------------------------------------------------------------
(* Properties *)

(* What try_from_args lets through is what the other modules assume of a   *)
(* configuration: its checks look at the arguments, before they are        *)
(* rounded to seconds and normalised (Config::try_from_args).              *)
AcceptedConfigSound == phase = "args" /\ Accepts(args) => Sound(ConfigOf(args))

(* A process that got its signal while it served is gone after the longest *)
(* of a jittered period, a discovery and a request: none of the joins of   *)
(* main waits for a task that missed the signal or begins anew             *)
(* (shutdown_signal, spawn_background_refresh).                            *)
ExitBounded ==
  since <= AtLeast(AtLeast(AtLeast(Period + Jitter, LeastDelay), MaxDiscovery), MaxRequest)

(* After an orderly end the gossip node has been shut down, except beside  *)
(* a metrics server, which holds its last reference (main).                *)
LeavesUnlessMetricsServer ==
  exit = "ok" /\ settings.clustered =>
    (gossip = "shutDown" <=> settings.metricsPort = Absent)

(* The documented failover (cluster-mode.md:197): the new leader performs  *)
(* its first discovery at T+20-30s, with T+15s for its election.           *)
DiscoversSoonAfterTakeover == tenure <= FailoverTime
=============================================================================
