--------------------------- MODULE ProcessProofs ---------------------------
(***************************************************************************)
(* What the refresh timer and the process promise, for all periods,        *)
(* jitters and durations.                                                  *)
(*                                                                         *)
(* None of the four bounds is inductive: how old the cache may get depends *)
(* on how far the loop has come.  Waiting and Sleeping say, for each place *)
(* at which the loop can stand, what its histories add up to with the time *)
(* that is still to pass there; Phases says where main can stand then.     *)
(***************************************************************************)
EXTENDS Process, TLAPS

BeforeSpawn == {"args", "region", "gossip", "identity", "boot", "discovering", "spawn"}
Running == {"metrics", "listen", "serving"}
Leaving == {"draining", "joinRefresh", "joinSync", "leave"}

TypeOK ==
  /\ loop \in {"off", "waiting", "sleeping", "discovering", "stopped"}
  /\ left \in Nat /\ due \in BOOLEAN /\ grid \in 1..Period
  /\ leading \in BOOLEAN /\ begun \in BOOLEAN /\ own \in BOOLEAN
  /\ tenure \in Nat /\ age \in Nat /\ since \in Nat /\ work \in Nat
  /\ shutdown \in BOOLEAN
  /\ phase \in BeforeSpawn \cup Running \cup Leaving \cup {"exited"}
  /\ exit \in {"none", "error", "signal", "ok"}
  /\ gossip \in {"off", "running", "shutDown"}
  /\ sync \in {"off", "running", "stopped"}

(* Where main stands, and what of the loop, the signal and the end that    *)
(* tells.                                                                  *)
Phases ==
  /\ phase \in BeforeSpawn => loop = "off"
  /\ phase \in Running \cup Leaving => loop # "off"
  /\ phase \in BeforeSpawn \cup Running => ~shutdown
  /\ phase \in Leaving => shutdown
  /\ phase \in {"joinSync", "leave"} => loop = "stopped"
  /\ phase = "leave" => sync # "running"
  /\ loop = "stopped" => shutdown
  /\ exit = "ok" => phase = "exited"
  /\ gossip = "shutDown" => phase = "exited"

(* Only a leader has a tenure and a cache of its own; what it has begun is *)
(* no longer counted, nor is anything before the loop exists.              *)
Histories ==
  /\ begun \/ ~leading \/ loop = "off" => tenure = 0
  /\ own => leading
  /\ own /\ loop = "off" => age = 0 /\ phase \in {"spawn", "exited"}
  /\ ~shutdown => since = 0

Longest == AtLeast(Period, MaxDiscovery)

(* The loop waits: a leader that discovered before has at most the jitter  *)
(* to wait for the next multiple of the period.                            *)
Waiting ==
  loop = "waiting" =>
    /\ due => (own => age <= Jitter) /\ tenure <= Longest
    /\ ~due => (own => age + grid <= Jitter) /\ tenure + grid <= Longest
    /\ since = 0

(* It sleeps: the next multiple is less than the jitter beyond the end.    *)
Sleeping ==
  loop = "sleeping" =>
    /\ ~due => grid <= left + Jitter
    /\ own => age + left <= Period + 2 * Jitter
    /\ tenure + left <= Longest + Period + Jitter
    /\ since + left <= Period + Jitter

(* It discovers: a term that began meanwhile is no older than the          *)
(* discovery.                                                              *)
Discovering ==
  loop = "discovering" =>
    /\ ~due => tenure + grid <= Jitter
    /\ own => age + left <= Period + 2 * Jitter + MaxDiscovery
    /\ tenure + left <= MaxDiscovery
    /\ since + left <= MaxDiscovery

Draining == phase = "draining" => since + work <= MaxRequest

IInv ==
  /\ TypeOK /\ Phases /\ Histories
  /\ Waiting /\ Sleeping /\ Discovering /\ Draining
  /\ AgeBounded /\ TakeoverBounded /\ ExitBounded /\ LeavesUnlessMetricsServer

-----------------------------------------------------------------------------
(* The steps *)

LEMMA DelayBounds ==
  ASSUME NEW d \in Delays
  PROVE  d \in Nat /\ Period <= d + Jitter /\ d <= Period + Jitter
BY TimesAssumption DEF Delays, AtLeast

LEMMA LaterType == ASSUME NEW n \in Nat PROVE Later(n) \in Nat /\ (n > 0 => Later(n) = n - 1)
BY DEF Later

LEMMA Durations ==
  /\ Period \in Nat /\ Period > 0 /\ Jitter \in Nat /\ Jitter <= Period
  /\ MaxDiscovery \in Nat /\ MaxRequest \in Nat
  /\ Longest \in Nat /\ Period <= Longest /\ MaxDiscovery <= Longest
BY TimesAssumption, ProcessAssumption DEF Longest, AtLeast

(* Both bounds hold of a history that has just begun. *)
LEMMA Bounds ==
  /\ tenure = 0 => TakeoverBounded
  /\ since = 0 => ExitBounded
BY TimesAssumption, ProcessAssumption DEF TakeoverBounded, ExitBounded, AtLeast

LEMMA InitIInv == Init => IInv
<1> SUFFICES ASSUME Init PROVE IInv
  OBVIOUS
<1> USE Durations DEF Init, TimerInit
<1>1. TypeOK
  <2>1. Period \in 1..Period /\ 0 \in Nat
    OBVIOUS
  <2> QED BY <2>1, Zenon DEF TypeOK, BeforeSpawn
<1>2. Phases
  BY DEF Phases, BeforeSpawn, Running, Leaving
<1>3. Histories /\ Waiting /\ Sleeping /\ Discovering /\ Draining /\ AgeBounded
  BY DEF Histories, Waiting, Sleeping, Discovering, Draining, AgeBounded
<1>4. TakeoverBounded /\ ExitBounded /\ LeavesUnlessMetricsServer
  BY Bounds DEF LeavesUnlessMetricsServer
<1> QED BY <1>1, <1>2, <1>3, <1>4 DEF IInv

(* What main does besides the clock and the loop. *)
LEMMA MainSteps ==
  ASSUME IInv,
         ParseArguments \/ ResolveRegion \/ AskIdentity \/ BindMetrics \/ BindListen
           \/ Killed \/ Drained \/ SyncStops \/ JoinRefresh \/ JoinSync
  PROVE  IInv'
<1> USE DEF IInv, ParseArguments, ResolveRegion, AskIdentity, BindMetrics, BindListen, Killed,
       Drained, SyncStops, JoinRefresh, JoinSync, SyncEnded, Exit, timerVars, timing, term
<1>1. TypeOK'
  BY DEF TypeOK, BeforeSpawn, Running, Leaving
<1>2. Phases'
  BY DEF Phases, TypeOK, BeforeSpawn, Running, Leaving
<1>3. Histories'
  BY DEF Phases, Histories, BeforeSpawn
<1>4. (Waiting /\ Sleeping /\ Discovering /\ AgeBounded /\ TakeoverBounded /\ ExitBounded)'
  BY DEF Waiting, Sleeping, Discovering, AgeBounded, TakeoverBounded, ExitBounded, Longest
<1>5. Draining'
  BY DEF Draining
<1>6. LeavesUnlessMetricsServer'
  BY DEF LeavesUnlessMetricsServer, Phases
<1> QED BY <1>1, <1>2, <1>3, <1>4, <1>5, <1>6

(* Leadership: a new term starts all its histories anew. *)
LEMMA LeadershipSteps ==
  ASSUME IInv, StartGossip \/ Elects
  PROVE  IInv'
<1> USE Durations DEF IInv, StartGossip, Elects, LeadershipChanges, Exit, timing, main
<1>0. tenure' \in {0, tenure} /\ age' \in {0, age}
  OBVIOUS
<1>1. TypeOK'
  <2>1. leading' \in BOOLEAN /\ begun' \in BOOLEAN /\ own' \in BOOLEAN
    BY Zenon DEF TypeOK
  <2>2. phase' \in {phase, "identity", "exited"} /\ exit' \in {exit, "error"}
        /\ gossip' \in {gossip, "running"} /\ UNCHANGED <<timing, since, shutdown, sync, work>>
    BY Zenon
  <2> QED BY <1>0, <2>1, <2>2 DEF TypeOK, BeforeSpawn
<1>2. Phases' /\ Histories'
  BY DEF Phases, Histories, TypeOK, BeforeSpawn, Running, Leaving
<1>3. (Waiting /\ Sleeping /\ Discovering)'
  BY DEF Waiting, Sleeping, Discovering, Phases, TypeOK, BeforeSpawn, Longest
<1>4. (Draining /\ AgeBounded /\ ExitBounded /\ LeavesUnlessMetricsServer)'
  BY DEF Draining, AgeBounded, ExitBounded, LeavesUnlessMetricsServer, Phases
<1>5. TakeoverBounded'
  <2>1. 0 <= AtLeast(Period, MaxDiscovery) + Period + Jitter
    BY DEF AtLeast
  <2> QED BY <1>0, <2>1 DEF TakeoverBounded
<1> QED BY <1>1, <1>2, <1>3, <1>4, <1>5

(* The discovery of main, before the loop exists. *)
LEMMA InitialDiscoverySteps ==
  ASSUME IInv, BeginInitialDiscovery \/ EndInitialDiscovery
  PROVE  IInv'
<1> USE Durations DEF IInv, BeginInitialDiscovery, EndInitialDiscovery, Refreshed, timing
<1>0. own' \in BOOLEAN /\ begun' \in BOOLEAN /\ age' \in {0, age} /\ work' \in Nat
  <2>1. own' \in BOOLEAN /\ begun' \in BOOLEAN /\ age' \in {0, age}
    BY Zenon DEF TypeOK
  <2>2. work' \in Nat
    BY DEF TypeOK
  <2> QED BY <2>1, <2>2
<1>1. TypeOK'
  BY <1>0 DEF TypeOK, BeforeSpawn, Running, Leaving
<1>2. Phases'
  BY DEF Phases, TypeOK, BeforeSpawn, Running, Leaving
<1>3. Histories'
  BY DEF Phases, Histories, TypeOK, BeforeSpawn
<1>4. (Waiting /\ Sleeping /\ Discovering)'
  BY DEF Waiting, Sleeping, Discovering, Phases, BeforeSpawn
<1>5. (Draining /\ AgeBounded /\ TakeoverBounded /\ ExitBounded /\ LeavesUnlessMetricsServer)'
  BY DEF Draining, AgeBounded, TakeoverBounded, ExitBounded, LeavesUnlessMetricsServer, Phases
<1> QED BY <1>1, <1>2, <1>3, <1>4, <1>5

LEMMA SpawnStep ==
  ASSUME IInv, SpawnTasks
  PROVE  IInv'
<1> USE Durations DEF IInv, SpawnTasks, SpawnLoop, term
<1>1. TypeOK'
  BY DEF TypeOK, BeforeSpawn, Running, Leaving
<1>2. Phases'
  BY DEF Phases, TypeOK, BeforeSpawn, Running, Leaving
<1>3. (Histories /\ Waiting /\ Sleeping /\ Discovering)'
  BY DEF Phases, Histories, Waiting, Sleeping, Discovering, TypeOK, BeforeSpawn, Longest
<1>4. (Draining /\ AgeBounded /\ TakeoverBounded /\ ExitBounded /\ LeavesUnlessMetricsServer)'
  BY DEF Draining, AgeBounded, TakeoverBounded, ExitBounded, LeavesUnlessMetricsServer, Phases
<1> QED BY <1>1, <1>2, <1>3, <1>4

LEMMA SignalStep ==
  ASSUME IInv, Signal
  PROVE  IInv'
<1> USE Durations DEF IInv, Signal, timing, term
<1>1. TypeOK'
  BY DEF TypeOK, BeforeSpawn, Running, Leaving
<1>2. (Phases /\ Histories)'
  BY DEF Phases, Histories, TypeOK, BeforeSpawn, Running, Leaving
<1>3. (Waiting /\ Sleeping /\ Discovering)'
  BY DEF Waiting, Sleeping, Discovering, Longest
<1>4. Draining'
  <2>1. since' = 0
    BY DEF Phases, Histories, Running
  <2>2. PICK w \in 0..MaxRequest : work' = w
    OBVIOUS
  <2>3. since' + work' <= MaxRequest
    BY <2>1, <2>2
  <2> QED BY <2>3 DEF Draining
<1>5. (AgeBounded /\ TakeoverBounded /\ ExitBounded /\ LeavesUnlessMetricsServer)'
  BY DEF AgeBounded, TakeoverBounded, ExitBounded, LeavesUnlessMetricsServer, Phases
<1> QED BY <1>1, <1>2, <1>3, <1>4, <1>5

(* Main leaves when both tasks have ended: only the metrics server can     *)
(* still hold the gossip node.                                             *)
LEMMA LeaveStep ==
  ASSUME IInv, Leave
  PROVE  IInv'
<1> USE DEF IInv, Leave, Exit, timerVars, timing, term
<1>1. TypeOK'
  BY DEF TypeOK, BeforeSpawn, Running, Leaving
<1>2. (Phases /\ Histories)'
  BY DEF Phases, Histories, TypeOK, BeforeSpawn, Running, Leaving
<1>3. (Waiting /\ Sleeping /\ Discovering /\ Draining /\ AgeBounded
         /\ TakeoverBounded /\ ExitBounded)'
  BY DEF Waiting, Sleeping, Discovering, Draining, AgeBounded, TakeoverBounded, ExitBounded,
         Longest
<1>4. LeavesUnlessMetricsServer'
  <2>1. Holders = {} <=> settings.metricsPort = Absent
    BY DEF Holders, Phases
  <2>2. gossip # "shutDown"
    BY DEF Phases
  <2> QED BY <2>1, <2>2 DEF LeavesUnlessMetricsServer
<1> QED BY <1>1, <1>2, <1>3, <1>4

-----------------------------------------------------------------------------
(* The loop *)

LEMMA TakeTickStep ==
  ASSUME IInv, TakeTick, UNCHANGED main
  PROVE  IInv'
<1> USE Durations DEF IInv, TakeTick, term, main
<1>1. \/ loop' = "waiting" /\ left' = left /\ ~leading
      \/ leading /\ loop' = "sleeping" /\ left' \in Delays
  OBVIOUS
<1>2. left' \in Nat
  BY <1>1, DelayBounds DEF TypeOK
<1>3. TypeOK'
  BY <1>1, <1>2 DEF TypeOK
<1>4. (Phases /\ Histories)'
  BY <1>1 DEF Phases, Histories, TypeOK, BeforeSpawn, Running, Leaving
<1>5. Waiting'
  BY <1>1 DEF Waiting, Histories, TypeOK
<1>6. Sleeping'
  BY <1>1, DelayBounds DEF Sleeping, Waiting, TypeOK
<1>7. (Discovering /\ Draining /\ AgeBounded /\ TakeoverBounded /\ ExitBounded
         /\ LeavesUnlessMetricsServer)'
  BY <1>1 DEF Discovering, Draining, AgeBounded, TakeoverBounded, ExitBounded,
              LeavesUnlessMetricsServer
<1> QED BY <1>3, <1>4, <1>5, <1>6, <1>7

LEMMA SeeShutdownStep ==
  ASSUME IInv, SeeShutdown, UNCHANGED main
  PROVE  IInv'
<1> USE DEF IInv, SeeShutdown, term, main
<1>1. (TypeOK /\ Phases /\ Histories)'
  BY DEF TypeOK, Phases, Histories, BeforeSpawn, Running, Leaving
<1>2. (Waiting /\ Sleeping /\ Discovering /\ Draining)'
  BY DEF Waiting, Sleeping, Discovering, Draining
<1>3. (AgeBounded /\ TakeoverBounded /\ ExitBounded /\ LeavesUnlessMetricsServer)'
  BY DEF AgeBounded, TakeoverBounded, ExitBounded, LeavesUnlessMetricsServer
<1> QED BY <1>1, <1>2, <1>3

LEMMA WakeStep ==
  ASSUME IInv, Wake, UNCHANGED main
  PROVE  IInv'
<1> USE Durations DEF IInv, Wake, WakesTo, main
<1>1. \/ shutdown /\ loop' = "stopped" /\ left' = 0
      \/ ~shutdown /\ loop' = "discovering" /\ left' \in 0..MaxDiscovery
  OBVIOUS
<1>2. tenure' = 0 \/ tenure' = tenure
  OBVIOUS
<1>3. begun' \in BOOLEAN /\ (begun' => tenure' = 0)
  BY DEF TypeOK
<1>4. loop' = "discovering" => tenure' = 0
  BY <1>1 DEF Histories, TypeOK
<1>5. TypeOK'
  BY <1>1, <1>2, <1>3 DEF TypeOK
<1>6. Phases'
  BY <1>1 DEF Phases, BeforeSpawn, Running, Leaving
<1>7. Histories'
  BY <1>1, <1>2, <1>3 DEF Histories
<1>8. (Waiting /\ Sleeping /\ Draining /\ AgeBounded /\ ExitBounded /\ LeavesUnlessMetricsServer)'
  BY <1>1 DEF Waiting, Sleeping, Draining, AgeBounded, ExitBounded, LeavesUnlessMetricsServer
<1>9. Discovering'
  <2> SUFFICES ASSUME loop' = "discovering" PROVE Discovering'
    BY DEF Discovering
  <2>0. PICK d \in 0..MaxDiscovery : left' = d
    BY <1>1
  <2>1. tenure' = 0 /\ since = 0
    BY <1>1, <1>4 DEF Histories
  <2>2. (~due => grid <= Jitter) /\ (own => age <= Period + 2 * Jitter)
    BY DEF Sleeping, TypeOK
  <2>3. since' + left' <= MaxDiscovery /\ tenure' + left' <= MaxDiscovery
    BY <2>0, <2>1
  <2>4. ~due' => tenure' + grid' <= Jitter
    BY <2>1, <2>2 DEF TypeOK
  <2>5. own' => age' + left' <= Period + 2 * Jitter + MaxDiscovery
    BY <2>0, <2>2 DEF TypeOK
  <2> QED BY <2>3, <2>4, <2>5 DEF Discovering
<1>10. TakeoverBounded'
  <2>1. 0 <= AtLeast(Period, MaxDiscovery) + Period + Jitter
    BY DEF AtLeast
  <2> QED BY <1>2, <2>1 DEF TakeoverBounded
<1> QED BY <1>5, <1>6, <1>7, <1>8, <1>9, <1>10

LEMMA DiscoveryEndsStep ==
  ASSUME IInv, DiscoveryEnds, UNCHANGED main
  PROVE  IInv'
<1> USE Durations DEF IInv, DiscoveryEnds, Refreshed, main
<1>1. own' \in BOOLEAN /\ (own' => leading)
  BY Zenon DEF TypeOK
<1>2. TypeOK'
  BY <1>1 DEF TypeOK
<1>3. (Phases /\ Histories)'
  BY <1>1 DEF Phases, Histories, BeforeSpawn, Running, Leaving
<1>4. Waiting'
  BY DEF Waiting, Discovering, Histories, TypeOK
<1>5. (Sleeping /\ Discovering /\ Draining /\ AgeBounded /\ TakeoverBounded /\ ExitBounded
         /\ LeavesUnlessMetricsServer)'
  BY DEF Sleeping, Discovering, Draining, AgeBounded, TakeoverBounded, ExitBounded,
         LeavesUnlessMetricsServer
<1> QED BY <1>2, <1>3, <1>4, <1>5

-----------------------------------------------------------------------------
(* The clock *)

(* Time passes only where main and the loop wait for nothing but time, and *)
(* after the signal one of them has some of its time still before it.      *)
LEMMA TickWaits ==
  ASSUME IInv, Tick
  PROVE  /\ loop # "off" => phase \in {"serving", "draining", "joinRefresh"}
         /\ loop = "waiting" => ~due /\ ~shutdown
         /\ loop \in {"sleeping", "discovering"} => left > 0
         /\ phase = "draining" => work > 0
         /\ shutdown => phase = "draining" \/ loop \in {"sleeping", "discovering"}
         /\ loop = "off" => ~shutdown /\ ~own
BY DEF IInv, Tick, Urgent, LoopUrgent, SyncEnded, TypeOK, Phases, Histories,
       BeforeSpawn, Running, Leaving

(* Where a history that is not empty can have grown. *)
Growing ==
  /\ own /\ age # 0 => loop \in {"waiting", "sleeping", "discovering"}
  /\ tenure # 0 => loop \in {"waiting", "sleeping", "discovering"}
  /\ since # 0 => phase = "draining" \/ loop \in {"sleeping", "discovering"}

LEMMA BoundsFollow ==
  TypeOK /\ Waiting /\ Sleeping /\ Discovering /\ Draining /\ Growing
    => AgeBounded /\ TakeoverBounded /\ ExitBounded
<1> SUFFICES ASSUME TypeOK, Waiting, Sleeping, Discovering, Draining, Growing
             PROVE  AgeBounded /\ TakeoverBounded /\ ExitBounded
  OBVIOUS
<1> USE Durations
<1>1. AgeBounded
  BY DEF TypeOK, Waiting, Sleeping, Discovering, Growing, AgeBounded
<1>2. TakeoverBounded
  <2>1. tenure <= Longest + Period + Jitter
    BY DEF TypeOK, Waiting, Sleeping, Discovering, Growing
  <2> QED BY <2>1 DEF TakeoverBounded, Longest
<1>3. ExitBounded
  <2>1. \/ since = 0 \/ since <= Period + Jitter
        \/ since <= MaxDiscovery \/ since <= MaxRequest
    BY DEF TypeOK, Sleeping, Discovering, Draining, Growing
  <2> QED BY <2>1, TimesAssumption DEF TypeOK, ExitBounded, AtLeast
<1> QED BY <1>1, <1>2, <1>3

LEMMA TickStep ==
  ASSUME IInv, Tick
  PROVE  IInv'
<1> USE Durations DEF IInv
<1>1. /\ UNCHANGED <<loop, leading, begun, own, shutdown, phase, exit, settings, gossip, sync>>
      /\ left' = Later(left) /\ work' = Later(work)
      /\ left' \in Nat /\ work' \in Nat
  BY LaterType DEF Tick, TimePasses, TypeOK
<1>2. due' \in BOOLEAN /\ grid' \in 1..Period
  <2>1. grid' \in 1..Period
    BY DEF Tick, TimePasses, TypeOK
  <2>2. due' \in BOOLEAN
    BY Zenon DEF Tick, TimePasses, TypeOK
  <2> QED BY <2>1, <2>2
<1>3. loop \notin {"off", "stopped"} /\ ~due' => grid' = grid - 1 /\ ~due
  BY DEF Tick, TimePasses
<1>4. /\ tenure' = 0 \/ tenure' = tenure + 1
      /\ begun \/ ~leading \/ loop = "off" => tenure' = 0
  BY DEF Tick, TimePasses
<1>5. age' = 0 \/ (age' = age + 1 /\ own)
  BY DEF Tick, TimePasses
<1>6. since' = IF shutdown THEN since + 1 ELSE 0
  BY DEF Tick, TimePasses
<1>7. TypeOK'
  BY <1>1, <1>2, <1>4, <1>5, <1>6 DEF TypeOK
<1>8. (Phases /\ Histories)'
  BY <1>1, <1>4, <1>5, <1>6, TickWaits DEF Phases, Histories
<1>9. ASSUME loop = "waiting" PROVE Waiting'
  <2>1. ~due /\ since' = 0
    BY <1>6, <1>9, TickWaits
  <2>2. CASE due'
    <3>1. grid >= 1
      BY DEF TypeOK
    <3>2. own => age' <= Jitter
      BY <1>5, <1>9, <2>1, <3>1 DEF Waiting, TypeOK
    <3>3. tenure' <= Longest
      BY <1>4, <1>9, <2>1, <3>1 DEF Waiting, TypeOK
    <3> QED BY <1>1, <2>1, <2>2, <3>2, <3>3 DEF Waiting
  <2>3. CASE ~due'
    <3>1. grid' = grid - 1 /\ grid \in Nat
      BY <1>3, <1>9, <2>3 DEF TypeOK
    <3>2. own => age' + grid' <= Jitter
      BY <1>5, <1>9, <2>1, <3>1 DEF Waiting, TypeOK
    <3>3. tenure' + grid' <= Longest
      BY <1>4, <1>9, <2>1, <3>1 DEF Waiting, TypeOK
    <3> QED BY <1>1, <2>1, <2>3, <3>2, <3>3 DEF Waiting
  <2> QED BY <2>2, <2>3
<1>10. ASSUME loop = "sleeping" PROVE Sleeping'
  BY <1>1, <1>3, <1>4, <1>5, <1>6, <1>10, TickWaits, LaterType DEF Sleeping, TypeOK, Histories
<1>11. ASSUME loop = "discovering" PROVE Discovering'
  <2>1. left' = left - 1 /\ left \in Nat
    BY <1>1, <1>11, TickWaits, LaterType DEF TypeOK
  <2>2. ~due' => tenure' + grid' <= Jitter
    BY <1>2, <1>3, <1>4, <1>11 DEF Discovering, TypeOK
  <2>3. own => age' + left' <= Period + 2 * Jitter + MaxDiscovery
    BY <1>5, <1>11, <2>1 DEF Discovering, TypeOK
  <2>4. tenure' + left' <= MaxDiscovery
    BY <1>4, <1>11, <2>1 DEF Discovering, TypeOK
  <2>5. since' + left' <= MaxDiscovery
    BY <1>6, <1>11, <2>1 DEF Discovering, TypeOK, Histories
  <2> QED BY <1>1, <2>2, <2>3, <2>4, <2>5 DEF Discovering
<1>12. Waiting' /\ Sleeping' /\ Discovering'
  BY <1>1, <1>9, <1>10, <1>11 DEF Waiting, Sleeping, Discovering
<1>13. Draining'
  BY <1>1, <1>6, TickWaits, LaterType DEF Draining, TypeOK, Phases, Leaving
<1>14. Growing'
  BY <1>1, <1>4, <1>6, TickWaits DEF Growing, Tick, TimePasses, TypeOK, Phases
<1>15. (AgeBounded /\ TakeoverBounded /\ ExitBounded)'
  BY <1>7, <1>12, <1>13, <1>14, BoundsFollow, PTL
<1>16. LeavesUnlessMetricsServer'
  BY <1>1 DEF LeavesUnlessMetricsServer
<1> QED BY <1>7, <1>8, <1>12, <1>13, <1>15, <1>16

-----------------------------------------------------------------------------
(* The theorems *)

LEMMA StepIInv == IInv /\ [Next]_vars => IInv'
<1> SUFFICES ASSUME IInv, [Next]_vars PROVE IInv'
  OBVIOUS
<1>1. CASE Startup
  BY <1>1, MainSteps, LeadershipSteps, InitialDiscoverySteps, SpawnStep DEF Startup
<1>2. CASE Shutdown
  BY <1>2, MainSteps, LeaveStep DEF Shutdown
<1>3. CASE Killed
  BY <1>3, MainSteps
<1>4. CASE Loop
  BY <1>4, TakeTickStep, SeeShutdownStep, WakeStep, DiscoveryEndsStep DEF Loop, LoopSteps
<1>5. CASE UNCHANGED vars
  BY <1>5 DEF vars, timerVars, timing, term, main, IInv, TypeOK, Phases, Histories, Waiting,
              Sleeping, Discovering, Draining, AgeBounded, TakeoverBounded, ExitBounded,
              LeavesUnlessMetricsServer, Longest
<1> QED
  BY <1>1, <1>2, <1>3, <1>4, <1>5, LeadershipSteps, SignalStep, TickStep DEF Next, Ended

LEMMA Invariance == Spec => []IInv
BY InitIInv, StepIInv, PTL DEF Spec

(* The variables of the timer and of main keep to their types: durations   *)
(* never go below zero, and the loop, main, the gossip node and the sync   *)
(* task are in one of their states.                                        *)
THEOREM TypeCorrect == Spec => []TypeOK
<1>1. IInv => TypeOK
  BY DEF IInv
<1> QED BY <1>1, Invariance, PTL

(* Whatever the refresh interval, the jitter and the length of a           *)
(* discovery, the cache of a leader whose calls succeed is no older than   *)
(* an interval, twice the jitter and a discovery, although missed ticks    *)
(* are skipped (create_refresh_interval, calculate_jittered_delay).        *)
THEOREM LeaderStaysFresh == Spec => []AgeBounded
<1>1. IInv => AgeBounded
  BY DEF IInv
<1> QED BY <1>1, Invariance, PTL

(* A node that takes over begins to discover in time, however its term     *)
(* falls into the ticks, the sleeps and the discoveries of the loop it     *)
(* already runs (spawn_background_refresh).                                *)
THEOREM TakeoverInTime == Spec => []TakeoverBounded
<1>1. IInv => TakeoverBounded
  BY DEF IInv
<1> QED BY <1>1, Invariance, PTL

(* From the signal to the end of main the longest of a jittered interval,  *)
(* a discovery and a request passes: the waits of main for its requests    *)
(* and for its two tasks do not add up (main, shutdown_signal).            *)
THEOREM ShutdownInTime == Spec => []ExitBounded
<1>1. IInv => ExitBounded
  BY DEF IInv
<1> QED BY <1>1, Invariance, PTL

(* The order in which main joins its tasks leaves the metrics server as    *)
(* the only one that can keep the gossip node from being shut down (main). *)
THEOREM OrderlyLeave == Spec => []LeavesUnlessMetricsServer
<1>1. IInv => LeavesUnlessMetricsServer
  BY DEF IInv
<1> QED BY <1>1, Invariance, PTL

-----------------------------------------------------------------------------
(* The configuration *)

LEMMA PublicAddressSound ==
  ASSUME NEW a \in Arguments, GoodAddress(a.mode, a.publicAddress), a.mode = "proxy"
  PROVE  /\ PublicAddress(a.publicAddress) # Absent
         /\ PublicScheme(a.publicAddress) \in {"http", "https"}
<1>1. a.publicAddress # Absent
  BY DEF GoodAddress
<1> QED BY <1>1, ArgumentsAssumption DEF GoodAddress, PublicScheme

(* Each check looks at an argument and has to rule out what the value made *)
(* of it must not be.                                                      *)
LEMMA AcceptedIsSound == ASSUME NEW a \in Arguments, Accepts(a) PROVE Sound(ConfigOf(a))
<1> DEFINE c == ConfigOf(a)
<1>1. c.clusters # {} /\ "" \notin c.clusters
  BY DEF Accepts, ConfigOf, Entries
<1>2. c.refreshInterval >= 1 /\ c.refreshMinInterval >= 1
  BY DEF Accepts, ConfigOf, GoodInterval
<1>3. c.mode = "proxy" =>
        c.publicAddress # Absent /\ c.publicScheme \in {"http", "https"}
  BY PublicAddressSound DEF Accepts, ConfigOf
<1>4. c.dropRatio \subseteq 0..100
  <2>1. a.dropRatio \subseteq Int /\ ~ \E x \in a.dropRatio : x < 0 \/ x > 100
    BY ArgumentsAssumption DEF Accepts, GoodRatio
  <2>2. a.dropRatio \subseteq 0..100
    BY <2>1
  <2> QED BY <2>2 DEF ConfigOf
<1> HIDE DEF c
<1> QED BY <1>1, <1>2, <1>3, <1>4 DEF Sound, c

(* Whatever a process is started with, a configuration that its parser     *)
(* lets through is what discovery, the rate limit, the cache and the proxy *)
(* assume (Config::try_from_args).                                         *)
THEOREM ConfigurationSound == Spec => []AcceptedConfigSound
<1> DEFINE Given == phase = "args" => args \in Arguments
<1>1. Init => Given
  BY DEF Init
<1>2. Given /\ [Next]_vars => Given'
  <2> SUFFICES ASSUME Given, [Next]_vars PROVE phase' = "args" => args' \in Arguments
    OBVIOUS
  <2>1. CASE Startup \/ Killed \/ Signal \/ Shutdown
    <3>1. phase' # "args" \/ (phase' = phase /\ args' = args)
      BY <2>1 DEF Startup, Killed, Signal, Shutdown, ParseArguments, ResolveRegion,
                  StartGossip, AskIdentity, BeginInitialDiscovery, EndInitialDiscovery,
                  SpawnTasks, BindMetrics, BindListen, Drained, SyncStops, JoinRefresh,
                  JoinSync, Leave, Exit
    <3> QED BY <3>1
  <2>2. CASE Loop \/ Elects \/ Tick \/ Ended \/ UNCHANGED vars
    BY <2>2 DEF Loop, Elects, Tick, Ended, vars, main
  <2> QED BY <2>1, <2>2 DEF Next
<1>3. Given => AcceptedConfigSound
  BY AcceptedIsSound DEF AcceptedConfigSound
<1> QED BY <1>1, <1>2, <1>3, PTL DEF Spec
=============================================================================
