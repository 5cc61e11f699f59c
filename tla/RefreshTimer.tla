---------------------------- MODULE RefreshTimer ----------------------------
(***************************************************************************)
(* The background refresh loop against the clock: a tokio interval that    *)
(* skips missed ticks, a jittered sleep after each tick of a leader, the   *)
(* discovery, and the shutdown signal that is looked at in between.        *)
(*                                                                         *)
(* Time passes in units; what is due happens before time goes on, as tokio *)
(* polls a task that can run without delay.  Of the interval's deadlines   *)
(* only two things matter: whether the next one has passed (due), and how  *)
(* long it is to the next multiple of the period after the loop was        *)
(* spawned (grid): with MissedTickBehavior::Skip every deadline is such a  *)
(* multiple.  Manual refreshes, which make the cache younger, are left to  *)
(* CacheNode.                                                              *)
(***************************************************************************)
EXTENDS Integers

CONSTANTS
  Period,        \* config.refresh_interval, in units
  Jitter,        \* a tenth of it
  LeastDelay,    \* one second
  MaxDiscovery   \* the longest that a discovery takes

ASSUME TimesAssumption ==
  /\ {Period, LeastDelay} \subseteq Nat \ {0} /\ LeastDelay <= Period
  /\ Jitter \in 0..Period /\ MaxDiscovery \in Nat

VARIABLES
  loop,      \* where the refresh loop stands
  left,      \* how long its sleep or discovery still takes
  due,       \* the interval's deadline has passed
  grid,      \* time until the next multiple of the period
  leading,   \* what is_leader answers
  tenure,    \* history: how long the node has led without discovering
  begun,     \* history: it has begun a discovery since it leads
  own,       \* history: the last refresh was its own and it led ever since
  age,       \* history: how long that refresh is ago
  shutdown,  \* the shutdown watch channel
  since      \* history: how long ago shutdown was signalled

timing == <<loop, left, due, grid>>
term == <<leading, tenure, begun, own, age>>
timerVars == <<timing, term, shutdown, since>>

AtLeast(a, b) == IF a < b THEN b ELSE a

-----------------------------------------------------------------------------
(* calculate_jittered_delay: the period give or take the jitter, one       *)
(* second at least.  The faulty variant adds the jitter and the period to  *)
(* a period that has passed already.                                       *)
DelaysOnTop == {AtLeast(Period + Period + j, LeastDelay) : j \in -Jitter..Jitter}
Delays == {AtLeast(Period + j, LeastDelay) : j \in -Jitter..Jitter}

TimerInit ==
  /\ loop = "off" /\ left = 0 /\ due = FALSE /\ grid = Period
  /\ leading = TRUE /\ tenure = 0 /\ begun = FALSE /\ own = FALSE
  /\ age = 0 /\ shutdown = FALSE /\ since = 0

(* The first tick of an interval completes immediately. *)
SpawnLoop == loop' = "waiting" /\ due' = TRUE /\ grid' = Period /\ left' = 0

(* The background task takes the tick.  A follower does nothing with it. *)
TakeTick ==
  /\ loop = "waiting" /\ due /\ ~shutdown
  /\ due' = FALSE
  /\ IF leading
       THEN loop' = "sleeping" /\ left' \in Delays
       ELSE UNCHANGED <<loop, left>>
  /\ UNCHANGED <<grid, term, shutdown, since>>

(* select! takes the tick or the changed channel: both leave the loop. *)
SeeShutdown ==
  /\ loop = "waiting" /\ shutdown
  /\ loop' = "stopped"
  /\ UNCHANGED <<left, due, grid, term, shutdown, since>>

(* After the sleep shutdown is looked at, leadership is not.  The faulty   *)
(* variant goes on to discover.                                            *)
WakesAnyway == "discovering"
WakesTo == IF shutdown THEN "stopped" ELSE "discovering"

Wake ==
  /\ loop = "sleeping" /\ left = 0
  /\ loop' = WakesTo
  /\ left' \in (IF WakesTo = "stopped" THEN {0} ELSE 0..MaxDiscovery)
  /\ begun' = (begun \/ (leading /\ WakesTo = "discovering"))
  /\ tenure' = IF begun' THEN 0 ELSE tenure
  /\ UNCHANGED <<due, grid, leading, own, age, shutdown, since>>

(* refresh_cache_once returns, and the refresh has installed its result,   *)
(* or has failed and the cache remains.                                    *)
Refreshed(ok) ==
  /\ own' = (ok /\ leading)
  /\ age' = 0

DiscoveryEnds ==
  /\ loop = "discovering" /\ left = 0
  /\ loop' = IF shutdown THEN "stopped" ELSE "waiting"
  /\ \E ok \in BOOLEAN : Refreshed(ok)
  /\ UNCHANGED <<left, due, grid, leading, tenure, begun, shutdown, since>>

(* The node's answer to is_leader changes; a standalone node has none. *)
LeadershipChanges ==
  /\ leading' = ~leading
  /\ tenure' = 0 /\ begun' = FALSE /\ own' = FALSE /\ age' = 0
  /\ UNCHANGED <<timing, shutdown, since>>

LoopSteps == TakeTick \/ SeeShutdown \/ Wake \/ DiscoveryEnds

(* The loop has something to do at this moment. *)
LoopUrgent ==
  \/ loop = "waiting" /\ (due \/ shutdown)
  \/ loop \in {"sleeping", "discovering"} /\ left = 0

(* One unit of time, for the loop and the histories. *)
Later(n) == IF n = 0 THEN 0 ELSE n - 1
TimePasses ==
  /\ left' = Later(left)
  /\ grid' = IF loop \in {"off", "stopped"} THEN grid
             ELSE IF grid = 1 THEN Period ELSE grid - 1
  /\ due' = (due \/ (loop \notin {"off", "stopped"} /\ grid = 1))
  /\ tenure' = IF leading /\ ~begun /\ ~shutdown /\ loop # "off" THEN tenure + 1 ELSE 0
  /\ age' = IF own /\ ~shutdown THEN age + 1 ELSE 0
  /\ since' = IF shutdown THEN since + 1 ELSE 0
  /\ UNCHANGED <<loop, leading, begun, own, shutdown>>

-----------------------------------------------------------------------------
(* Properties *)

(* Skipped ticks and the jitter never keep a leader whose calls succeed    *)
(* from refreshing: its cache is at most a period, twice the jitter and a  *)
(* discovery old, well below the two periods of ops-runbook.md:358         *)
(* (create_refresh_interval, calculate_jittered_delay).                    *)
AgeBounded == own => age <= Period + 2 * Jitter + MaxDiscovery

(* A node that takes over begins to discover within two periods and the    *)
(* jitter: it waits for its tick, or for the discovery of an earlier term, *)
(* and then sleeps (spawn_background_refresh).                             *)
TakeoverBounded == tenure <= AtLeast(Period, MaxDiscovery) + Period + Jitter

=============================================================================
