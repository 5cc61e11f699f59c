---------------------------- MODULE HealthProbe ----------------------------
(***************************************************************************)
(* The health endpoints beside the workers of one ecs-sd process.          *)
(* GET /health reads the snapshot under one lock and the last outcome      *)
(* under another, so that the two need not belong together; GET            *)
(* /health/ready reads the snapshot only.  GET /health/live reads nothing  *)
(* and always answers 200: there is nothing to model.                      *)
(*                                                                         *)
(* A prober sends one request after the other.  Version, uptime, the age   *)
(* and the cluster part of the body, for which the gossip lock is taken    *)
(* last, do not decide on the status and are left out.                     *)
(***************************************************************************)
EXTENDS CacheNode

CONSTANT Endpoints   \* which of the two endpoints are probed

ASSUME EndpointsAssumption == Endpoints \subseteq {"health", "ready"}

VARIABLES
  probe,     \* the request under way, or the last answer
  available  \* history: an earlier probe has found targets

probeVars == <<probe, available>>
allVars == <<vars, probeVars>>

NoProbe == [stage |-> "none"]
Waiting(e) == [stage |-> "asked", endpoint |-> e]
Counted(some) == [stage |-> "counted", some |-> some]
Answered(status, code) == [stage |-> "answered", status |-> status, code |-> code]

-----------------------------------------------------------------------------
(* Faulty variants: a node without an outcome counts as successful; a      *)
(* failed refresh is reported as 503 whatever the cache holds.             *)
NoOutcomeIsSuccess(some, last) ==
  CASE some /\ last # "failed" -> Answered("healthy", 200)
    [] some -> Answered("degraded", 200)
    [] ~some /\ last = "failed" -> Answered("starting", 503)
    [] OTHER -> Answered("starting", 200)
FailureIsUnavailable(some, last) ==
  CASE last = "failed" -> Answered("starting", 503)
    [] some /\ last = "ok" -> Answered("healthy", 200)
    [] some -> Answered("degraded", 200)
    [] OTHER -> Answered("starting", 200)

(* determine_health_status *)
HealthStatus(some, last) ==
  CASE some /\ last = "ok" -> Answered("healthy", 200)
    [] some /\ last # "ok" -> Answered("degraded", 200)
    [] ~some /\ last = "failed" -> Answered("starting", 503)
    [] OTHER -> Answered("starting", 200)

(* determine_readiness_status; the faulty variant asks for a success. *)
ReadyOnceSucceeded(some) ==
  IF some /\ outcome = "ok" THEN Answered("ready", 200) ELSE Answered("not_ready", 503)
Readiness(some) == IF some THEN Answered("ready", 200) ELSE Answered("not_ready", 503)

(* The server accepts requests from when it serves until shutdown. *)
Ask(e) ==
  /\ serving /\ ~shutdown
  /\ probe.stage \in {"none", "answered"}
  /\ probe' = Waiting(e)
  /\ UNCHANGED available

(* tokio's RwLock is fair: a reader that comes while a writer waits for    *)
(* the publisher's read lock queues behind the writer.                     *)
WriterWaits == reading /\ \E w \in Workers : pc[w] = "install"

HasTargets == snapshot.targets # {}

ReadSnapshot ==
  /\ probe.stage = "asked"
  /\ ~WriterWaits
  /\ probe' = IF probe.endpoint = "ready" THEN Readiness(HasTargets)
                                          ELSE Counted(HasTargets)
  /\ available' = (available \/ HasTargets)

ReadOutcome ==
  /\ probe.stage = "counted"
  /\ probe' = HealthStatus(probe.some, outcome)
  /\ UNCHANGED available

Prober == (\E e \in Endpoints : Ask(e)) \/ ReadSnapshot \/ ReadOutcome

-----------------------------------------------------------------------------
ProbeInit == Init /\ probe = NoProbe /\ available = FALSE

ProbeNext == (Next /\ UNCHANGED probeVars) \/ (Prober /\ UNCHANGED vars)

(* The handlers are polled like every other task, and wait for the lock in *)
(* the order they came; nothing makes a client ask.                        *)
ProbeFairness ==
  Fairness /\ SF_allVars(ReadSnapshot /\ UNCHANGED vars)
           /\ WF_allVars(ReadOutcome /\ UNCHANGED vars)

ProbeSpec == ProbeInit /\ [][ProbeNext]_allVars /\ ProbeFairness

-----------------------------------------------------------------------------
(* Properties *)

(* A probe is answered (HEALTH-03: an outage must not make probes fail):   *)
(* it waits for a writer, which waits for the publisher, which waits for   *)
(* the gossip lock, and none of them for ever.                             *)
ProbeAnswered ==
  probe.stage \in {"asked", "counted"} ~> probe.stage = "answered"

(* A member that says it is healthy has itself published a cache: a node   *)
(* that only copies its leader's never gets that far (health.rs:48), also  *)
(* when the count and the outcome are read at different times.             *)
HealthyMemberHasPublished ==
  Clustered /\ probe.stage = "answered" /\ probe.status = "healthy" =>
    published.kind = "list"

(* On the same condition a node that was found to have targets is never    *)
(* again taken out of rotation by a 503, on either endpoint, whatever      *)
(* fails and whichever worker installs between the two reads (HEALTH-02,   *)
(* HEALTH-04).                                                             *)
OutageKeepsAvailable ==
  \A s \in Representatives :
    []Steady(s) => [](available /\ probe.stage = "answered" => probe.code = 200)

(* What /health says follows AWS, for a node that goes on refreshing: when *)
(* all calls fail it stops saying healthy, and when all succeed it says    *)
(* healthy again, or starting with nothing to serve.                       *)
StatusNow == HealthStatus(HasTargets, outcome).status
Refreshing == MayRefresh /\ ~shutdown
HealthTracksAws ==
  /\ <>[](Refreshing /\ Clusters \subseteq down) => <>[](serving => StatusNow # "healthy")
  /\ <>[](Refreshing /\ down = {}) => <>[](StatusNow = "healthy" \/ snapshot.targets = {})

=============================================================================
