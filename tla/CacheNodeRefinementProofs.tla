---------------------- MODULE CacheNodeRefinementProofs ----------------------
(***************************************************************************)
(* CacheNode implements TargetService, for every set of targets, clusters  *)
(* and manual requests, every configuration and every bound.               *)
(***************************************************************************)
EXTENDS CacheNodeRefinement, CacheNodeProofs

-----------------------------------------------------------------------------
(* What a step does to the drafts when it moves one worker. *)

LEMMA WorkerMoves ==
  ASSUME TypeOK, NEW w \in Workers, NEW p, NEW j,
         pc' = [pc EXCEPT ![w] = p], job' = [job EXCEPT ![w] = j]
  PROVE  /\ Draft' = [Draft EXCEPT ![w] = DraftAt(w, p, j)]
         /\ Draft[w] = DraftAt(w, pc[w], job[w])
<1>1. \A v \in Workers : pc'[v] = (IF v = w THEN p ELSE pc[v])
                      /\ job'[v] = (IF v = w THEN j ELSE job[v])
  BY DEF TypeOK
<1>2. Draft' = [v \in Workers |-> DraftAt(v, pc'[v], job'[v])]
  BY DEF Draft, DraftAt
<1> HIDE DEF DraftAt
<1>3. Draft = [v \in Workers |-> DraftAt(v, pc[v], job[v])]
  BY DEF Draft
<1>4. Draft' = [v \in Workers |-> IF v = w THEN DraftAt(w, p, j) ELSE Draft[v]]
  BY <1>1, <1>2, <1>3
<1> QED BY <1>3, <1>4

LEMMA WorkerMovesOn ==
  ASSUME TypeOK, NEW w \in Workers, NEW p, pc' = [pc EXCEPT ![w] = p], job' = job
  PROVE  /\ Draft' = [Draft EXCEPT ![w] = DraftAt(w, p, job[w])]
         /\ Draft[w] = DraftAt(w, pc[w], job[w])
<1>1. job' = [job EXCEPT ![w] = job[w]]
  BY DEF TypeOK
<1> QED BY <1>1, WorkerMoves

(* A step that leaves the draft of its worker as it was is a stutter.      *)
LEMMA SameDraft ==
  ASSUME TypeOK, NEW w \in Workers, NEW p, NEW j,
         pc' = [pc EXCEPT ![w] = p], job' = [job EXCEPT ![w] = j],
         DraftAt(w, p, j) = DraftAt(w, pc[w], job[w]),
         UNCHANGED <<world, down, snapshot, published, remote>>
  PROVE  UNCHANGED Service!vars
<1>0. /\ Draft' = [Draft EXCEPT ![w] = DraftAt(w, p, j)]
      /\ Draft[w] = DraftAt(w, pc[w], job[w])
  BY WorkerMoves
<1>1. Draft' = [Draft EXCEPT ![w] = Draft[w]]
  BY <1>0
<1>2. Draft' = Draft
  BY <1>1 DEF Draft
<1> QED BY <1>2 DEF Service!vars, Held

LEMMA SameDraftOn ==
  ASSUME TypeOK, NEW w \in Workers, NEW p,
         pc' = [pc EXCEPT ![w] = p], job' = job,
         DraftAt(w, p, job[w]) = DraftAt(w, pc[w], job[w]),
         UNCHANGED <<world, down, snapshot, published, remote>>
  PROVE  UNCHANGED Service!vars
<1>1. job' = [job EXCEPT ![w] = job[w]]
  BY DEF TypeOK
<1> QED BY <1>1, SameDraft

LEMMA SameWorkers ==
  ASSUME UNCHANGED <<pc, job>>
  PROVE  Draft' = Draft
BY DEF Draft, DraftAt

(* The three ways in which a draft comes and goes. *)

LEMMA Begins ==
  ASSUME TypeOK, DraftInv, NEW w \in Workers, w # "fs",
         pc[w] \in {"boot", "sleep", "stamp"},
         pc' = [pc EXCEPT ![w] = "discover"], job' = job,
         UNCHANGED <<world, down, snapshot, published, remote>>
  PROVE  Service!Begin(w)
<1>1. Draft' = [Draft EXCEPT ![w] = DraftAt(w, "discover", job[w])]
      /\ Draft[w] = DraftAt(w, pc[w], job[w])
  BY WorkerMovesOn
<1>2. /\ job[w].next = 1 /\ job[w].ok = FALSE /\ job[w].found = {}
      /\ job[w].seen = {} /\ job[w].here = {}
  BY DEF DraftInv, Idle, TypeOK, Jobs
<1>3. DraftAt(w, "discover", job[w]) = Service!Blank
  <2>1. job[w].next - 1 = 0
    BY <1>2
  <2> QED BY <1>2, <2>1, Zenon DEF DraftAt, Drafting, Service!Blank, Service!DraftOf
<1>4. DraftAt(w, pc[w], job[w]) = Service!NoDraft
  BY DEF DraftAt, Drafting, NoDraft, Service!NoDraft, Service!DraftOf
<1> QED BY <1>1, <1>3, <1>4 DEF Service!Begin, Service!Drafts, Held

(* The draft of a worker that has one. *)
LEMMA DraftOfWorker ==
  ASSUME TypeOK, DraftInv, NEW w \in Workers, pc[w] \in Drafting
  PROVE  /\ Draft[w].asked \in Nat
         /\ Draft[w].some = job[w].ok /\ Draft[w].found = job[w].found
         /\ Draft[w].seen = job[w].seen /\ Draft[w].here = job[w].here
         /\ Draft[w].asked = (IF w = "fs" THEN Len(ClusterSeq) ELSE job[w].next - 1)
<1> DEFINE asked == IF w = "fs" THEN Len(ClusterSeq) ELSE job[w].next - 1
<1>1. Draft[w] = [asked |-> asked, seen |-> job[w].seen, here |-> job[w].here,
                  some |-> job[w].ok, found |-> job[w].found]
  BY Zenon DEF Draft, DraftAt
<1>2. Len(ClusterSeq) \in Nat
  BY ConstantsAssumption
<1>3. w # "fs" => job[w].next \in Nat \ {0}
  BY <1>2 DEF DraftInv, Drafting, Replacing
<1>4. asked \in Nat
  BY <1>2, <1>3
<1>5. /\ Draft[w].asked = asked
      /\ Draft[w].seen = job[w].seen /\ Draft[w].here = job[w].here
      /\ Draft[w].some = job[w].ok /\ Draft[w].found = job[w].found
  <2> HIDE DEF asked
  <2> QED BY <1>1
<1> QED BY <1>4, <1>5

LEMMA GivesUp ==
  ASSUME TypeOK, DraftInv, NEW w \in Workers, NEW p, NEW j,
         pc[w] \in Drafting, p \notin Drafting,
         pc' = [pc EXCEPT ![w] = p], job' = [job EXCEPT ![w] = j],
         UNCHANGED <<world, down, snapshot, published, remote>>
  PROVE  Service!GiveUp(w)
<1>1. Draft' = [Draft EXCEPT ![w] = DraftAt(w, p, j)]
  BY WorkerMoves
<1>2. DraftAt(w, p, j) = Service!NoDraft
  BY DEF DraftAt, NoDraft, Service!NoDraft, Service!DraftOf
<1>3. Draft[w] # Service!NoDraft
  BY DraftOfWorker DEF Service!NoDraft, Service!DraftOf
<1> QED BY <1>1, <1>2, <1>3 DEF Service!GiveUp, Service!Drafts, Held

LEMMA Replaces ==
  ASSUME TypeOK, DraftInv, NEW w \in Workers, Install(w)
  PROVE  Service!Replace(w)
<1>1. pc' = [pc EXCEPT ![w] = "churn"] /\ job' = job
  BY DEF Install, Goto
<1>2. Draft' = [Draft EXCEPT ![w] = DraftAt(w, "churn", job[w])]
      /\ Draft[w] = DraftAt(w, pc[w], job[w])
  BY <1>1, WorkerMovesOn
<1>3. pc[w] = "install" /\ job[w].ok
      /\ (w # "fs" => job[w].next = Len(ClusterSeq) + 1)
  BY DEF Install, DraftInv, Replacing
<1>4. Len(ClusterSeq) \in Nat
  BY ConstantsAssumption
<1>5. /\ Draft[w].asked = Len(ClusterSeq) /\ Draft[w].some
      /\ Draft[w].found = job[w].found
  BY <1>3, <1>4, DraftOfWorker DEF Drafting
<1>6. DraftAt(w, "churn", job[w]) = Service!NoDraft
  BY DEF DraftAt, Drafting, NoDraft, Service!NoDraft, Service!DraftOf
<1>7. snapshot'.targets = job[w].found /\ UNCHANGED <<world, down, published, remote>>
  BY DEF Install, env, gossip
<1>8. UNCHANGED <<world, down, Held(published), Held(remote)>>
  BY <1>7 DEF Held
<1> QED BY <1>2, <1>5, <1>6, <1>7, <1>8 DEF Service!Replace, Service!Finished

-----------------------------------------------------------------------------
(* The strengthening: what the draft of a worker is at each control point. *)

LEMMA DraftInit == Init => DraftInv
BY ConstantsAssumption
   DEF Init, DraftInv, NoJob, Idle, Drafting, Replacing, Workers

LEMMA DraftStep == TypeOK /\ DraftInv /\ [Next]_vars => DraftInv'
<1> SUFFICES ASSUME TypeOK, DraftInv, [Next]_vars PROVE DraftInv'
  OBVIOUS
<1>0. Len(ClusterSeq) \in Nat /\ 1 \in 1..Len(ClusterSeq)
  BY ConstantsAssumption
<1>11. ASSUME NEW w \in Workers, NEW t \in Targets, DiscoverTarget(w, t)
       PROVE  DraftInv'
  <2>1. PICK j \in Jobs : Turn(w, t, j)
    BY <1>11, TargetTurn
  <2>2. pc[w] = "discover" /\ UNCHANGED pc
    BY <1>11, TargetTurn
  <2>3. job'[w].next = job[w].next /\ \A v \in Workers \ {w} : job'[v] = job[v]
    BY <2>1 DEF Turn, TypeOK
  <2> QED BY <2>2, <2>3 DEF DraftInv, Idle, Replacing
<1> USE ConstantsAssumption
    DEF TypeOK, env, mets, gossip, Goto, Release, NoJob, DraftInv, Idle, Replacing
<1>1. CASE Environment
  BY <1>1 DEF Environment
<1>2. CASE Shutdown
  BY <1>2 DEF Shutdown
<1>3. ASSUME NEW w \in Workers, Replace(w) PROVE DraftInv'
  <2>1. CASE ReadOld(w)
    BY <2>1, SMTT(30) DEF ReadOld, Jobs
  <2>2. CASE ResetGauge(w)
    BY <2>2 DEF ResetGauge
  <2>3. CASE RecordGauge(w)
    <3>1. CASE DiscardsAsChurn(job[w].old, job[w].found)
      BY <2>3, <3>1, SMTT(30) DEF RecordGauge
    <3>2. CASE ~DiscardsAsChurn(job[w].old, job[w].found)
      <4>1. /\ pc' = [pc EXCEPT ![w] = "install"]
            /\ job' = [job EXCEPT ![w] = [job[w] EXCEPT !.at = clock]]
        BY <2>3, <3>2 DEF RecordGauge
      <4>2. /\ job'[w].next = job[w].next /\ job'[w].ok = job[w].ok
            /\ job'[w].seen = job[w].seen /\ job'[w].here = job[w].here
        BY <4>1 DEF Jobs
      <4> QED BY <2>3, <4>1, <4>2 DEF RecordGauge
    <3> QED BY <3>1, <3>2
  <2>4. CASE Install(w)
    BY <2>4 DEF Install
  <2>5. CASE CountChurn(w)
    BY <2>5 DEF CountChurn
  <2>6. CASE RecordStartup(w)
    BY <2>6 DEF RecordStartup
  <2> QED BY <1>3, <2>1, <2>2, <2>3, <2>4, <2>5, <2>6 DEF Replace
<1>4. ASSUME NEW w \in Workers, w # "fs", Refresh(w) PROVE DraftInv'
  <2>0. ASSUME NEW t \in Targets, DiscoverTarget(w, t) PROVE DraftInv'
    BY <2>0, <1>11
  <2>1. CASE DiscoverCluster(w)
    <3> DEFINE n == job[w].next
    <3>1. pc[w] = "discover" /\ n \in 1..Len(ClusterSeq)
      BY <2>1 DEF DiscoverCluster
    <3>2. /\ job'[w].next = n + 1 /\ job'[w].seen = {} /\ job'[w].here = {}
          /\ \A v \in Workers \ {w} : job'[v] = job[v]
      BY <2>1 DEF DiscoverCluster
    <3>3. PICK p \in {"discover", "replace", "failed"} :
            /\ pc' = [pc EXCEPT ![w] = p]
            /\ p = "discover" <=> n < Len(ClusterSeq)
            /\ p = "replace" => job'[w].ok
      BY <2>1 DEF DiscoverCluster
    <3>4. \/ p = "discover" /\ n + 1 \in 1..Len(ClusterSeq)
          \/ p # "discover" /\ n + 1 = Len(ClusterSeq) + 1
      BY <1>0, <3>1, <3>3
    <3> HIDE DEF n
    <3> QED BY <1>4, <3>2, <3>3, <3>4
  <2>2. CASE DiscoveryFails(w)
    <3>1. PICK p \in {"idle", "stopped"} :
            pc' = [pc EXCEPT ![w] = p] /\ job' = [job EXCEPT ![w] = NoJob]
      BY <2>2 DEF DiscoveryFails, AfterCycle
    <3> QED BY <3>1
  <2> QED BY <1>3, <1>4, <2>0, <2>1, <2>2 DEF Refresh, Discover
<1>5. CASE Background
  <2> USE DEF Workers
  <2>1. CASE Boot
    <3>1. CASE MayRefresh
      BY <1>0, <2>1, <3>1 DEF Boot
    <3>2. CASE ~MayRefresh
      BY <2>1, <3>2 DEF Boot
    <3> QED BY <3>1, <3>2
  <2>2. CASE RefreshTick
    BY <2>2 DEF RefreshTick
  <2>3. CASE RefreshWakes
    BY <1>0, <2>3 DEF RefreshWakes
  <2>4. CASE Refresh("bg")
    BY <1>4, <2>4
  <2>5. CASE PublishCache
    BY <2>5 DEF PublishCache
  <2>6. CASE PublishRoutes
    BY <2>6 DEF PublishRoutes
  <2>7. CASE RecordSuccess
    BY <2>7 DEF RecordSuccess, AfterCycle
  <2>8. CASE LoopStops("bg")
    BY <2>8 DEF LoopStops
  <2> QED BY <1>5, <2>1, <2>2, <2>3, <2>4, <2>5, <2>6, <2>7, <2>8 DEF Background
<1>6. CASE FollowerSync
  <2>1. CASE SyncTick
    BY <2>1 DEF SyncTick
  <2>2. CASE SyncFetch
    <3>1. CASE LeaderValue.kind = "list"
      <4> DEFINE r == [NoJob EXCEPT !.ok = TRUE, !.found = LeaderValue.targets]
      <4>1. r.ok /\ r.seen = {} /\ r.here = {}
        OBVIOUS
      <4>2. pc' = [pc EXCEPT !["fs"] = "replace"] /\ job' = [job EXCEPT !["fs"] = r]
        BY <2>2, <3>1 DEF SyncFetch
      <4> QED
        <5> HIDE DEF r
        <5> QED BY <4>1, <4>2
    <3>2. CASE LeaderValue.kind # "list"
      <4>1. pc' = [pc EXCEPT !["fs"] = "idle"] /\ job' = job /\ pc["fs"] = "fetch"
        BY <2>2, <3>2 DEF SyncFetch
      <4> QED BY <4>1
    <3> QED BY <3>1, <3>2
  <2>3. CASE Replace("fs")
    BY <1>3, <2>3 DEF Workers
  <2>4. CASE LoopStops("fs")
    BY <2>4 DEF LoopStops
  <2> QED BY <1>6, <2>1, <2>2, <2>3, <2>4 DEF FollowerSync
<1>7. ASSUME NEW h \in Handlers, ManualCheck(h) PROVE DraftInv'
  <2>1. /\ pc' = [pc EXCEPT ![h] = "stamp"] /\ pc[h] = "idle"
        /\ job' = [job EXCEPT ![h] = [job[h] EXCEPT !.at = clock]]
    BY <1>7 DEF ManualCheck
  <2>2. /\ job'[h].next = job[h].next /\ job'[h].ok = job[h].ok
        /\ job'[h].found = job[h].found
        /\ job'[h].seen = job[h].seen /\ job'[h].here = job[h].here
    BY <2>1 DEF Jobs, Workers
  <2> QED BY <2>1, <2>2 DEF Workers
<1>8. ASSUME NEW h \in Handlers, Request(h) PROVE DraftInv'
  <2>1. CASE ManualStamp(h)
    BY <1>0, <2>1 DEF ManualStamp, Workers
  <2>2. CASE Refresh(h)
    BY <1>4, <2>2 DEF Workers
  <2> QED BY <1>8, <2>1, <2>2 DEF Request
<1>9. ASSUME NEW h \in Handlers, ClientDisconnects(h) PROVE DraftInv'
  BY <1>9 DEF ClientDisconnects
<1>10. CASE UNCHANGED vars
  BY <1>10 DEF vars
<1> QED BY <1>1, <1>2, <1>5, <1>6, <1>7, <1>8, <1>9, <1>10 DEF Next

LEMMA DraftsSound == Spec => []DraftInv
<1> QED BY DraftInit, DraftStep, TypeCorrect, PTL DEF Spec

-----------------------------------------------------------------------------
(* Every step is a step of the service, or a stutter. *)

LEMMA ServiceInit == Init => Service!Init
<1> SUFFICES ASSUME Init PROVE Service!Init
  OBVIOUS
<1>1. \A w \in Workers : DraftAt(w, pc[w], job[w]) = Service!NoDraft
  BY DEF Init, DraftAt, Drafting, NoDraft, Service!NoDraft, Service!DraftOf
<1>2. Draft = [w \in Workers |-> Service!NoDraft]
  BY <1>1 DEF Draft
<1>3. /\ world \in SUBSET Targets /\ down \in SUBSET Failing
      /\ snapshot.targets = {}
      /\ Held(published) = {} /\ Held(remote) = {}
  BY DEF Init, Held, NotPublished
<1> QED BY <1>2, <1>3 DEF Service!Init

LEMMA EnvironmentRefines ==
  ASSUME TypeOK, Environment
  PROVE  [Service!Next]_(Service!vars)
<1>1. Draft' = Draft /\ UNCHANGED <<snapshot, published>>
  BY SameWorkers DEF Environment, gossip
<1>2. CASE WorldChanges \/ ReachabilityChanges
  <2>1. world' \in SUBSET Targets /\ down' \in SUBSET Failing /\ UNCHANGED remote
    BY <1>2 DEF WorldChanges, ReachabilityChanges, TypeOK
  <2>2. Service!WorldMoves
    BY <1>1, <2>1 DEF Service!WorldMoves, Held
  <2> QED BY <2>2 DEF Service!Next
<1>3. CASE PeerPublishes
  <2>1. remote' \in GossipValues /\ UNCHANGED <<world, down>>
    BY <1>3 DEF PeerPublishes
  <2>2. Held(remote)' \in Service!AtMostOne
    BY <2>1 DEF Held, GossipValues, Service!AtMostOne
  <2>3. Service!PeerMoves
    BY <1>1, <2>1, <2>2 DEF Service!PeerMoves, Held
  <2> QED BY <2>3 DEF Service!Next
<1>4. CASE LeadershipChanges \/ ClockTicks
  <2>1. UNCHANGED <<world, down, remote>>
    BY <1>4 DEF LeadershipChanges, ClockTicks
  <2> QED BY <1>1, <2>1 DEF Service!vars, Held
<1> QED BY <1>2, <1>3, <1>4 DEF Environment

LEMMA ReplaceRefines ==
  ASSUME TypeOK, DraftInv, NEW w \in Workers, Replace(w)
  PROVE  [Service!Next]_(Service!vars)
<1> USE DEF env, mets, gossip, Goto
<1>1. CASE ReadOld(w)
  <2> DEFINE j == [job[w] EXCEPT !.old = snapshot.targets]
  <2>1. /\ pc[w] = "replace" /\ pc' = [pc EXCEPT ![w] = "reset"]
        /\ job' = [job EXCEPT ![w] = j]
        /\ UNCHANGED <<world, down, snapshot, published, remote>>
    BY <1>1 DEF ReadOld
  <2>2. /\ j.next = job[w].next /\ j.ok = job[w].ok /\ j.found = job[w].found
        /\ j.seen = job[w].seen /\ j.here = job[w].here
    BY DEF TypeOK, Jobs
  <2> HIDE DEF j
  <2>3. DraftAt(w, "reset", j) = DraftAt(w, pc[w], job[w])
    BY <2>1, <2>2, Zenon DEF DraftAt, Drafting
  <2> QED BY <2>1, <2>3, SameDraft
<1>2. CASE ResetGauge(w)
  <2>1. /\ pc[w] = "reset" /\ pc' = [pc EXCEPT ![w] = "record"] /\ job' = job
        /\ UNCHANGED <<world, down, snapshot, published, remote>>
    BY <1>2 DEF ResetGauge
  <2>2. DraftAt(w, "record", job[w]) = DraftAt(w, pc[w], job[w])
    BY <2>1, Zenon DEF DraftAt, Drafting
  <2> QED BY <2>1, <2>2, SameDraftOn
<1>3. CASE RecordGauge(w)
  <2>1. pc[w] = "record" /\ UNCHANGED <<world, down, snapshot, published, remote>>
    BY <1>3 DEF RecordGauge
  <2>2. CASE DiscardsAsChurn(job[w].old, job[w].found)
    <3>1. pc' = [pc EXCEPT ![w] = "startup"] /\ job' = [job EXCEPT ![w] = job[w]]
      BY <1>3, <2>2 DEF RecordGauge, TypeOK
    <3>2. pc[w] \in Drafting /\ "startup" \notin Drafting
      BY <2>1 DEF Drafting
    <3>3. Service!GiveUp(w)
      BY <2>1, <3>1, <3>2, GivesUp
    <3> QED BY <3>3 DEF Service!Next
  <2>3. CASE ~DiscardsAsChurn(job[w].old, job[w].found)
    <3> DEFINE j == [job[w] EXCEPT !.at = clock]
    <3>1. /\ pc' = [pc EXCEPT ![w] = "install"]
          /\ job' = [job EXCEPT ![w] = j]
      BY <1>3, <2>3 DEF RecordGauge
    <3>2. /\ j.next = job[w].next /\ j.ok = job[w].ok /\ j.found = job[w].found
          /\ j.seen = job[w].seen /\ j.here = job[w].here
      BY DEF TypeOK, Jobs
    <3> HIDE DEF j
    <3>3. DraftAt(w, "install", j) = DraftAt(w, pc[w], job[w])
      BY <2>1, <3>2, Zenon DEF DraftAt, Drafting
    <3> QED BY <2>1, <3>1, <3>3, SameDraft
  <2> QED BY <2>2, <2>3
<1>4. CASE Install(w)
  BY <1>4, Replaces DEF Service!Next
<1>5. CASE CountChurn(w)
  <2>1. /\ pc[w] = "churn" /\ pc' = [pc EXCEPT ![w] = "startup"] /\ job' = job
        /\ UNCHANGED <<world, down, snapshot, published, remote>>
    BY <1>5 DEF CountChurn
  <2>2. DraftAt(w, "startup", job[w]) = DraftAt(w, pc[w], job[w])
    BY <2>1, Zenon DEF DraftAt, Drafting
  <2> QED BY <2>1, <2>2, SameDraftOn
<1>6. CASE RecordStartup(w)
  <2>1. pc[w] = "startup" /\ UNCHANGED <<world, down, snapshot, published, remote>>
    BY <1>6 DEF RecordStartup
  <2>2. PICK p \in {"publish", "idle"}, j \in {job[w], NoJob} :
          pc' = [pc EXCEPT ![w] = p] /\ job' = [job EXCEPT ![w] = j]
    BY <1>6 DEF RecordStartup, Release, TypeOK
  <2>3. DraftAt(w, p, j) = DraftAt(w, pc[w], job[w])
    BY <2>1, Zenon DEF DraftAt, Drafting
  <2> QED BY <2>1, <2>2, <2>3, SameDraft
<1> QED BY <1>1, <1>2, <1>3, <1>4, <1>5, <1>6 DEF Replace

(* The cluster that a worker discovers is the one that its draft asks.     *)
LEMMA AsksItsCluster ==
  ASSUME TypeOK, DraftInv, NEW w \in Workers, w # "fs", pc[w] = "discover"
  PROVE  /\ Service!Asking(w) /\ Service!Asked(Draft[w]) = ClusterNow(w)
         /\ Service!AllOf(ClusterNow(w)) = TargetsOf(ClusterNow(w))
         /\ Draft[w].asked + 1 = job[w].next
<1>1. job[w].next \in 1..Len(ClusterSeq) /\ Len(ClusterSeq) \in Nat
  BY ConstantsAssumption DEF DraftInv
<1>2. /\ Draft[w].asked \in Nat /\ Draft[w].asked + 1 = job[w].next
  <2>1. pc[w] \in Drafting
    BY DEF Drafting
  <2> QED BY <1>1, <2>1, DraftOfWorker
<1> QED BY <1>1, <1>2 DEF Service!Asking, Service!NoDraft, Service!DraftOf, Service!Asked,
                          Service!AllOf, ClusterNow, TargetsOf

LEMMA TurnRefines ==
  ASSUME TypeOK, DraftInv, NEW w \in Workers, w # "fs",
         NEW t \in Targets, DiscoverTarget(w, t)
  PROVE  [Service!Next]_(Service!vars)
<1>1. /\ pc[w] = "discover" /\ t \in TargetsOf(ClusterNow(w)) \ job[w].seen
      /\ ClusterNow(w) \notin down /\ pc' = pc
  BY TargetTurn
<1>2. UNCHANGED <<world, down, snapshot, published, remote>>
  BY DEF DiscoverTarget, env, gossip
<1> DEFINE here == IF t \in world \ down THEN job[w].here \cup {t} ELSE job[w].here
           seen == job[w].seen \cup {t}
<1>0. PICK j \in Jobs : Turn(w, t, j)
  BY TargetTurn
<1>3. /\ job' = [job EXCEPT ![w] = j]
      /\ j.seen = seen /\ j.here = here
      /\ j.next = job[w].next /\ j.ok = job[w].ok /\ j.found = job[w].found
  BY <1>0 DEF Turn
<1>4. pc' = [pc EXCEPT ![w] = "discover"]
  BY <1>1 DEF TypeOK
<1>5. /\ Draft' = [Draft EXCEPT ![w] = DraftAt(w, "discover", j)]
      /\ Draft[w] = DraftAt(w, "discover", job[w])
  <2> HIDE DEF here, seen
  <2>1. job' = [job EXCEPT ![w] = j]
    BY <1>3
  <2>2. /\ Draft' = [Draft EXCEPT ![w] = DraftAt(w, "discover", j)]
        /\ Draft[w] = DraftAt(w, pc[w], job[w])
    BY <1>4, <2>1, WorkerMoves
  <2> QED BY <1>1, <2>2
<1> HIDE DEF here, seen
<1>6. DraftAt(w, "discover", job[w])
        = [asked |-> job[w].next - 1, seen |-> job[w].seen, here |-> job[w].here,
           some |-> job[w].ok, found |-> job[w].found]
  BY Zenon DEF DraftAt, Drafting
<1>7. DraftAt(w, "discover", j)
        = [asked |-> job[w].next - 1, seen |-> seen, here |-> here,
           some |-> job[w].ok, found |-> job[w].found]
  BY <1>3, Zenon DEF DraftAt, Drafting
<1>8. /\ Draft[w].asked = job[w].next - 1
      /\ Draft[w].some = job[w].ok /\ Draft[w].found = job[w].found
      /\ Draft[w].seen = job[w].seen /\ Draft[w].here = job[w].here
  BY <1>5, <1>6
<1>9. DraftAt(w, "discover", j) = Service!Asks(Draft[w], seen, here)
  BY <1>7, <1>8, Zenon DEF Service!Asks
<1>10. DraftAt(w, "discover", j)
         = Service!Asks(Draft[w], Draft[w].seen \cup {t},
                        IF t \in world \ down THEN Draft[w].here \cup {t}
                                              ELSE Draft[w].here)
  BY <1>8, <1>9 DEF seen, here
<1>11. Service!Looks(w, t)
  BY <1>1, <1>2, <1>5, <1>8, <1>10, AsksItsCluster DEF Service!Looks, Service!Drafts, Held
<1> QED BY <1>11 DEF Service!Next

LEMMA DiscoverRefines ==
  ASSUME TypeOK, DraftInv, NEW w \in Workers, w # "fs", DiscoverCluster(w)
  PROVE  [Service!Next]_(Service!vars)
<1> DEFINE n == job[w].next
           reachable == ClusterNow(w) \notin down
           ok == SucceededSoFar(job[w].ok, reachable)
           found == job[w].found \cup Contribution(job[w].here, reachable)
           j == [next |-> n + 1, seen |-> {}, here |-> {}, ok |-> ok, found |-> found,
                 old |-> job[w].old, at |-> job[w].at]
           d == Service!DraftOf(n, ok, found)
<1>1. pc[w] = "discover" /\ n \in 1..Len(ClusterSeq) /\ Len(ClusterSeq) \in Nat
  BY ConstantsAssumption DEF DiscoverCluster, DraftInv
<1>2. PICK p \in {"discover", "replace", "failed"} : pc' = [pc EXCEPT ![w] = p]
  BY DEF DiscoverCluster, Goto
<1>3. job' = [job EXCEPT ![w] = j]
  BY DEF DiscoverCluster
<1>4. UNCHANGED <<world, down, snapshot, published, remote>>
  BY DEF DiscoverCluster, env, gossip
<1>5. DraftAt(w, p, j) = d
  <2>1. /\ j.next - 1 = n /\ j.ok = ok /\ j.found = found
        /\ j.seen = {} /\ j.here = {}
    BY <1>1
  <2> HIDE DEF j, n, ok, found
  <2> QED BY <2>1, Zenon DEF DraftAt, Drafting, Service!DraftOf
<1>6. Draft' = [Draft EXCEPT ![w] = d]
  <2> HIDE DEF j, d
  <2> QED BY <1>2, <1>3, <1>5, WorkerMoves
<1>7. /\ Draft[w].some = job[w].ok /\ Draft[w].found = job[w].found
      /\ Draft[w].seen = job[w].seen /\ Draft[w].here = job[w].here
      /\ n = Draft[w].asked + 1
  <2>1. pc[w] \in Drafting
    BY <1>1 DEF Drafting
  <2> QED BY <1>1, <2>1, DraftOfWorker, AsksItsCluster
<1>8. /\ Service!Asking(w) /\ Service!Asked(Draft[w]) = ClusterNow(w)
      /\ Service!AllOf(ClusterNow(w)) = TargetsOf(ClusterNow(w))
  BY <1>1, AsksItsCluster
<1>9. CASE reachable
  <2>1. ok = TRUE /\ found = Draft[w].found \cup Draft[w].here
    BY <1>7, <1>9 DEF SucceededSoFar, Contribution
  <2>2. Draft[w].seen = Service!AllOf(ClusterNow(w))
    BY <1>7, <1>8, <1>9 DEF DiscoverCluster
  <2>3. d = Service!DraftOf(Draft[w].asked + 1, TRUE, Draft[w].found \cup Draft[w].here)
    <3> HIDE DEF n, ok, found
    <3> QED BY <1>7, <2>1
  <2>4. Service!Answers(w)
    <3> HIDE DEF d
    <3> QED BY <1>4, <1>6, <1>8, <1>9, <2>2, <2>3
            DEF Service!Answers, Service!Drafts, Held
  <2> QED BY <2>4 DEF Service!Next
<1>10. CASE ~reachable
  <2>1. ok = Draft[w].some /\ found = Draft[w].found
    BY <1>7, <1>10 DEF SucceededSoFar, Contribution, TypeOK, Jobs
  <2>3. d = Service!DraftOf(Draft[w].asked + 1, Draft[w].some, Draft[w].found)
    <3> HIDE DEF n, ok, found
    <3> QED BY <1>7, <2>1
  <2>4. Service!CannotAnswer(w)
    <3> HIDE DEF d
    <3> QED BY <1>4, <1>6, <1>8, <1>10, <2>3
            DEF Service!CannotAnswer, Service!Drafts, Held
  <2> QED BY <2>4 DEF Service!Next
<1> QED BY <1>9, <1>10

LEMMA RefreshRefines ==
  ASSUME TypeOK, DraftInv, NEW w \in Workers, w # "fs", Refresh(w)
  PROVE  [Service!Next]_(Service!vars)
<1>0. ASSUME NEW t \in Targets, DiscoverTarget(w, t)
      PROVE  [Service!Next]_(Service!vars)
  BY <1>0, TurnRefines
<1>1. CASE DiscoverCluster(w)
  BY <1>1, DiscoverRefines
<1>2. CASE DiscoveryFails(w)
  <2>1. /\ pc[w] = "failed"
        /\ UNCHANGED <<world, down, snapshot, published, remote>>
    BY <1>2 DEF DiscoveryFails, env, gossip
  <2>2. PICK p \in {"idle", "stopped"} :
          pc' = [pc EXCEPT ![w] = p] /\ job' = [job EXCEPT ![w] = NoJob]
    BY <1>2 DEF DiscoveryFails, Release, Goto, AfterCycle
  <2>3. pc[w] \in Drafting /\ p \notin Drafting
    BY <2>1, <2>2 DEF Drafting
  <2>4. Service!GiveUp(w)
    BY <2>1, <2>2, <2>3, GivesUp
  <2> QED BY <2>4 DEF Service!Next
<1>3. CASE Replace(w)
  BY <1>3, ReplaceRefines
<1> QED BY <1>0, <1>1, <1>2, <1>3 DEF Refresh, Discover

LEMMA PublishRefines ==
  ASSUME TypeOK, DraftInv, PublishCache, "bg" \in Workers
  PROVE  [Service!Next]_(Service!vars)
<1>1. PICK p \in {"outcome", "publishRoutes"} :
        pc["bg"] = "publish" /\ pc' = [pc EXCEPT !["bg"] = p] /\ job' = job
  BY DEF PublishCache, Goto
<1>2. UNCHANGED <<world, down, snapshot, remote>>
  BY DEF PublishCache, env
<1>3. CASE UNCHANGED published
  <2>1. DraftAt("bg", p, job["bg"]) = DraftAt("bg", pc["bg"], job["bg"])
    BY <1>1, Zenon DEF DraftAt, Drafting
  <2> QED BY <1>1, <1>2, <1>3, <2>1, SameDraftOn
<1>4. CASE published' = [kind |-> "list", targets |-> snapshot.targets]
  <2>1. /\ Draft' = [Draft EXCEPT !["bg"] = DraftAt("bg", p, job["bg"])]
        /\ Draft["bg"] = DraftAt("bg", pc["bg"], job["bg"])
    BY <1>1, WorkerMovesOn
  <2>2. DraftAt("bg", p, job["bg"]) = DraftAt("bg", pc["bg"], job["bg"])
    BY <1>1, Zenon DEF DraftAt, Drafting
  <2>3. Draft' = Draft
    BY <2>1, <2>2 DEF Draft
  <2>4. Held(published)' = {snapshot.targets}
    BY <1>4 DEF Held
  <2>5. Service!Publish
    BY <1>2, <2>3, <2>4 DEF Service!Publish, Held
  <2> QED BY <2>5 DEF Service!Next
<1> QED BY <1>3, <1>4 DEF PublishCache

LEMMA BackgroundRefines ==
  ASSUME TypeOK, DraftInv, Background
  PROVE  [Service!Next]_(Service!vars)
<1> USE DEF env, mets, gossip, Goto
<1>0. "bg" \in Workers
  BY DEF Workers
<1>1. CASE Boot
  <2>1. pc["bg"] = "boot" /\ job' = job /\ UNCHANGED <<world, down, snapshot, published, remote>>
    BY <1>1 DEF Boot
  <2>2. CASE MayRefresh
    <3>1. pc' = [pc EXCEPT !["bg"] = "discover"]
      BY <1>1, <2>2 DEF Boot
    <3>2. Service!Begin("bg")
      BY <1>0, <2>1, <3>1, Begins
    <3> QED BY <1>0, <3>2 DEF Service!Next
  <2>3. CASE ~MayRefresh
    <3>1. pc' = [pc EXCEPT !["bg"] = "idle"]
      BY <1>1, <2>3 DEF Boot
    <3>2. DraftAt("bg", "idle", job["bg"]) = DraftAt("bg", pc["bg"], job["bg"])
      BY <2>1, Zenon DEF DraftAt, Drafting
    <3> QED BY <1>0, <2>1, <3>1, <3>2, SameDraftOn
  <2> QED BY <2>2, <2>3
<1>2. CASE RefreshTick
  <2>1. /\ pc["bg"] = "idle" /\ pc' = [pc EXCEPT !["bg"] = "sleep"] /\ job' = job
        /\ UNCHANGED <<world, down, snapshot, published, remote>>
    BY <1>2 DEF RefreshTick
  <2>2. DraftAt("bg", "sleep", job["bg"]) = DraftAt("bg", pc["bg"], job["bg"])
    BY <2>1, Zenon DEF DraftAt, Drafting
  <2> QED BY <1>0, <2>1, <2>2, SameDraftOn
<1>3. CASE RefreshWakes
  <2>1. pc["bg"] = "sleep" /\ job' = job /\ UNCHANGED <<world, down, snapshot, published, remote>>
    BY <1>3 DEF RefreshWakes
  <2>2. CASE shutdown
    <3>1. pc' = [pc EXCEPT !["bg"] = "stopped"]
      BY <1>3, <2>2 DEF RefreshWakes
    <3>2. DraftAt("bg", "stopped", job["bg"]) = DraftAt("bg", pc["bg"], job["bg"])
      BY <2>1, Zenon DEF DraftAt, Drafting
    <3> QED BY <1>0, <2>1, <3>1, <3>2, SameDraftOn
  <2>3. CASE ~shutdown
    <3>1. pc' = [pc EXCEPT !["bg"] = "discover"]
      BY <1>3, <2>3 DEF RefreshWakes
    <3>2. Service!Begin("bg")
      BY <1>0, <2>1, <3>1, Begins
    <3> QED BY <1>0, <3>2 DEF Service!Next
  <2> QED BY <2>2, <2>3
<1>4. CASE Refresh("bg")
  BY <1>0, <1>4, RefreshRefines
<1>5. CASE PublishCache
  BY <1>0, <1>5, PublishRefines
<1>6. CASE PublishRoutes
  <2>1. /\ pc["bg"] = "publishRoutes" /\ pc' = [pc EXCEPT !["bg"] = "outcome"]
        /\ job' = job /\ UNCHANGED <<world, down, snapshot, published, remote>>
    BY <1>6 DEF PublishRoutes
  <2>2. DraftAt("bg", "outcome", job["bg"]) = DraftAt("bg", pc["bg"], job["bg"])
    BY <2>1, Zenon DEF DraftAt, Drafting
  <2> QED BY <1>0, <2>1, <2>2, SameDraftOn
<1>7. CASE RecordSuccess
  <2>1. /\ pc["bg"] = "outcome" /\ job' = [job EXCEPT !["bg"] = NoJob]
        /\ UNCHANGED <<world, down, snapshot, published, remote>>
    BY <1>7 DEF RecordSuccess, Release
  <2>2. PICK p \in {"idle", "stopped"} : pc' = [pc EXCEPT !["bg"] = p]
    BY <1>7 DEF RecordSuccess, Release, AfterCycle
  <2>3. DraftAt("bg", p, NoJob) = DraftAt("bg", pc["bg"], job["bg"])
    BY <2>1, <2>2, Zenon DEF DraftAt, Drafting
  <2> QED BY <1>0, <2>1, <2>2, <2>3, SameDraft
<1>8. CASE LoopStops("bg")
  <2>1. /\ pc["bg"] = "idle" /\ pc' = [pc EXCEPT !["bg"] = "stopped"] /\ job' = job
        /\ UNCHANGED <<world, down, snapshot, published, remote>>
    BY <1>8 DEF LoopStops
  <2>2. DraftAt("bg", "stopped", job["bg"]) = DraftAt("bg", pc["bg"], job["bg"])
    BY <2>1, Zenon DEF DraftAt, Drafting
  <2> QED BY <1>0, <2>1, <2>2, SameDraftOn
<1> QED BY <1>1, <1>2, <1>3, <1>4, <1>5, <1>6, <1>7, <1>8 DEF Background

LEMMA FetchRefines ==
  ASSUME TypeOK, DraftInv, SyncFetch, "fs" \in Workers
  PROVE  [Service!Next]_(Service!vars)
<1> DEFINE S == LeaderValue.targets
           j == [NoJob EXCEPT !.ok = TRUE, !.found = S]
<1>1. pc["fs"] = "fetch" /\ UNCHANGED <<world, down, snapshot, published, remote>>
  BY DEF SyncFetch, env, gossip
<1>2. CASE LeaderValue.kind = "list"
  <2>1. pc' = [pc EXCEPT !["fs"] = "replace"] /\ job' = [job EXCEPT !["fs"] = j]
    BY <1>2 DEF SyncFetch, Goto
  <2>2. j.ok = TRUE /\ j.found = S /\ j.seen = {} /\ j.here = {}
    BY DEF NoJob
  <2>3. S \in Held(published) \cup Held(remote)
    BY <1>2 DEF LeaderValue, Held
  <2> HIDE DEF j, S
  <2>4. DraftAt("fs", "replace", j) = Service!CopyOf(S)
    BY <2>2, Zenon DEF DraftAt, Drafting, Service!CopyOf, Service!DraftOf
  <2>5. Draft["fs"] = Service!NoDraft
    BY <1>1, Zenon DEF Draft, DraftAt, Drafting, NoDraft, Service!NoDraft, Service!DraftOf
  <2>6. Draft' = [Draft EXCEPT !["fs"] = Service!CopyOf(S)]
    <3>1. Draft' = [Draft EXCEPT !["fs"] = DraftAt("fs", "replace", j)]
      BY <2>1, WorkerMoves
    <3> QED BY <2>4, <3>1
  <2>7. Service!Copy("fs")
    BY <1>1, <2>3, <2>5, <2>6 DEF Service!Copy, Service!Drafts, Held
  <2> QED BY <2>7 DEF Service!Next
<1>3. CASE LeaderValue.kind # "list"
  <2>1. pc' = [pc EXCEPT !["fs"] = "idle"] /\ job' = job
    BY <1>3 DEF SyncFetch, Goto
  <2>2. DraftAt("fs", "idle", job["fs"]) = DraftAt("fs", pc["fs"], job["fs"])
    BY <1>1, Zenon DEF DraftAt, Drafting
  <2> QED BY <1>1, <2>1, <2>2, SameDraftOn
<1> QED BY <1>2, <1>3

LEMMA SyncRefines ==
  ASSUME TypeOK, DraftInv, FollowerSync
  PROVE  [Service!Next]_(Service!vars)
<1>0. "fs" \in Workers
  BY DEF Workers
<1>1. CASE SyncTick \/ LoopStops("fs")
  <2>1. /\ pc["fs"] = "idle" /\ job' = job
        /\ UNCHANGED <<world, down, snapshot, published, remote>>
    BY <1>1 DEF SyncTick, LoopStops, env, gossip
  <2>2. PICK p \in {"fetch", "stopped"} : pc' = [pc EXCEPT !["fs"] = p]
    BY <1>1 DEF SyncTick, LoopStops, Goto
  <2>3. DraftAt("fs", p, job["fs"]) = DraftAt("fs", pc["fs"], job["fs"])
    BY <2>1, <2>2, Zenon DEF DraftAt, Drafting
  <2> QED BY <1>0, <2>1, <2>2, <2>3, SameDraftOn
<1>2. CASE SyncFetch
  BY <1>0, <1>2, FetchRefines
<1>3. CASE Replace("fs")
  BY <1>0, <1>3, ReplaceRefines
<1> QED BY <1>1, <1>2, <1>3 DEF FollowerSync

LEMMA HandlerRefines ==
  ASSUME TypeOK, DraftInv, NEW h \in Handlers,
         ManualCheck(h) \/ Request(h) \/ ClientDisconnects(h)
  PROVE  [Service!Next]_(Service!vars)
<1> USE DEF env, gossip, Goto
<1>0. h \in Workers /\ h # "fs"
  BY ConstantsAssumption DEF Workers
<1>1. CASE ManualCheck(h)
  <2> DEFINE j == [job[h] EXCEPT !.at = clock]
  <2>1. /\ pc[h] = "idle" /\ pc' = [pc EXCEPT ![h] = "stamp"]
        /\ job' = [job EXCEPT ![h] = j]
        /\ UNCHANGED <<world, down, snapshot, published, remote>>
    BY <1>1 DEF ManualCheck
  <2> HIDE DEF j
  <2>2. DraftAt(h, "stamp", j) = DraftAt(h, pc[h], job[h])
    BY <2>1, Zenon DEF DraftAt, Drafting
  <2> QED BY <1>0, <2>1, <2>2, SameDraft
<1>2. CASE ManualStamp(h)
  <2>1. /\ pc[h] = "stamp" /\ pc' = [pc EXCEPT ![h] = "discover"] /\ job' = job
        /\ UNCHANGED <<world, down, snapshot, published, remote>>
    BY <1>2 DEF ManualStamp
  <2>2. Service!Begin(h)
    BY <1>0, <2>1, Begins
  <2> QED BY <1>0, <2>2 DEF Service!Next
<1>3. CASE Refresh(h)
  BY <1>0, <1>3, RefreshRefines
<1>4. CASE ClientDisconnects(h)
  <2>1. /\ pc[h] \in Drafting /\ "idle" \notin Drafting
        /\ pc' = [pc EXCEPT ![h] = "idle"] /\ job' = [job EXCEPT ![h] = NoJob]
        /\ UNCHANGED <<world, down, snapshot, published, remote>>
    BY <1>4 DEF ClientDisconnects, Release, Drafting
  <2>2. Service!GiveUp(h)
    BY <1>0, <2>1, GivesUp
  <2> QED BY <1>0, <2>2 DEF Service!Next
<1> QED BY <1>1, <1>2, <1>3, <1>4 DEF Request

LEMMA StepRefines ==
  TypeOK /\ DraftInv /\ [Next]_vars => [Service!Next]_(Service!vars)
<1> SUFFICES ASSUME TypeOK, DraftInv, [Next]_vars
             PROVE  [Service!Next]_(Service!vars)
  OBVIOUS
<1>1. CASE Environment
  BY <1>1, EnvironmentRefines
<1>2. CASE Shutdown \/ UNCHANGED vars
  <2>1. UNCHANGED <<world, down, pc, job, snapshot, published, remote>>
    BY <1>2 DEF Shutdown, vars, env, gossip
  <2>2. Draft' = Draft
    BY <2>1, SameWorkers
  <2> QED BY <2>1, <2>2 DEF Service!vars, Held
<1>3. CASE Background
  BY <1>3, BackgroundRefines
<1>4. CASE FollowerSync
  BY <1>4, SyncRefines
<1>5. CASE \E h \in Handlers : ManualCheck(h) \/ Request(h) \/ ClientDisconnects(h)
  BY <1>5, HandlerRefines
<1> QED BY <1>1, <1>2, <1>3, <1>4, <1>5 DEF Next

(* However refreshes overlap, fail, are given up, discarded or copied from *)
(* gossip, a node serves whole lists, each drawn up by one refresher that  *)
(* asked every cluster and looked at each of its targets once, without     *)
(* those that were gone or failed at that moment and without what a failed *)
(* cluster had brought, and it publishes what it serves (CacheNode         *)
(* implements TargetService).                                              *)
THEOREM Implementation == Spec => ImplementsService
<1> QED BY ServiceInit, StepRefines, TypeCorrect, DraftsSound, PTL
        DEF Spec, ImplementsService, Service!Spec
=============================================================================
