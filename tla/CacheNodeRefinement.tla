------------------------- MODULE CacheNodeRefinement -------------------------
(***************************************************************************)
(* CacheNode implements TargetService: of a worker's state only its draft  *)
(* remains, from the first cluster it asks to the replacement, and of the  *)
(* snapshot and the gossip values only their targets.                      *)
(***************************************************************************)
EXTENDS CacheNode

(* A worker has a draft from when it starts to discover, or has read the   *)
(* leader's value, until it installs or gives up.                          *)
Drafting == {"discover", "failed", "replace", "reset", "record", "install"}

NoDraft == [asked |-> -1, seen |-> {}, here |-> {}, some |-> FALSE, found |-> {}]

(* The follower sync copies, and asks no cluster. *)
DraftAt(w, p, j) ==
  IF p \in Drafting
    THEN [asked |-> IF w = "fs" THEN Len(ClusterSeq) ELSE j.next - 1,
          seen |-> j.seen, here |-> j.here, some |-> j.ok, found |-> j.found]
    ELSE NoDraft
Draft == [w \in Workers |-> DraftAt(w, pc[w], job[w])]

Held(value) == IF value.kind = "list" THEN {value.targets} ELSE {}

Service == INSTANCE TargetService WITH
  Refreshers <- Workers,
  trouble <- down,
  served <- snapshot.targets,
  own <- Held(published),
  peer <- Held(remote),
  draft <- Draft

(* However refreshes overlap, fail, are cancelled, are discarded by the    *)
(* churn guard or are copied from gossip, what is served is a whole list   *)
(* that one of them drew up, with every cluster asked once, every target   *)
(* of it looked at once, nothing kept of a cluster that failed and at      *)
(* least one of them answering, and what is published is what is served    *)
(* (discover_all_clusters, replace_cache_and_routing,                      *)
(* publish_cache_to_gossip).                                               *)
ImplementsService == Service!Spec

-----------------------------------------------------------------------------
(* A worker starts with a blank draft, has asked some clusters while it    *)
(* discovers, and all of them, with an answer, when it goes on to replace. *)
Idle == {"boot", "idle", "sleep", "fetch", "stamp", "stopped"}
Replacing == {"replace", "reset", "record", "install"}
DraftInv ==
  \A w \in Workers :
    /\ pc[w] # "discover" => job[w].seen = {} /\ job[w].here = {}
    /\ pc[w] \in Idle => job[w].next = 1 /\ ~job[w].ok /\ job[w].found = {}
    /\ pc[w] = "discover" => w # "fs" /\ job[w].next \in 1..Len(ClusterSeq)
    /\ pc[w] = "failed" => w # "fs" /\ job[w].next = Len(ClusterSeq) + 1
    /\ pc[w] \in Replacing =>
         job[w].ok /\ (w # "fs" => job[w].next = Len(ClusterSeq) + 1)

=============================================================================
