---------------------------- MODULE TargetService ----------------------------
(***************************************************************************)
(* What one ecs-sd node promises about the list of targets it serves, with *)
(* none of the means: no locks, metrics, guards, schedules or shutdown.    *)
(*                                                                         *)
(* Several refreshers draw up a draft each.  A draft asks every configured *)
(* cluster once, in order.  It looks at each target of the cluster once,   *)
(* at a moment of its own, and takes it over when it runs and has no       *)
(* trouble of its own then; when the cluster itself is in trouble all that *)
(* was found in it is dropped.  Or a draft is a copy of a list that gossip *)
(* holds.  The served list is only ever replaced by a finished draft, as a *)
(* whole, and only by one that some cluster has answered.  A draft may     *)
(* always be given up, and then it has no effect.  A node tells its peers  *)
(* nothing but the list it serves at that moment.                          *)
(***************************************************************************)
EXTENDS Integers, Sequences

CONSTANTS
  Targets,     \* everything ECS could ever run
  ClusterOf,   \* the cluster of each target
  ClusterSeq,  \* the configured clusters, in order
  Failing,     \* the clusters and targets that may have trouble
  Refreshers   \* who replaces the list

VARIABLES
  world,   \* the targets now running
  trouble, \* the clusters and targets that cannot be asked now
  served,  \* the list that requests are answered from
  own,     \* gossip: what this node has published, if anything
  peer,    \* gossip: what its leader has published, if anything
  draft    \* the draft of each refresher, if it has one

vars == <<world, trouble, served, own, peer, draft>>

Asks(d, seen, here) ==
  [asked |-> d.asked, seen |-> seen, here |-> here, some |-> d.some, found |-> d.found]
DraftOf(n, some, found) ==
  [asked |-> n, seen |-> {}, here |-> {}, some |-> some, found |-> found]
NoDraft == DraftOf(-1, FALSE, {})
Blank == DraftOf(0, FALSE, {})
CopyOf(S) == DraftOf(Len(ClusterSeq), TRUE, S)
Finished(d) == d.asked = Len(ClusterSeq)
AtMostOne == {{}} \cup {{S} : S \in SUBSET Targets}

Init ==
  /\ world \in SUBSET Targets /\ trouble \in SUBSET Failing
  /\ served = {} /\ own = {} /\ peer = {}
  /\ draft = [w \in Refreshers |-> NoDraft]

WorldMoves ==
  /\ world' \in SUBSET Targets /\ trouble' \in SUBSET Failing
  /\ UNCHANGED <<served, own, peer, draft>>
PeerMoves ==
  peer' \in AtMostOne /\ UNCHANGED <<world, trouble, served, own, draft>>

Drafts(w, d) ==
  /\ draft' = [draft EXCEPT ![w] = d]
  /\ UNCHANGED <<world, trouble, served, own, peer>>

Begin(w) == draft[w] = NoDraft /\ Drafts(w, Blank)

Copy(w) == draft[w] = NoDraft /\ \E S \in own \cup peer : Drafts(w, CopyOf(S))

(* The next cluster: its targets one by one, then its answer, or none. *)
Asking(w) == draft[w] # NoDraft /\ draft[w].asked < Len(ClusterSeq)
Asked(d) == ClusterSeq[d.asked + 1]
AllOf(c) == {t \in Targets : ClusterOf[t] = c}

Looks(w, t) ==
  /\ Asking(w)
  /\ Asked(draft[w]) \notin trouble
  /\ t \in AllOf(Asked(draft[w])) \ draft[w].seen
  /\ Drafts(w, Asks(draft[w], draft[w].seen \cup {t},
                    IF t \in world \ trouble THEN draft[w].here \cup {t}
                                             ELSE draft[w].here))

Answers(w) ==
  /\ Asking(w)
  /\ Asked(draft[w]) \notin trouble
  /\ draft[w].seen = AllOf(Asked(draft[w]))
  /\ Drafts(w, DraftOf(draft[w].asked + 1, TRUE, draft[w].found \cup draft[w].here))

CannotAnswer(w) ==
  /\ Asking(w)
  /\ Asked(draft[w]) \in trouble
  /\ Drafts(w, DraftOf(draft[w].asked + 1, draft[w].some, draft[w].found))

GiveUp(w) == draft[w] # NoDraft /\ Drafts(w, NoDraft)

Replace(w) ==
  /\ Finished(draft[w]) /\ draft[w].some
  /\ served' = draft[w].found
  /\ draft' = [draft EXCEPT ![w] = NoDraft]
  /\ UNCHANGED <<world, trouble, own, peer>>

Publish == own' = {served} /\ UNCHANGED <<world, trouble, served, peer, draft>>

Next ==
  \/ WorldMoves \/ PeerMoves \/ Publish
  \/ \E w \in Refreshers :
       \/ Begin(w) \/ Copy(w)
       \/ (\E t \in Targets : Looks(w, t)) \/ Answers(w) \/ CannotAnswer(w)
       \/ GiveUp(w) \/ Replace(w)

Spec == Init /\ [][Next]_vars
=============================================================================
