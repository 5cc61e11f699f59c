------------------------------- MODULE SdQuery -------------------------------
(***************************************************************************)
(* GET /sd: from the containers a discovery has found to the targets that  *)
(* one request is served.  A refresh builds the labels of every container, *)
(* one target list per metadata level and, in proxy mode, the routing      *)
(* table; a request picks a level, and filters by cluster, service, family *)
(* and tags.  The handler reads the snapshot under one lock, so that a     *)
(* request is one step.                                                    *)
(*                                                                         *)
(* A label name is the sequence of its words after __meta_ecs_: the name   *)
(* __meta_ecs_tag_task_env is <<"tag", "task", "env">>.  The prefixes that *)
(* the code looks at are then first words.  A tag filter tag_task_env=v is *)
(* <<<<"task", "env">>, v>>.                                               *)
(***************************************************************************)
EXTENDS Integers, FiniteSets, SequencesExt, TLC

CONSTANTS
  Containers,   \* what may be discovered, see ConstantsAssumption
  Sanitize,     \* sanitize_tag_key: from the keys of ECS tags to a word
  Queries,      \* the requests
  DefaultLevel, \* config.metadata_level
  CacheTtl,     \* cache_ttl_seconds: refresh_interval
  MaxClock      \* bound: the last second of the model's clock

Levels == {"container", "task", "service", "cluster", "aws"}
TagSources == {"task", "service", "cluster", "ec2"}

(* A container that is scraped: what the labels are made of.  Fargate      *)
(* containers have no EC2 instance.  Tags are <<source, key, value>>; two  *)
(* keys of one source that are sanitized alike would overwrite each other  *)
(* in the order of a HashMap, and are left out.                            *)
ASSUME ConstantsAssumption ==
  /\ \A c \in Containers :
       /\ {"addr", "arn", "name", "cluster", "service", "family", "ec2",
           "hostPort", "tags"} = DOMAIN c
       /\ {c.ec2, c.hostPort} \subseteq BOOLEAN
       /\ c.tags \subseteq TagSources \X (DOMAIN Sanitize) \X STRING
       /\ \A s, t \in c.tags : s[1] = t[1] /\ Sanitize[s[2]] = Sanitize[t[2]] => s = t
  /\ IsFiniteSet(Containers)
  /\ \A q \in Queries :
       /\ q.level \in Levels \cup {"default"} /\ q.mode \in {"and", "or"}
       /\ q.tags \in Seq(Seq(STRING) \X STRING)
  /\ DefaultLevel \in Levels
  /\ CacheTtl \in Nat \ {0} /\ MaxClock \in Nat \ {0}

VARIABLES
  proxyMode,   \* config.mode = Proxy: the configuration of this process
  now,         \* SystemTime::now(), in seconds
  discovered,  \* the containers of the last refresh
  snapshot,    \* AppState.snapshot
  answer       \* the last request and its response

vars == <<proxyMode, now, discovered, snapshot, answer>>

-----------------------------------------------------------------------------
(* MetadataLevel::includes.  The faulty table lacks a pair. *)

IncludedWithGap ==
  [container |-> {"container"}, task |-> {"container", "task"},
   service |-> {"container", "task", "service"},
   cluster |-> {"container", "task", "cluster"}, aws |-> Levels]
Included ==
  [container |-> {"container"}, task |-> {"container", "task"},
   service |-> {"container", "task", "service"},
   cluster |-> {"container", "task", "service", "cluster"}, aws |-> Levels]

(* LabelBuilder.build: the labels of each level.  Of the labels that are   *)
(* always there, that nothing looks at and that are spelled alike, one     *)
(* stands for all.                                                         *)
ContainerLabels ==
  {<<"container", "name">>, <<"metrics", "port">>, <<"ip", "address">>,
   <<"__scheme__">>, <<"__metrics_path__">>}
TaskLabels == {<<"task", "arn">>, <<"task", "definition">>, <<"task", "family">>,
               <<"launch", "type">>}
ServiceLabels == {<<"service", "name">>, <<"desired", "count">>}
ClusterLabels == {<<"cluster", "name">>}
AwsLabels(c) ==
  {<<"region">>} \cup
  IF c.ec2 THEN {<<"availability", "zone">>, <<"container", "instance", "arn">>} ELSE {}

TagLabel(name) == <<"tag">> \o name
TagName(t) == <<t[1], Sanitize[t[2]]>>

(* Only the values that a filter or a route looks at are told apart. *)
ValueOf(c, label) ==
  CASE label = <<"cluster", "name">>   -> c.cluster
    [] label = <<"service", "name">>   -> c.service
    [] label = <<"task", "family">>    -> c.family
    [] label = <<"task", "arn">>       -> c.arn
    [] label = <<"task", "definition">> -> c.family
    [] label = <<"container", "name">> -> c.name
    [] label[1] = "tag" -> (CHOOSE t \in c.tags : TagLabel(TagName(t)) = label)[3]
    [] OTHER -> "set"

(* discover_cluster_targets builds at level aws, and adds the host port.   *)
AllLabels(c) ==
  LET keys == ContainerLabels \cup TaskLabels \cup ServiceLabels
                \cup ClusterLabels \cup AwsLabels(c)
                \cup {TagLabel(TagName(t)) : t \in c.tags}
                \cup (IF c.hostPort THEN {<<"host", "port">>} ELSE {})
  IN [k \in keys |-> ValueOf(c, k)]

Target(c) == [addr |-> c.addr, labels |-> AllLabels(c)]

-----------------------------------------------------------------------------
(* filter_labels_by_level *)

LevelOf(label) ==
  LET word == label[1]  longer == Len(label) > 1
  IN CASE word \in {"__scheme__", "__metrics_path__"} -> "container"
       [] word = "container" /\ longer -> "container"
       [] label = <<"metrics", "port">> -> "container"
       [] word = "task" /\ longer -> "task"
       [] word = "service" -> "service"
       [] word = "cluster" /\ longer -> "cluster"
       [] OTHER -> "aws"

AtLevel(target, level) ==
  LET kept == {k \in DOMAIN target.labels : LevelOf(k) \in Included[level]}
  IN [target EXCEPT !.labels = [k \in kept |-> target.labels[k]]]

(* route_id and resolve_identity_source: a discovered target never has a   *)
(* container id, so that the task definition identifies it; the faulty     *)
(* variant forgets the container's name.                                   *)
RouteOfTask(t) == t.labels[<<"task", "arn">>]
RouteId(t) ==
  <<t.labels[<<"task", "arn">>], t.labels[<<"container", "name">>],
    t.labels[<<"task", "definition">>]>>

(* build_routing_table: of two targets with one route the last one stays, *)
(* which is no matter of the code but of the order AWS answers in.         *)
RoutingTable(targets) ==
  [r \in {RouteId(t) : t \in targets} |-> CHOOSE t \in targets : RouteId(t) = r]

(* A refresh makes a new table; the faulty variant adds to the old one. *)
AddedRoutes(targets) == RoutingTable(targets) @@ snapshot.routes
Routes(targets) == IF proxyMode THEN RoutingTable(targets) ELSE << >>

BuildSnapshot(targets) ==
  [cache |-> [l \in Levels |-> {AtLevel(t, l) : t \in targets}],
   routes |-> Routes(targets),
   lastRefresh |-> now]

-----------------------------------------------------------------------------
(* filter_targets *)

Has(target, label, values) ==
  label \in DOMAIN target.labels /\ target.labels[label] \in values

(* The canonical label decides; the legacy one is for targets without it.  *)
HasEither(target, label, legacy, values) ==
  IF label \in DOMAIN target.labels THEN Has(target, label, values)
                                    ELSE Has(target, legacy, values)

(* Tag filters are grouped by name, wherever they stand in the query; the  *)
(* faulty variant keeps the last value of a name only.                     *)
LastValueWins(tags) ==
  FoldLeft(LAMBDA groups, t : [n \in DOMAIN groups \cup {t[1]} |->
                                 IF n = t[1] THEN {t[2]} ELSE groups[n]],
           << >>, tags)
TagGroups(tags) ==
  FoldLeft(LAMBDA groups, t : [n \in DOMAIN groups \cup {t[1]} |->
                                 (IF n \in DOMAIN groups THEN groups[n] ELSE {})
                                   \cup (IF n = t[1] THEN {t[2]} ELSE {})],
           << >>, tags)

Checks(target, q) ==
  LET groups == TagGroups(q.tags)
  IN (IF q.clusters = {} THEN {} ELSE
        {HasEither(target, <<"cluster", "name">>, <<"cluster">>, q.clusters)})
     \cup (IF q.services = {} THEN {} ELSE
        {HasEither(target, <<"service", "name">>, <<"service">>, q.services)})
     \cup (IF q.families = {} THEN {} ELSE
        {Has(target, <<"task", "family">>, q.families)})
     \cup {Has(target, TagLabel(n), groups[n]) : n \in DOMAIN groups}

Passes(target, q) ==
  \/ Checks(target, q) = {}
  \/ q.mode = "and" /\ FALSE \notin Checks(target, q)
  \/ q.mode = "or" /\ TRUE \in Checks(target, q)

LevelFor(q) == IF q.level = "default" THEN DefaultLevel ELSE q.level

(* build_proxy_sd_target: the proxy's address, the route in the path. *)
Proxied(route, target) ==
  [addr |-> "proxy",
   labels |-> [k \in DOMAIN target.labels \cup {<<"__scheme__">>, <<"__metrics_path__">>} |->
                 CASE k = <<"__metrics_path__">> -> route
                   [] k = <<"__scheme__">> -> "proxy scheme"
                   [] OTHER -> target.labels[k]]]

ProxyTargets(q) ==
  {t \in {AtLevel(Proxied(r, snapshot.routes[r]), LevelFor(q)) :
            r \in DOMAIN snapshot.routes} : Passes(t, q)}
DirectTargets(q) == {t \in snapshot.cache[LevelFor(q)] : Passes(t, q)}

(* duration_since fails when the clock went back, and the age is then 0;   *)
(* the faulty variant subtracts.                                           *)
AgeUnclamped(last) == now - last
CacheAge(last) == IF now < last THEN 0 ELSE now - last

-----------------------------------------------------------------------------
NoAnswer == [query |-> "none"]

(* The default snapshot: no level, no routes, refreshed at the epoch. *)
Init ==
  /\ proxyMode \in BOOLEAN
  /\ now \in 1..MaxClock
  /\ discovered = {}
  /\ snapshot = [cache |-> [l \in Levels |-> {}], routes |-> << >>, lastRefresh |-> 0]
  /\ answer = NoAnswer

(* Requests do not change what later requests see: the model takes them    *)
(* one by one, each in a state of its own.                                 *)
Delivered ==
  /\ answer # NoAnswer
  /\ answer' = NoAnswer
  /\ UNCHANGED <<proxyMode, now, discovered, snapshot>>

ClockMoves ==
  /\ answer = NoAnswer
  /\ now' \in 1..MaxClock
  /\ UNCHANGED <<proxyMode, discovered, snapshot, answer>>

(* replace_cache_and_routing *)
Refresh(S) ==
  /\ answer = NoAnswer
  /\ discovered' = S
  /\ snapshot' = BuildSnapshot({Target(c) : c \in S})
  /\ UNCHANGED <<proxyMode, now, answer>>

(* sd_handler *)
Serve(q) ==
  LET age == CacheAge(snapshot.lastRefresh)
  IN /\ answer = NoAnswer
     /\ answer' = [query |-> q,
                   targets |-> IF proxyMode THEN ProxyTargets(q) ELSE DirectTargets(q),
                   age |-> age,
                   state |-> IF age > CacheTtl THEN "stale" ELSE "fresh"]
     /\ UNCHANGED <<proxyMode, now, discovered, snapshot>>

Next ==
  \/ ClockMoves \/ Delivered
  \/ \E S \in SUBSET Containers : Refresh(S)
  \/ \E q \in Queries : Serve(q)

Spec == Init /\ [][Next]_vars

-----------------------------------------------------------------------------
(* Properties *)

Answered == answer # NoAnswer
Query == answer.query

(* The types; an age is never negative, also when the clock goes back. *)
TypeOK ==
  /\ proxyMode \in BOOLEAN
  /\ now \in 1..MaxClock /\ discovered \subseteq Containers
  /\ DOMAIN snapshot.cache = Levels /\ snapshot.lastRefresh \in 0..MaxClock
  /\ Answered => answer.age \in Nat /\ answer.state \in {"fresh", "stale"}

(* Higher levels show all labels of the lower ones, with the same values,  *)
(* of the same targets (configuration.md:85, MetadataLevel::includes and   *)
(* filter_labels_by_level, which keep one table and one list of prefixes). *)
LevelOrder == <<"container", "task", "service", "cluster", "aws">>
Extends(t, u) ==
  /\ t.addr = u.addr
  /\ \A k \in DOMAIN t.labels : k \in DOMAIN u.labels /\ t.labels[k] = u.labels[k]
LevelsNested ==
  \A i, j \in DOMAIN LevelOrder : i < j =>
    LET lower == snapshot.cache[LevelOrder[i]]
        higher == snapshot.cache[LevelOrder[j]]
    IN /\ \A t \in lower : \E u \in higher : Extends(t, u)
       /\ \A u \in higher : \E t \in lower : Extends(t, u)

(* What a container shows at a level, in discovery mode. *)
Shown(c, level) == AtLevel(Target(c), level)

(* What a request asks for, told from the containers themselves: a field   *)
(* is satisfied by any of its values, the values of one tag name are       *)
(* alternatives, and the fields that are present must all be satisfied, or *)
(* any of them.                                                            *)
Values(q) == [cluster |-> q.clusters, service |-> q.services, family |-> q.families]
Present(q) == {f \in {"cluster", "service", "family"} : Values(q)[f] # {}}
TagNames(q) == {q.tags[i][1] : i \in DOMAIN q.tags}
AskedTag(q, name, value) == \E i \in DOMAIN q.tags : q.tags[i] = <<name, value>>

Satisfied(q, fields, names) ==
  IF q.mode = "and" \/ (Present(q) = {} /\ q.tags = << >>)
    THEN Present(q) = fields /\ TagNames(q) = names
    ELSE fields # {} \/ names # {}

(* The filter looks at the labels that the level shows.  These are the     *)
(* levels at which it can tell a cluster, a service, a family and a tag; a *)
(* tag is named by its source and its sanitized key.  The table is one of  *)
(* its own beside the two of the code, LevelOf and Included.               *)
TellingLevels ==
  [cluster |-> {"cluster", "aws"}, service |-> {"service", "cluster", "aws"},
   family |-> Levels \ {"container"}, tag |-> {"aws"}]
Meets(c, q, field) ==
  LevelFor(q) \in TellingLevels[field] /\ c[field] \in Values(q)[field]
MeetsTag(c, q, name) ==
  /\ LevelFor(q) \in TellingLevels.tag
  /\ \E t \in c.tags : <<t[1], Sanitize[t[2]]>> = name /\ AskedTag(q, name, t[3])
Wanted(c, q) ==
  Satisfied(q, {f \in Present(q) : Meets(c, q, f)},
               {n \in TagNames(q) : MeetsTag(c, q, n)})

(* The answer holds exactly the containers that the request asks for, as   *)
(* far as its level can tell, with the labels that they have there         *)
(* (filter_targets over filter_labels_by_level and MetadataLevel).         *)
AnswerMeetsRequest ==
  Answered /\ ~proxyMode =>
    answer.targets =
      {Shown(c, LevelFor(Query)) : c \in {d \in discovered : Wanted(d, Query)}}

(* A proxy answers the same request with the same containers: none is      *)
(* hidden behind another's route, and the route that an entry shows leads  *)
(* to the address of the container whose labels it shows.                  *)
ProxyAnswersAlike ==
  Answered /\ proxyMode =>
    /\ Cardinality(answer.targets) = Cardinality({c \in discovered : Wanted(c, Query)})
    /\ \A t \in answer.targets : \E c \in discovered :
         /\ Wanted(c, Query)
         /\ snapshot.routes[t.labels[<<"__metrics_path__">>]].addr = c.addr
         /\ DOMAIN t.labels = DOMAIN Shown(c, LevelFor(Query)).labels

(* The same requests as they are documented: `cluster` filters by cluster  *)
(* name whatever the level (api.md:60, and api.md:146 at the default one), *)
(* and `tag_env=prod` by the ECS tag env, wherever the task has it from    *)
(* (api.md:63); the name with its source is documented too (api.md:176).   *)
DocumentedNames(t) == {<<Sanitize[t[2]]>>, <<t[1], Sanitize[t[2]]>>}
DocumentedlyWanted(c, q) ==
  Satisfied(q, {f \in Present(q) : c[f] \in Values(q)[f]},
               {n \in TagNames(q) :
                  \E t \in c.tags : n \in DocumentedNames(t) /\ AskedTag(q, n, t[3])})

(* Every container that a request asks for by the documents is in the      *)
(* answer (api.md:60-63, filter_targets).  It is not: see the run          *)
(* doc_filters.                                                            *)
AnswerAsDocumented ==
  Answered /\ ~proxyMode =>
    \A c \in discovered : DocumentedlyWanted(c, Query) =>
      \E t \in answer.targets : t.addr = c.addr
=============================================================================
