-------------------------- MODULE ProxyRouteProofs --------------------------
(***************************************************************************)
(* Proofs about ProxyRoute, for every set of containers and of requests.   *)
(*                                                                         *)
(* The properties are not inductive: the routes have to be those of the    *)
(* last refresh, no two containers may share an identity or an address,    *)
(* and a scrape on its way to an address must have had it from a route.    *)
(***************************************************************************)
EXTENDS ProxyRoute, SdQueryProofs

Discovered == {Target(c) : c \in discovered}

WorldInv == running \in Deployments /\ discovered \in Deployments

RoutesInv == proxyMode => snapshot.routes = RoutingTable(Discovered)

Stages == {"sending", "waiting", "streaming", "ended"}
Fields == {"stage", "want", "to", "reached", "status", "found"}

(* A scrape that is being sent has the address where the container that it *)
(* wants was found.                                                        *)
ScrapeInv ==
  Asked =>
    /\ DOMAIN scrape = Fields /\ scrape.stage \in Stages
    /\ scrape.status = 404 <=> ~(proxyMode /\ scrape.found # {})
    /\ scrape.stage # "ended" => scrape.status # 404
    /\ scrape.stage = "sending" => \E d \in scrape.found : d.addr = scrape.to
    /\ \A d \in scrape.found : Identity(d) = scrape.want

ProxyInv == WorldInv /\ RoutesInv /\ ScrapeInv

(* What the proxy has answered, by the same invariant. *)
EntryOf(c, q) == AtLevel(Proxied(Identity(c), Target(c)), LevelFor(q))
WantedOf(q) == {c \in discovered : Wanted(c, q)}
ProxyAnswerInv ==
  Answered /\ proxyMode =>
    Query \in Queries /\ answer.targets = {EntryOf(c, Query) : c \in WantedOf(Query)}

-----------------------------------------------------------------------------
(* Routes and containers *)

LEMMA RouteIsIdentity == \A c : RouteId(Target(c)) = Identity(c)
BY RouteOf DEF Identity

(* A route leads to a container that was found and that it identifies. *)
LEMMA RoutesLead ==
  ASSUME RoutesInv, proxyMode
  PROVE  /\ DOMAIN snapshot.routes = {Identity(c) : c \in discovered}
         /\ \A r \in DOMAIN snapshot.routes :
              \E d \in discovered : Identity(d) = r /\ snapshot.routes[r] = Target(d)
<1>1. snapshot.routes = RoutingTable(Discovered)
  BY DEF RoutesInv
<1>2. DOMAIN snapshot.routes = {RouteId(t) : t \in Discovered}
  BY <1>1 DEF RoutingTable
<1>3. ASSUME NEW r \in DOMAIN snapshot.routes
      PROVE  snapshot.routes[r] \in Discovered /\ RouteId(snapshot.routes[r]) = r
  <2>1. \E t \in Discovered : RouteId(t) = r
    BY <1>2
  <2>2. snapshot.routes[r] = CHOOSE t \in Discovered : RouteId(t) = r
    BY <1>1, <1>2 DEF RoutingTable
  <2> QED BY <2>1, <2>2
<1>4. {RouteId(t) : t \in Discovered} = {Identity(c) : c \in discovered}
  BY RouteIsIdentity DEF Discovered
<1>5. ASSUME NEW r \in DOMAIN snapshot.routes
      PROVE  \E d \in discovered : Identity(d) = r /\ snapshot.routes[r] = Target(d)
  <2>1. PICK d \in discovered : snapshot.routes[r] = Target(d)
    BY <1>3 DEF Discovered
  <2> QED BY <1>3, <2>1, RouteIsIdentity
<1> QED BY <1>2, <1>4, <1>5

LEMMA Distinct ==
  ASSUME NEW S \in Deployments, NEW c \in S, NEW d \in S,
         c.addr = d.addr \/ Identity(c) = Identity(d)
  PROVE  c = d
BY DEF Deployments

-----------------------------------------------------------------------------
(* The steps of a scrape *)

LEMMA ScrapeStarts ==
  ASSUME ProxyInv, NEW c \in Containers, Scrape(c)
  PROVE  ScrapeInv'
<1> DEFINE known == RouteId(Target(c)) \in DOMAIN snapshot.routes
           sent == proxyMode /\ known
           to == IF sent THEN snapshot.routes[RouteId(Target(c))].addr ELSE "nowhere"
           found == {d \in discovered : Identity(d) = Identity(c)}
           s == [stage |-> IF sent THEN "sending" ELSE "ended",
                 want |-> Identity(c), to |-> to, reached |-> << >>,
                 status |-> IF sent THEN 0 ELSE 404, found |-> found]
<1>1. scrape' = s /\ UNCHANGED <<vars, running>>
  BY Zenon DEF Scrape
<1>2. proxyMode => (known <=> found # {})
  <2>1. proxyMode => (known <=> \E d \in discovered : Identity(d) = Identity(c))
    BY RoutesLead, RouteIsIdentity DEF ProxyInv
  <2> QED BY <2>1
<1>3. sent => \E d \in found : d.addr = to
  <2> SUFFICES ASSUME sent PROVE \E d \in found : d.addr = to
    OBVIOUS
  <2>1. PICK d \in discovered : /\ Identity(d) = RouteId(Target(c))
                                /\ snapshot.routes[RouteId(Target(c))] = Target(d)
    BY RoutesLead DEF ProxyInv
  <2>2. to = d.addr
    BY <2>1 DEF Target
  <2> QED BY <2>1, <2>2, RouteIsIdentity
<1>4. \A d \in found : Identity(d) = Identity(c)
  OBVIOUS
<1> HIDE DEF known, to, found
<1>5. DOMAIN s = Fields /\ s.stage \in Stages
  BY DEF Fields, Stages
<1>6. /\ s.status = 404 <=> ~(proxyMode /\ s.found # {})
      /\ s.stage # "ended" => s.status # 404
      /\ s.stage = "sending" => sent
      /\ s.to = to /\ s.want = Identity(c) /\ s.found = found
  BY <1>2
<1> HIDE DEF s
<1> QED BY <1>1, <1>3, <1>4, <1>5, <1>6 DEF ScrapeInv, vars

(* Everything that may happen to a scrape under way: it goes on to another *)
(* stage, and what it wants and was found stays.                           *)
LEMMA ScrapeGoesOn ==
  ASSUME ProxyInv, Reach \/ Answers \/ SendFails \/ BodyEnds \/ Disconnects \/ Forget
  PROVE  ScrapeInv'
<1>0. UNCHANGED proxyMode /\ Asked
  <2>1. UNCHANGED proxyMode /\ scrape.stage # "none"
    BY DEF Reach, Answers, SendFails, BodyEnds, Disconnects, Forget, vars
  <2>2. NoScrape.stage = "none"
    BY DEF NoScrape
  <2> QED BY <2>1, <2>2 DEF Asked
<1>1. ScrapeInv /\ DOMAIN scrape = Fields /\ scrape.stage \in Stages
  BY <1>0 DEF ProxyInv, ScrapeInv
<1>2. CASE Forget
  BY <1>2 DEF Forget, ScrapeInv, Asked, NoScrape
<1>3. CASE Reach \/ Answers \/ SendFails \/ BodyEnds \/ Disconnects
  <2>1. /\ scrape.stage # "ended" /\ DOMAIN scrape' = Fields
        /\ scrape'.stage \in {"waiting", "streaming", "ended"}
        /\ scrape'.status \in {200, 502, scrape.status}
        /\ scrape'.found = scrape.found /\ scrape'.want = scrape.want
    <3>1. CASE Reach
      <4>1. \E x : scrape.stage = "sending"
                    /\ scrape' = [scrape EXCEPT !.stage = "waiting", !.reached = x]
        BY <3>1, Zenon DEF Reach
      <4> QED BY <1>1, <4>1 DEF Fields
    <3>2. CASE Answers
      BY <1>1, <3>2 DEF Fields, Answers
    <3>3. CASE SendFails
      BY <1>1, <3>3 DEF Fields, SendFails
    <3>4. CASE BodyEnds
      BY <1>1, <3>4 DEF Fields, BodyEnds
    <3>5. CASE Disconnects
      BY <1>1, <3>5 DEF Fields, Disconnects
    <3> QED BY <1>3, <3>1, <3>2, <3>3, <3>4, <3>5
  <2>2. scrape.status # 404
    BY <1>0, <1>1, <2>1 DEF ScrapeInv
  <2>3. scrape'.status # 404
    BY <2>1, <2>2
  <2> QED BY <1>0, <1>1, <2>1, <2>2, <2>3 DEF ScrapeInv, Stages
<1> QED BY <1>2, <1>3

LEMMA ScrapeStays ==
  ASSUME ScrapeInv, UNCHANGED <<proxyMode, scrape>>
  PROVE  ScrapeInv'
BY DEF ScrapeInv, Asked

-----------------------------------------------------------------------------
LEMMA ProxyStart == ProxyInit => ProxyInv
<1> SUFFICES ASSUME ProxyInit PROVE ProxyInv
  OBVIOUS
<1>1. running = {} /\ discovered = {} /\ snapshot.routes = << >> /\ scrape = NoScrape
  BY DEF ProxyInit, Init
<1>2. RoutingTable({}) = << >>
  BY DEF RoutingTable
<1>3. Discovered = {}
  BY <1>1 DEF Discovered
<1> QED BY <1>1, <1>2, <1>3
        DEF ProxyInv, WorldInv, RoutesInv, ScrapeInv, Asked, Deployments

LEMMA RoutesStep ==
  ASSUME ProxyInv, [ProxyNext]_proxyVars
  PROVE  WorldInv' /\ RoutesInv'
<1>1. CASE RefreshesNow
  <2>1. /\ discovered' = running /\ UNCHANGED <<running, proxyMode>>
        /\ snapshot' = BuildSnapshot({Target(c) : c \in running})
    BY <1>1 DEF RefreshesNow, Refresh
  <2>2. snapshot'.routes = Routes({Target(c) : c \in running})
    BY <2>1, Zenon DEF BuildSnapshot
  <2>3. Discovered' = {Target(c) : c \in running}
    BY <2>1 DEF Discovered
  <2> QED BY <2>1, <2>2, <2>3 DEF ProxyInv, WorldInv, RoutesInv, Routes
<1>2. CASE WorldChanges
  BY <1>2 DEF WorldChanges, ProxyInv, WorldInv, RoutesInv, Discovered, vars
<1>3. ASSUME UNCHANGED <<running, discovered, snapshot, proxyMode>>
      PROVE  WorldInv' /\ RoutesInv'
  BY <1>3 DEF ProxyInv, WorldInv, RoutesInv, Discovered
<1>4. RefreshesNow \/ WorldChanges \/ UNCHANGED <<running, discovered, snapshot, proxyMode>>
  BY DEF ProxyNext, proxyVars, vars, Scrape, Reach, Answers, SendFails, BodyEnds,
         Disconnects, Forget, Queried, ClockMoves, Delivered, Serve
<1> QED BY <1>1, <1>2, <1>3, <1>4

LEMMA ProxyStep == ProxyInv /\ [ProxyNext]_proxyVars => ProxyInv'
<1> SUFFICES ASSUME ProxyInv, [ProxyNext]_proxyVars PROVE ProxyInv'
  OBVIOUS
<1>1. ASSUME NEW c \in Containers, Scrape(c) PROVE ScrapeInv'
  BY <1>1, ScrapeStarts
<1>2. ASSUME Reach \/ Answers \/ SendFails \/ BodyEnds \/ Disconnects \/ Forget
      PROVE  ScrapeInv'
  BY <1>2, ScrapeGoesOn
<1>3. ASSUME WorldChanges \/ RefreshesNow \/ Queried \/ UNCHANGED proxyVars
      PROVE  ScrapeInv'
  <2>1. UNCHANGED <<proxyMode, scrape>>
    BY <1>3 DEF WorldChanges, RefreshesNow, Refresh, Queried, ClockMoves, Delivered, Serve,
                proxyVars, vars
  <2> QED BY <2>1, ScrapeStays DEF ProxyInv
<1>4. ScrapeInv'
  BY <1>1, <1>2, <1>3 DEF ProxyNext
<1> QED BY <1>4, RoutesStep DEF ProxyInv

LEMMA ProxyInvariant == ProxySpec => []ProxyInv
<1> QED BY ProxyStart, ProxyStep, PTL DEF ProxySpec

(* Whatever refreshes, moves and stops happen while a scrape is under way: *)
(* if its request arrives while the container it wants runs where the last *)
(* refresh before the lookup found it, then it is that container which it  *)
(* reaches (RouteIdentity, build_routing_table, proxy_handler).            *)
THEOREM ScrapesReach == ProxySpec => ScrapeReachesItsContainer
<1> DEFINE Right == Arrives /\ scrape.found \subseteq running => scrape'.reached = scrape.want
<1>1. ASSUME ProxyInv, [ProxyNext]_proxyVars, Arrives, scrape.found \subseteq running
      PROVE  scrape'.reached = scrape.want
  <2>1. scrape.stage = "sending" /\ scrape'.stage = "waiting"
    BY <1>1 DEF Arrives
  <2>2. Asked /\ DOMAIN scrape = Fields
    <3>1. scrape # NoScrape
      BY <2>1 DEF NoScrape
    <3> QED BY <1>1, <3>1 DEF Asked, ProxyInv, ScrapeInv
  <2>3. Reach
    <3>1. scrape' # scrape
      BY <2>1
    <3>2. ~(WorldChanges \/ RefreshesNow \/ Queried \/ UNCHANGED proxyVars)
      BY <3>1 DEF WorldChanges, RefreshesNow, Queried, proxyVars
    <3>3. \A c \in Containers : ~Scrape(c)
      BY <2>2 DEF Scrape, Asked
    <3>4. ~(Answers \/ BodyEnds \/ Forget)
      BY <2>1 DEF Answers, BodyEnds, Forget
    <3>5. ~(SendFails \/ Disconnects)
      BY <2>1, <2>2 DEF SendFails, Disconnects, Fields
    <3> QED BY <1>1, <3>2, <3>3, <3>4, <3>5 DEF ProxyNext
  <2>4. PICK d \in running : d.addr = scrape.to /\ scrape'.reached = Identity(d)
    BY <2>2, <2>3 DEF Reach, Fields
  <2>5. PICK e \in scrape.found : e.addr = scrape.to
    BY <1>1, <2>1, <2>2 DEF ProxyInv, ScrapeInv
  <2>6. Identity(e) = scrape.want
    BY <1>1, <2>2, <2>5 DEF ProxyInv, ScrapeInv
  <2>7. running \in Deployments /\ e \in running
    BY <1>1, <2>5 DEF ProxyInv, WorldInv
  <2>8. d = e
    BY <2>4, <2>5, <2>7, Distinct
  <2> QED BY <2>4, <2>6, <2>8
<1>2. ProxyInv /\ [ProxyNext]_proxyVars => [Right]_proxyVars
  BY <1>1
<1> QED BY <1>2, ProxyInvariant, PTL DEF ProxySpec, ScrapeReachesItsContainer

(* A scrape is answered 404 exactly when the process is no proxy or the    *)
(* last refresh did not find its container (replace_cache_and_routing).    *)
THEOREM RoutesAreCurrent == ProxySpec => []RoutesFollowRefresh
<1>1. ProxyInv => RoutesFollowRefresh
  BY DEF ProxyInv, ScrapeInv, RoutesFollowRefresh
<1> QED BY <1>1, ProxyInvariant, PTL

-----------------------------------------------------------------------------
(* To a request for targets, scrapes and containers are not there. *)
LEMMA QueriesBeside == ProxySpec => Spec
<1>1. ProxyInit => Init
  BY DEF ProxyInit
<1>2. ProxyInv /\ [ProxyNext]_proxyVars => [Next]_vars
  <2> SUFFICES ASSUME ProxyInv, ProxyNext PROVE [Next]_vars
    BY DEF proxyVars
  <2>1. CASE RefreshesNow
    <3>1. running \in SUBSET Containers
      BY DEF ProxyInv, WorldInv, Deployments
    <3> QED BY <2>1, <3>1 DEF RefreshesNow, Next
  <2>2. CASE Queried
    BY <2>2 DEF Queried, Next
  <2>3. RefreshesNow \/ Queried \/ UNCHANGED vars
    BY DEF ProxyNext, Scrape, Reach, Answers, SendFails, BodyEnds, Disconnects,
           Forget, WorldChanges
  <2> QED BY <2>1, <2>2, <2>3
<1> QED BY <1>1, <1>2, ProxyInvariant, PTL DEF ProxySpec, Spec

-----------------------------------------------------------------------------
(* What a proxy shows of a container *)

LEMMA EntryLabels ==
  ASSUME NEW c, NEW q \in Queries
  PROVE  /\ DOMAIN EntryOf(c, q).labels = DOMAIN Shown(c, LevelFor(q)).labels
         /\ Shows(EntryOf(c, q), c, LevelFor(q))
         /\ EntryOf(c, q).labels[<<"__metrics_path__">>] = Identity(c)
<1> DEFINE l == LevelFor(q)
           path == <<"__metrics_path__">>
           scheme == <<"__scheme__">>
           all == DOMAIN AllLabels(c)
           shown == {k \in all : LevelOf(k) \in Included[l]}
           P == [k \in all \cup {scheme, path} |->
                   CASE k = path -> Identity(c)
                     [] k = scheme -> "proxy scheme"
                     [] OTHER -> AllLabels(c)[k]]
<1>1. scheme \in all /\ path \in all
  BY LabelsOf DEF ContainerLabels
<1>2. all \cup {scheme, path} = all
  BY <1>1
<1>3. Proxied(Identity(c), Target(c)) = [addr |-> "proxy", labels |-> P]
  <2>1. Target(c).labels = AllLabels(c)
    BY DEF Target
  <2> DEFINE labels == Target(c).labels
             Q == [k \in DOMAIN labels \cup {scheme, path} |->
                     CASE k = path -> Identity(c)
                       [] k = scheme -> "proxy scheme"
                       [] OTHER -> labels[k]]
  <2>2. Proxied(Identity(c), Target(c)) = [addr |-> "proxy", labels |-> Q]
    BY Zenon DEF Proxied
  <2>3. Q = P
    <3>1. labels = AllLabels(c)
      BY <2>1
    <3> HIDE DEF labels
    <3> QED BY <3>1
  <2> HIDE DEF P, Q
  <2> QED BY <2>2, <2>3
<1>4. DOMAIN P = all
  BY <1>2
<1>5. EntryOf(c, q).labels = [k \in shown |-> P[k]]
  <2>1. {k \in DOMAIN P : LevelOf(k) \in Included[l]} = shown
    BY <1>4
  <2> HIDE DEF P, shown
  <2>2. AtLevel(Proxied(Identity(c), Target(c)), l).labels
          = [k \in {j \in DOMAIN P : LevelOf(j) \in Included[l]} |-> P[k]]
    <3> DEFINE t == [addr |-> "proxy", labels |-> P]
    <3>1. t.labels = P /\ t = Proxied(Identity(c), Target(c)) /\ "labels" \in DOMAIN t
      BY <1>3
    <3> HIDE DEF t
    <3> QED BY <3>1 DEF AtLevel
  <2> QED BY <2>1, <2>2 DEF EntryOf
<1>6. DOMAIN EntryOf(c, q).labels = shown /\ \A k \in shown : EntryOf(c, q).labels[k] = P[k]
  BY <1>5
<1>7. \A k \in shown : k \notin {scheme, path} => P[k] = AllLabels(c)[k]
  BY <1>1
<1>8. P[path] = Identity(c)
  BY <1>1
<1>9. path \in shown
  <2>1. l \in Levels
    BY ConstantsAssumption DEF LevelFor
  <2>2. LevelOf(path) = "container"
    BY DEF LevelOf
  <2>3. \A m \in Levels : "container" \in Included[m]
    BY DEF Levels, Included
  <2> QED BY <1>1, <2>1, <2>2, <2>3
<1>10. DOMAIN Shown(c, l).labels = shown
  BY ShownLabels
<1>11. Shows(EntryOf(c, q), c, l)
  <2> HIDE DEF P, l
  <2> QED BY <1>6, <1>7 DEF Shows
<1> HIDE DEF P, shown
<1> QED BY <1>6, <1>8, <1>9, <1>10, <1>11

(* Every container that was found has an entry of its own. *)
LEMMA EntriesDiffer ==
  ASSUME NEW S \in Deployments, NEW q \in Queries, NEW c \in S, NEW d \in S,
         EntryOf(c, q) = EntryOf(d, q)
  PROVE  c = d
<1>1. Identity(c) = Identity(d)
  BY EntryLabels
<1> QED BY <1>1, Distinct

-----------------------------------------------------------------------------
LEMMA ServedByProxy ==
  ASSUME ProxyInv, proxyMode, NEW q \in Queries
  PROVE  ProxyTargets(q) = {EntryOf(c, q) : c \in WantedOf(q)}
<1>1. \A c \in discovered : snapshot.routes[Identity(c)] = Target(c)
  <2> SUFFICES ASSUME NEW c \in discovered PROVE snapshot.routes[Identity(c)] = Target(c)
    OBVIOUS
  <2>1. PICK d \in discovered : /\ Identity(d) = Identity(c)
                                /\ snapshot.routes[Identity(c)] = Target(d)
    BY RoutesLead DEF ProxyInv
  <2>2. d = c
    BY <2>1, Distinct DEF ProxyInv, WorldInv
  <2> QED BY <2>1, <2>2
<1>2. DOMAIN snapshot.routes = {Identity(c) : c \in discovered}
  BY RoutesLead DEF ProxyInv
<1>3. {AtLevel(Proxied(r, snapshot.routes[r]), LevelFor(q)) : r \in DOMAIN snapshot.routes}
        = {EntryOf(c, q) : c \in discovered}
  BY <1>1, <1>2, Zenon DEF EntryOf
<1>4. ASSUME NEW c \in discovered
      PROVE  Passes(EntryOf(c, q), q) <=> Wanted(c, q)
  <2>1. c \in Containers
    BY DEF ProxyInv, WorldInv, Deployments
  <2> QED BY <2>1, EntryLabels, PassesWhatIsWanted
<1>5. ProxyTargets(q) = {t \in {EntryOf(c, q) : c \in discovered} : Passes(t, q)}
  BY <1>3, Zenon DEF ProxyTargets
<1> QED BY <1>4, <1>5 DEF WantedOf

LEMMA ProxyAnswerStep ==
  ProxyInv /\ ProxyAnswerInv /\ [ProxyNext]_proxyVars => ProxyAnswerInv'
<1> SUFFICES ASSUME ProxyInv, ProxyAnswerInv, [ProxyNext]_proxyVars PROVE ProxyAnswerInv'
  OBVIOUS
<1>1. ASSUME NEW q \in Queries, Serve(q), proxyMode PROVE ProxyAnswerInv'
  <2>1. /\ answer'.query = q /\ answer'.targets = ProxyTargets(q)
        /\ discovered' = discovered
    BY <1>1 DEF Serve
  <2>2. WantedOf(q)' = WantedOf(q)
    BY <2>1 DEF WantedOf
  <2>3. answer'.targets = {EntryOf(c, q) : c \in WantedOf(q)}
    BY <1>1, <2>1, ServedByProxy
  <2>4. Query' = q
    BY <2>1 DEF Query
  <2>5. {EntryOf(c, Query) : c \in WantedOf(Query)}' = {EntryOf(c, q) : c \in WantedOf(q)}
    BY <2>2, <2>4 DEF WantedOf
  <2> QED BY <2>1, <2>3, <2>4, <2>5 DEF ProxyAnswerInv
<1>2. ASSUME UNCHANGED <<answer, discovered, proxyMode>> PROVE ProxyAnswerInv'
  BY <1>2 DEF ProxyAnswerInv, Answered, Query, WantedOf
<1>3. ASSUME answer' = NoAnswer \/ ~proxyMode' PROVE ProxyAnswerInv'
  BY <1>3 DEF ProxyAnswerInv, Answered
<1>4. \/ \E q \in Queries : Serve(q) /\ (proxyMode \/ ~proxyMode')
      \/ UNCHANGED <<answer, discovered, proxyMode>>
      \/ answer' = NoAnswer
  <2>1. CASE RefreshesNow \/ Queried
    BY <2>1 DEF RefreshesNow, Refresh, Queried, ClockMoves, Delivered, Serve
  <2>2. CASE ~(RefreshesNow \/ Queried)
    BY <2>2 DEF ProxyNext, proxyVars, vars, Scrape, Reach, Answers, SendFails,
                BodyEnds, Disconnects, Forget, WorldChanges
  <2> QED BY <2>1, <2>2
<1> QED BY <1>1, <1>2, <1>3, <1>4

(* A proxy answers every request with an entry for each container that the *)
(* request asks for and for no other: none is hidden behind another's      *)
(* route, and the route that an entry shows leads to the address of the    *)
(* container whose labels it shows (build_proxy_sd_target, RouteIdentity). *)
THEOREM ProxyAnswers == ProxySpec => []ProxyAnswersAlike
<1>1. ProxyInit => ProxyAnswerInv
  BY DEF ProxyInit, Init, ProxyAnswerInv, Answered
<1>2. ProxyInv /\ ProxyAnswerInv => ProxyAnswersAlike
  <2> SUFFICES ASSUME ProxyInv, ProxyAnswerInv, Answered, proxyMode
               PROVE  ProxyAnswersAlike
    BY DEF ProxyAnswersAlike
  <2> DEFINE q == Query
             S == WantedOf(q)
             T == {EntryOf(c, q) : c \in S}
             f == [c \in S |-> EntryOf(c, q)]
  <2>1. q \in Queries /\ answer.targets = T
    BY DEF ProxyAnswerInv
  <2>2. S \subseteq discovered /\ discovered \in Deployments
    BY DEF WantedOf, ProxyInv, WorldInv
  <2>3. IsFiniteSet(S)
    <3>1. S \in SUBSET Containers
      BY <2>2 DEF Deployments
    <3> QED BY <3>1, FS_Subset, ConstantsAssumption
  <2>4. f \in Bijection(S, T)
    <3>1. \A c, d \in S : f[c] = f[d] => c = d
      BY <2>1, <2>2, EntriesDiffer
    <3>2. f \in [S -> T] /\ \A t \in T : \E c \in S : f[c] = t
      OBVIOUS
    <3> HIDE DEF f, S, T
    <3> QED BY <3>1, <3>2 DEF Bijection, Injection, Surjection, IsInjective
  <2>5. Cardinality(T) = Cardinality(S)
    <3>1. ExistsBijection(S, T)
      <4> HIDE DEF f, S, T
      <4> QED BY <2>4, Zenon DEF ExistsBijection
    <3> HIDE DEF S, T
    <3> QED BY <2>3, <3>1, FS_Bijection
  <2>6. ASSUME NEW t \in T
        PROVE  \E c \in discovered :
                 /\ Wanted(c, q)
                 /\ snapshot.routes[t.labels[<<"__metrics_path__">>]].addr = c.addr
                 /\ DOMAIN t.labels = DOMAIN Shown(c, LevelFor(q)).labels
    <3>1. PICK c \in S : t = EntryOf(c, q)
      OBVIOUS
    <3>2. c \in discovered /\ Wanted(c, q)
      BY <3>1 DEF WantedOf
    <3>3. /\ t.labels[<<"__metrics_path__">>] = Identity(c)
          /\ DOMAIN t.labels = DOMAIN Shown(c, LevelFor(q)).labels
      BY <2>1, <3>1, EntryLabels
    <3>4. PICK d \in discovered : /\ Identity(d) = Identity(c)
                                  /\ snapshot.routes[Identity(c)] = Target(d)
      BY <3>2, RoutesLead DEF ProxyInv
    <3>5. d = c
      BY <2>2, <3>2, <3>4, Distinct
    <3> QED BY <3>2, <3>3, <3>4, <3>5 DEF Target
  <2> HIDE DEF T, f
  <2> QED BY <2>1, <2>5, <2>6, Zenon DEF ProxyAnswersAlike, WantedOf
<1> QED BY <1>1, <1>2, ProxyAnswerStep, ProxyInvariant, PTL DEF ProxySpec

(* In discovery mode the answers are those that the requests ask for also  *)
(* while scrapes go through the process and containers come and go.        *)
THEOREM AnswersBesideScrapes == ProxySpec => []AnswerMeetsRequest
<1> QED BY QueriesBeside, AnswersMeetRequests, PTL
=============================================================================
