----------------------------- MODULE ProxyRoute -----------------------------
(***************************************************************************)
(* GET /proxy/{id}/{path}: a scrape that goes through ecs-sd, beside the   *)
(* refreshes of SdQuery and a world that goes on changing.  The handler    *)
(* looks the route up under the read lock, releases it, sends the request  *)
(* to the address it found, and streams the answer back.                   *)
(*                                                                         *)
(* A client may ask for any route it ever saw: ids are hashes that outlive *)
(* refreshes and restarts.  Scrapes share nothing but counters, so one at  *)
(* a time is enough.  The http client and the containers are external.     *)
(* Paths, forwarded headers and the length of the timeout are left out:    *)
(* whenever the client looks at it, it may have run out.                   *)
(***************************************************************************)
EXTENDS SdQuery

VARIABLES
  running,  \* AWS: the containers that run now
  scrape    \* the scrape under way or just ended

proxyVars == <<vars, running, scrape>>

(* What makes a container one and the same over a change of its address. *)
Identity(c) == <<c.arn, c.name, c.family>>
Deployments ==
  {S \in SUBSET Containers :
     \A c, d \in S : c = d \/ (Identity(c) # Identity(d) /\ c.addr # d.addr)}

NoScrape == [stage |-> "none"]

(* Bound: no clock matters to a scrape, so it is taken at one time only,   *)
(* and a scrape that has ended is looked at before anything else happens.  *)
ScrapeTime == answer = NoAnswer /\ now = MaxClock /\ scrape.stage # "ended"

-----------------------------------------------------------------------------
(* proxy_handler up to its answer or the send: the mode and the lookup.    *)
(* The last field is a history: where the last refresh before the lookup   *)
(* found the wanted container, if it did.                                  *)
Scrape(c) ==
  LET id == RouteId(Target(c))
      known == id \in DOMAIN snapshot.routes
  IN /\ scrape = NoScrape /\ ScrapeTime
     /\ scrape' =
          [stage   |-> IF proxyMode /\ known THEN "sending" ELSE "ended",
           want    |-> Identity(c),
           to      |-> IF proxyMode /\ known THEN snapshot.routes[id].addr ELSE "nowhere",
           reached |-> << >>,
           status  |-> IF proxyMode /\ known THEN 0 ELSE 404,
           found   |-> {d \in discovered : Identity(d) = Identity(c)}]
     /\ UNCHANGED <<vars, running>>

(* The request arrives at whatever container has that address now. *)
Reach ==
  /\ scrape.stage = "sending"
  /\ \E d \in running :
       /\ d.addr = scrape.to
       /\ scrape' = [scrape EXCEPT !.stage = "waiting", !.reached = Identity(d)]
  /\ UNCHANGED <<vars, running>>

Answers ==
  /\ scrape.stage = "waiting"
  /\ scrape' = [scrape EXCEPT !.stage = "streaming", !.status = 200]
  /\ UNCHANGED <<vars, running>>

(* send fails: refused, reset, or out of time while the head is awaited.   *)
SendFails ==
  /\ scrape.stage \in {"sending", "waiting"}
  /\ scrape' = [scrape EXCEPT !.stage = "ended", !.status = 502]
  /\ UNCHANGED <<vars, running>>

(* The body ends; or it breaks off, or is out of time when the client      *)
(* reads on, under a status that has gone out already.                     *)
BodyEnds ==
  /\ scrape.stage = "streaming"
  /\ scrape' = [scrape EXCEPT !.stage = "ended"]
  /\ UNCHANGED <<vars, running>>

(* The client goes away while the handler waits, which is then dropped. *)
Disconnects ==
  /\ scrape.stage \in {"sending", "waiting"}
  /\ scrape' = [scrape EXCEPT !.stage = "ended"]
  /\ UNCHANGED <<vars, running>>

Forget ==
  /\ scrape.stage = "ended"
  /\ scrape' = NoScrape
  /\ UNCHANGED <<vars, running>>

(* Some containers of one task start, stop or move. *)
WorldChanges ==
  /\ ScrapeTime
  /\ running' \in {S \in Deployments \ {running} :
                   \E task \in {c.arn : c \in Containers} :
                     \A c \in Containers : c.arn # task => (c \in S <=> c \in running)}
  /\ UNCHANGED <<vars, scrape>>

(* A refresh finds what runs. *)
RefreshesNow ==
  /\ scrape.stage # "ended"
  /\ Refresh(running)
  /\ UNCHANGED <<running, scrape>>

(* Requests for targets read the snapshot only: they are taken when it is  *)
(* new and no scrape is under way.                                         *)
Queried ==
  /\ scrape = NoScrape /\ running = discovered
  /\ ClockMoves \/ Delivered \/ \E q \in Queries : Serve(q)
  /\ UNCHANGED <<running, scrape>>

ProxyInit == Init /\ running = {} /\ scrape = NoScrape

ProxyNext ==
  \/ \E c \in Containers : Scrape(c)
  \/ Reach \/ Answers \/ SendFails \/ BodyEnds \/ Disconnects \/ Forget
  \/ WorldChanges \/ RefreshesNow \/ Queried

ProxySpec == ProxyInit /\ [][ProxyNext]_proxyVars

-----------------------------------------------------------------------------
(* Properties *)

Asked == scrape # NoScrape

(* Whatever refreshes, moves and stops happen while a scrape is under way: *)
(* if its request arrives while the container it wants runs where the last *)
(* refresh before the lookup found it, then it is that container which it  *)
(* reaches (RouteIdentity, build_routing_table, proxy_handler).            *)
Arrives == scrape.stage = "sending" /\ scrape'.stage = "waiting"
ScrapeReachesItsContainer ==
  [][Arrives /\ scrape.found \subseteq running => scrape'.reached = scrape.want]_proxyVars

(* In proxy mode a scrape is sent on if, and only if, the last refresh     *)
(* found its container, under whatever address: new ones are routable,     *)
(* stopped ones are not (proxy-mode.md:254-257, replace_cache_and_routing).*)
RoutesFollowRefresh ==
  Asked => (scrape.status = 404 <=> ~(proxyMode /\ scrape.found # {}))
=============================================================================
