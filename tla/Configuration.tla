---------------------------- MODULE Configuration ----------------------------
(***************************************************************************)
(* Config::try_from_args: which arguments a process starts with, and what  *)
(* it makes of them.  Arguments are already split at their commas and      *)
(* trimmed; a duration is a number of milliseconds; the drop ratio counts  *)
(* hundredths and is the set of its one value, empty for the NaN that      *)
(* clap's parser for f64 lets through: no comparison holds for it.  An URL *)
(* is the record of the parts that are looked at.                          *)
(***************************************************************************)
EXTENDS Integers, Functions

CONSTANT Absent  \* None

(* split(',').map(trim).filter(non-empty), of which order and repetition   *)
(* are left out: no check and no property here looks at them.              *)
Entries(seq) == Range(seq) \ {""}

(* A seed is host:port: without a colon, or with a port that is no u16, it *)
(* is refused.  The model names the three kinds.                           *)
GoodSeeds(seeds) == seeds \subseteq {"host:port"}

(* Duration::as_secs, and a zero is refused; the faulty variant compares   *)
(* the duration itself with zero only.                                     *)
WholeSeconds(ms) == ms \div 1000
PositiveDuration(ms) == ms > 0
GoodInterval(ms) == ms > 0 /\ WholeSeconds(ms) >= 1

(* The range check refuses by comparison, and so lets NaN pass. *)
GoodRatio(r) == ~\E x \in r : x < 0 \/ x > 100

(* host.parse::<IpAddr>: the host of an URL keeps the brackets around an   *)
(* IPv6 address, so that only an IPv4 address is recognised.               *)
IsIpAddr(host) == host = "ipv4"

(* normalize_public_address; an absent address is refused in proxy mode    *)
(* only, a given one is checked in every mode.                             *)
GoodAddress(mode, url) ==
  IF url = Absent THEN mode # "proxy"
  ELSE /\ url.parses
       /\ url.scheme \in {"http", "https"}
       /\ ~url.userinfo /\ ~url.more
       /\ ~IsIpAddr(url.host)

(* port_or_known_default *)
PortOf(url) ==
  IF url.port # Absent THEN url.port ELSE IF url.scheme = "https" THEN 443 ELSE 80

PublicAddress(url) == IF url = Absent THEN Absent ELSE <<url.host, PortOf(url)>>
PublicScheme(url) == IF url = Absent THEN Absent ELSE url.scheme

(* The error returns of try_from_args, none of which leaves a Config. *)
Accepts(a) ==
  /\ Entries(a.clusters) # {}
  /\ a.listen
  /\ GoodInterval(a.interval)
  /\ GoodInterval(a.minInterval)
  /\ GoodAddress(a.mode, a.publicAddress)
  /\ GoodSeeds(Entries(a.seeds))
  /\ GoodRatio(a.dropRatio)

ConfigOf(a) ==
  [clusters |-> Entries(a.clusters),
   refreshInterval |-> WholeSeconds(a.interval),
   refreshMinInterval |-> WholeSeconds(a.minInterval),
   mode |-> a.mode,
   publicAddress |-> PublicAddress(a.publicAddress),
   publicScheme |-> PublicScheme(a.publicAddress),
   clusterMode |-> a.clusterMode,
   seeds |-> Entries(a.seeds),
   metricsPort |-> a.metricsPort,
   dropRatio |-> a.dropRatio]

(* What the other modules assume of a configuration: something to          *)
(* discover, a rate limit and a cache lifetime that are not zero seconds,  *)
(* in proxy mode an address to show, and a drop limit that is a fraction   *)
(* or, for NaN, one that no comparison exceeds.                            *)
Sound(c) ==
  /\ c.clusters # {} /\ "" \notin c.clusters
  /\ c.refreshInterval >= 1 /\ c.refreshMinInterval >= 1
  /\ c.mode = "proxy" => c.publicAddress # Absent /\ c.publicScheme \in {"http", "https"}
  /\ c.dropRatio \subseteq 0..100
=============================================================================
