----------------------------- MODULE MCProcess -----------------------------
(* Six seconds to a unit: a period of one minute, a tenth of it as jitter. *)
EXTENDS Process

Domain == [parses |-> TRUE, scheme |-> "https", userinfo |-> FALSE, more |-> FALSE,
           host |-> "domain", port |-> Absent]

Usual == [clusters |-> <<"a">>, listen |-> TRUE, interval |-> 60000,
          minInterval |-> 30000, mode |-> "discovery", publicAddress |-> Absent,
          clusterMode |-> "cluster", seeds |-> << >>, metricsPort |-> Absent,
          dropRatio |-> {0}]

Addresses == {Absent, Domain}
  \cup {[Domain EXCEPT !.host = h] : h \in {"ipv4", "ipv6"}}
  \cup {[Domain EXCEPT !.scheme = s, !.port = p] :
          s \in {"http", "ftp"}, p \in {Absent, 8443}}
  \cup {[Domain EXCEPT !.parses = FALSE], [Domain EXCEPT !.userinfo = TRUE],
        [Domain EXCEPT !.more = TRUE]}

(* Values at and beside every limit, several wrong ones at a time. *)
MCArguments ==
  {[Usual EXCEPT !.clusters = cs, !.interval = i, !.minInterval = j,
                 !.seeds = ss, !.dropRatio = r, !.listen = l] :
     cs \in {<< >>, <<"">>, <<"a">>, <<"", "a", "a">>},
     i \in {0, 1, 999, 1000, 60000}, j \in {0, 999, 1999},
     ss \in {<< >>, <<"">>, <<"host:port", "host">>, <<"host:port">>},
     r \in {{-1}, {0}, {100}, {101}, {}}, l \in BOOLEAN}
  \cup {[Usual EXCEPT !.mode = m, !.publicAddress = u] :
     m \in {"discovery", "proxy"}, u \in Addresses}
  \cup {[Usual EXCEPT !.clusterMode = c, !.metricsPort = p] :
     c \in {"standalone", "cluster"}, p \in {Absent, "listen", "other"}}
=============================================================================
