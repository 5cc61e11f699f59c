---------------------------- MODULE MCProxyRoute ----------------------------
(* ProxyRoute for TLC; the second task may also run at the address that the *)
(* Fargate task has, when that one does not run.                            *)
EXTENDS ProxyRoute, MCSdQuery

MCMoving ==
  MCContainers \cup {[c EXCEPT !.addr = "a4"] : c \in {d \in MCContainers : d.arn = "task2"}}
=============================================================================
