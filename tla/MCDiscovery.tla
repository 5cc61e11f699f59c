----------------------------- MODULE MCDiscovery -----------------------------
(* A small cluster for TLC.  Two services; the EC2 tasks a1 and a2 share a  *)
(* task definition and run on two machines, w waits for a container         *)
(* instance, and b1 is a Fargate task.                                      *)
EXTENDS Discovery, TLC

CONSTANTS web, batch, a1, a2, b1, w, shared, own, i1, i2, m1, m2

MCServices == {web, batch}
MCTasks == {a1, a2, b1, w}
MCDefs == {shared, own}
MCServiceOf == (a1 :> web) @@ (a2 :> web) @@ (w :> batch) @@ (b1 :> batch)
MCLaunch == [t \in MCTasks |-> IF t = b1 THEN "FARGATE" ELSE "EC2"]
MCInstanceOf == (a1 :> i1) @@ (a2 :> i2) @@ (w :> Nowhere) @@ (b1 :> Nowhere)
MCDefOf == [t \in MCTasks |-> IF t = b1 THEN own ELSE shared]
MCNetworkOf == [d \in MCDefs |-> IF d = own THEN "awsvpc" ELSE "bridge"]
MCMachineOf == [i \in {i1, i2} |-> IF i = i1 THEN m1 ELSE m2]

Container(name, scrape, port) == [name |-> name, scrape |-> scrape, port |-> port]
MCContainersOf ==
  [d \in MCDefs |->
     IF d = own THEN {Container("app", TRUE, 80), Container("log", FALSE, 80)}
     ELSE {Container("app", TRUE, 80), Container("side", TRUE, 90),
           Container("bad", TRUE, NoPort)}]
MCHostPorts ==
  {[task |-> a1, name |-> "app", port |-> 80, host |-> 32768],
   [task |-> a2, name |-> "app", port |-> 80, host |-> 32769]}
=============================================================================
