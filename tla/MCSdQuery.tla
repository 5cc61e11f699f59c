------------------------------ MODULE MCSdQuery ------------------------------
(* SdQuery for TLC: two containers of one task on EC2, a task of another    *)
(* family in the same cluster, and a Fargate task in a second cluster.      *)
EXTENDS SdQuery

MCSanitize == [Env |-> "env", team |-> "team"]

Sidecar(addr, name, host) ==
  [addr |-> addr, arn |-> "task1", name |-> name, cluster |-> "prod",
   service |-> "api", family |-> "f1", ec2 |-> TRUE, hostPort |-> host,
   tags |-> {<<"task", "Env", "prod">>, <<"service", "team", "obs">>}]

MCContainers ==
  {Sidecar("a1", "app", TRUE), Sidecar("a2", "side", FALSE),
   [addr |-> "a3", arn |-> "task2", name |-> "app", cluster |-> "prod",
    service |-> "job", family |-> "f2", ec2 |-> TRUE, hostPort |-> FALSE,
    tags |-> {<<"task", "Env", "staging">>, <<"task", "team", "obs">>}],
   [addr |-> "a4", arn |-> "task3", name |-> "app", cluster |-> "test",
    service |-> "api", family |-> "f1", ec2 |-> FALSE, hostPort |-> FALSE,
    tags |-> {<<"task", "Env", "prod">>, <<"cluster", "team", "web">>}]}

Tag(name, value) == <<name, value>>
EnvProd == Tag(<<"task", "env">>, "prod")
EnvStaging == Tag(<<"task", "env">>, "staging")
TeamObs == Tag(<<"task", "team">>, "obs")

(* Tag filters of up to three parts, with one name on both sides of another *)
(* one, and the plain names that the docs use.                              *)
MCTags ==
  {<< >>, <<EnvProd>>, <<EnvProd, EnvStaging>>, <<EnvStaging, TeamObs>>,
   <<EnvProd, TeamObs, EnvStaging>>, <<Tag(<<"env">>, "prod")>>}

MCQueries ==
  [level : Levels \cup {"default"}, clusters : {{}, {"prod"}, {"prod", "test"}},
   services : {{}, {"api"}}, families : {{}, {"f2"}}, tags : MCTags,
   mode : {"and", "or"}]

(* One request of the documents, cluster=prod&tag_team=obs&filter_mode=or,  *)
(* at the default level: neither filter finds a container.                 *)
MCDocumented ==
  {[level |-> "default", clusters |-> {"prod"}, services |-> {}, families |-> {},
    tags |-> <<Tag(<<"team">>, "obs")>>, mode |-> "or"]}
=============================================================================
