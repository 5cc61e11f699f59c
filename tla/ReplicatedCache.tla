--------------------------- MODULE ReplicatedCache ---------------------------
(***************************************************************************)
(* What a cluster of ecs-sd nodes promises about the lists its nodes       *)
(* serve, with none of the means: no views, elections, schedules, relays   *)
(* or failure detector.                                                    *)
(*                                                                         *)
(* Every start of a node, an instance, has a log of what it publishes, to  *)
(* which nobody else writes.  A node discovers, serves what it has found,  *)
(* and only then publishes, and it publishes what it serves at that time.  *)
(* Of every log a node has seen a beginning, which only grows while it     *)
(* runs; it may copy the last entry that it has seen of a node with no     *)
(* greater id, and serve the copy later.  A node that stops forgets all of *)
(* this and comes back as another instance; what nobody else has seen of a *)
(* log is lost with it.                                                    *)
(*                                                                         *)
(* A list is the version of the world it was discovered in, 0 for none.    *)
(***************************************************************************)
EXTENDS Integers, Sequences, FiniteSetsExt

CONSTANTS
  Nodes,     \* the node_ids, which are numbers
  Instances  \* pairs of a node_id and the number of a start

VARIABLES
  world,   \* the version of the set of running targets
  life,    \* how often each node was started
  log,     \* what each instance has published, as far as a node has it
  seen,    \* how many entries of each log each node has seen
  found,   \* what a node has discovered and not served yet
  owing,   \* whether a node has served a discovery and not published since
  copied,  \* what a node has copied and not served yet
  served   \* the list each node serves

vars == <<world, life, log, seen, found, owing, copied, served>>

Own(n) == <<n, life[n]>>
Nothing == [i \in Instances |-> 0]
LastOf(entries) == IF entries = << >> THEN 0 ELSE entries[Len(entries)]

Init ==
  /\ world = 1
  /\ life = [n \in Nodes |-> 0]
  /\ log = [i \in Instances |-> << >>]
  /\ seen = [n \in Nodes |-> Nothing]
  /\ found = [n \in Nodes |-> 0]
  /\ owing = [n \in Nodes |-> FALSE]
  /\ copied = [n \in Nodes |-> 0]
  /\ served = [n \in Nodes |-> 0]

WorldMoves ==
  /\ world' = world + 1
  /\ UNCHANGED <<life, log, seen, found, owing, copied, served>>

Holds(n, entries, f, o, c, s) ==
  /\ seen' = [seen EXCEPT ![n] = entries]
  /\ found' = [found EXCEPT ![n] = f]
  /\ owing' = [owing EXCEPT ![n] = o]
  /\ copied' = [copied EXCEPT ![n] = c]
  /\ served' = [served EXCEPT ![n] = s]

(* A new instance: nobody has published anything under its name, and it    *)
(* holds nothing.                                                          *)
Starts(n) ==
  /\ <<n, life[n] + 1>> \in Instances /\ log[<<n, life[n] + 1>>] = << >>
  /\ life' = [life EXCEPT ![n] = @ + 1]
  /\ Holds(n, Nothing, 0, FALSE, 0, 0)
  /\ UNCHANGED <<world, log>>

Stops(n) ==
  /\ Holds(n, Nothing, 0, FALSE, 0, 0)
  /\ log' = [i \in Instances |-> SubSeq(log[i], 1, Max({seen'[m][i] : m \in Nodes}))]
  /\ UNCHANGED <<world, life>>

Discovers(n) ==
  /\ Own(n) \in Instances /\ found[n] = 0 /\ ~owing[n]
  /\ found' = [found EXCEPT ![n] = world]
  /\ UNCHANGED <<world, life, log, seen, owing, copied, served>>

Serves(n) ==
  /\ found[n] # 0
  /\ served' = [served EXCEPT ![n] = found[n]]
  /\ found' = [found EXCEPT ![n] = 0]
  /\ owing' = [owing EXCEPT ![n] = TRUE]
  /\ UNCHANGED <<world, life, log, seen, copied>>

(* A node has seen all of its own log.  What the log ends with already is  *)
(* not published again.                                                    *)
Publishes(n) ==
  /\ owing[n] /\ seen[n][Own(n)] = Len(log[Own(n)])
  /\ owing' = [owing EXCEPT ![n] = FALSE]
  /\ IF LastOf(log[Own(n)]) = served[n]
       THEN UNCHANGED <<log, seen>>
       ELSE /\ log' = [log EXCEPT ![Own(n)] = Append(@, served[n])]
            /\ seen' = [seen EXCEPT ![n][Own(n)] = @ + 1]
  /\ UNCHANGED <<world, life, found, copied, served>>

Sees(n, i) ==
  /\ \E k \in (seen[n][i] + 1)..Len(log[i]) : seen' = [seen EXCEPT ![n][i] = k]
  /\ UNCHANGED <<world, life, log, found, owing, copied, served>>

Copies(n, i) ==
  /\ i[1] <= n /\ copied[n] = 0 /\ seen[n][i] > 0
  /\ copied' = [copied EXCEPT ![n] = log[i][seen[n][i]]]
  /\ UNCHANGED <<world, life, log, seen, found, owing, served>>

ServesCopy(n) ==
  /\ copied[n] # 0
  /\ served' = [served EXCEPT ![n] = copied[n]]
  /\ copied' = [copied EXCEPT ![n] = 0]
  /\ UNCHANGED <<world, life, log, seen, found, owing>>

Next ==
  \/ WorldMoves
  \/ \E n \in Nodes :
       \/ Starts(n) \/ Stops(n)
       \/ Discovers(n) \/ Serves(n) \/ Publishes(n) \/ ServesCopy(n)
       \/ \E i \in Instances : Sees(n, i) \/ Copies(n, i)

Spec == Init /\ [][Next]_vars
=============================================================================
