------------------------------- MODULE Partition -------------------------------
(***************************************************************************)
(* Where an allocation is accounted for: the application that holds it, the *)
(* node it runs on, the queue it counts against and the counters of the    *)
(* partition.  Each has a lock of its own, and the scheduling cycle, the   *)
(* handler of RM events and the handler of node events update them one     *)
(* after the other.                                                        *)
(*                                                                         *)
(* One application and its leaf queue; what other applications use of the  *)
(* queue is Others.  The states and timers of the application are those of *)
(* module Application; here its methods may be called whenever their own   *)
(* checks on asks and allocations let them.  A resource is one number.     *)
(***************************************************************************)
EXTENDS Integers, Sequences, FiniteSetsExt

CONSTANTS
  Nodes,           \* node objects; an object is never registered twice
  None,
  Capacity,        \* the capacity of each node
  Others,          \* what other applications have allocated in the queue
  Scenes           \* applications, and what the RM does with them

VARIABLE scene     \* the application, and what the RM does with it

Keys == scene.keys                  \* allocation keys of the application
Placeholders == scene.placeholders  \* keys of placeholders
Gang == scene.gang                  \* keys of the task group, placeholders included
Res == scene.res                    \* the resource of each key
QueueMax == scene.queueMax          \* the quota of the queue
Recovered == scene.recovered        \* keys the RM may report as running
Stoppable == scene.stoppable        \* keys the RM may stop by itself
Failable == scene.failable          \* keys the shim may fail to bind
NodesLeave == scene.nodesLeave      \* nodes the RM may take away
Serial == scene.serial              \* events are handled one after the other

ASSUME PartitionAssumption ==
  /\ None \notin Nodes /\ Capacity \in [Nodes -> Nat] /\ Others \in Nat
  /\ \A s \in Scenes :
       /\ s.placeholders \subseteq s.gang /\ s.gang \subseteq s.keys /\ None \notin s.keys
       /\ s.res \in [s.keys -> Nat \ {0}] /\ s.queueMax \in Nat /\ Others <= s.queueMax
       /\ s.recovered \cup s.stoppable \cup s.failable \subseteq s.keys
       /\ s.nodesLeave \subseteq Nodes /\ s.serial \in BOOLEAN

VARIABLES
  registered,      \* pc.applications holds the application
  inQueue,         \* the queue holds the application
  nodes,           \* pc.nodes
  app,             \* the maps of the application and the allocation objects
  node,            \* allocations and allocatedResource of each node
  queue,           \* allocatedResource of the queue
  allocations,     \* pc.allocations
  phAllocations,   \* pc.placeholderAllocations
  fresh,           \* keys the RM has not sent yet
  live,            \* keys whose pod exists in the RM
  bound,           \* the node the RM was told to run each pod on
  swaps,           \* placeholders the RM was asked to release for a swap
  todo,            \* the calls each goroutine has still to make
  leaving,         \* allocations removeNodeAllocations has still to look at
  panic,           \* a nil pointer was dereferenced
  orphans          \* history: placeholders whose swap lost the node of the real pod

counters == <<queue, allocations, phAllocations>>
rmVars == <<fresh, live, bound, swaps>>
vars == <<scene, registered, inQueue, nodes, app, node, counters, rmVars, todo, leaving,
          panic, orphans>>

Threads == {"sched", "rm", "node"}

\* requests, marked (asks whose allocated flag is set), allocations and released
\* are sets of keys; nodeID and release are fields of the allocation objects; open
\* is Count - Replaced - TimedOut of the placeholder data.
ApplicationRecord ==
  [requests : SUBSET Keys, marked : SUBSET Keys, allocations : SUBSET Keys,
   released : SUBSET Placeholders, nodeID : [Keys -> Nodes \cup {None}],
   release : [Keys -> Keys \cup {None}], open : Int]

NodeRecord == [allocs : SUBSET Keys, used : Nat]

Op ==
       [op : {"tryNode", "allocate", "bind", "setNode", "allocateAsk", "nodeAdd",
              "RemoveAllocation", "replacePlaceholderOnNode", "rollbackNode"},
        key : Keys, node : Nodes]
  \cup [op : {"trySwap"}, key : Keys, ph : Placeholders, node : Nodes]
  \cup [op : {"unwind", "AddAllocation", "count", "removeAsk", "removeNodeAllocation"},
        key : Keys]
  \cup [op : {"GetNode"}, key : Keys,
        use : {"RemoveAllocation", "replacePlaceholderOnNode"}]
  \cup [op : {"updateTotals"}, total : Nat, num : {0, 1}]
  \cup [op : {"removeAsks", "RemoveApplication", "RemoveAllAllocations"}]
  \cup [op : {"clearNodes"}, keys : SUBSET Keys]
  \cup [op : {"GetYunikornAllocations"}, node : Nodes]
  \cup [op : {"walk"}, released : Nat, confirmed : Nat]

Init ==
  /\ scene \in Scenes
  /\ registered = TRUE /\ inQueue = TRUE /\ nodes = Nodes
  /\ app = [requests |-> {}, marked |-> {}, allocations |-> {}, released |-> {},
            nodeID |-> [k \in Keys |-> None], release |-> [k \in Keys |-> None],
            open |-> 0]
  /\ node = [n \in Nodes |-> [allocs |-> {}, used |-> 0]]
  /\ queue = Others /\ allocations = 0 /\ phAllocations = 0
  /\ fresh = Keys /\ live = {} /\ swaps = {}
  /\ bound = [k \in Keys |-> None]
  /\ todo = [t \in Threads |-> <<>>] /\ leaving = {} /\ panic = FALSE
  /\ orphans = {}

total(S) == MapThenSumSet(LAMBDA k : Res[k], S)

-----------------------------------------------------------------------------
(* Goroutines *)

\* tryAllocate and tryPlaceholderAllocate hold the application lock from the
\* choice of a node to the update of the application.
Locked == todo["sched"] # <<>> /\ Head(todo["sched"]).op \in {"tryNode", "trySwap"}

Start(t) ==
  /\ ~panic /\ todo[t] = <<>>
  /\ Serial => \A u \in Threads : todo[u] = <<>>

Call(t, op) == ~panic /\ todo[t] # <<>> /\ Head(todo[t]).op = op

Then(t, ops) == todo' = [todo EXCEPT ![t] = ops]

-----------------------------------------------------------------------------
(* Node and queue *)

\* availableResource.FitIn under the node lock.
fits(n, k) == node[n].used + Res[k] <= Capacity[n]

\* A key that is on the node already is counted twice.
addAllocationInternal(n, k) ==
  [node EXCEPT ![n] = [allocs |-> @.allocs \cup {k}, used |-> @.used + Res[k]]]

\* Node.RemoveAllocation for the keys of S that are on node n.
removeFromNode(n, S) ==
  [node EXCEPT ![n] = [allocs |-> @.allocs \ S,
                       used |-> @.used - total(@.allocs \cap S)]]

ReplaceOnNode(n, p, k) ==
  [node EXCEPT ![n] = [allocs |-> (@.allocs \ {p}) \cup {k},
                       used |-> @.used + Res[k] - Res[p]]]

\* The queue refuses to go below zero.
DecAllocatedResource(q, r) == IF r <= q THEN q - r ELSE q

ph(k) == IF k \in Placeholders THEN 1 ELSE 0

-----------------------------------------------------------------------------
(* The scheduling cycle *)

pending == app.requests \ app.marked

\* Real pods of the task group wait as long as there are placeholders.
canReplace(k) == k \in Gang \ Placeholders /\ app.open > 0

\* The iterator is built from the nodes registered at that moment.
GetNodeIterator(k, n) ==
  /\ Start("sched") /\ inQueue /\ k \in pending /\ n \in nodes
  /\ \/ ~canReplace(k) /\ Then("sched", <<[op |-> "tryNode", key |-> k, node |-> n]>>)
     \/ \E p \in (app.allocations \cap Placeholders) \ app.released :
          /\ phAllocations # 0 /\ k \in Gang \ Placeholders
          /\ Res[k] <= Res[p] /\ n # app.nodeID[p]
          /\ Then("sched", <<[op |-> "trySwap", key |-> k, ph |-> p, node |-> n]>>)
  /\ UNCHANGED <<registered, inQueue, nodes, app, node, counters, rmVars, leaving, panic>>

\* The node takes the allocation, then the queue, then the application; when the
\* queue is full the node is put back.
tryNode ==
  LET c == Head(todo["sched"])
      ok == fits(c.node, c.key) /\ queue + Res[c.key] <= QueueMax
  IN  /\ Call("sched", "tryNode")
      /\ node' = IF ok THEN addAllocationInternal(c.node, c.key) ELSE node
      /\ queue' = IF ok THEN queue + Res[c.key] ELSE queue
      /\ app' = IF ok THEN [app EXCEPT !.marked = @ \cup {c.key},
                                       !.allocations = @ \cup {c.key}] ELSE app
      /\ Then("sched", IF ok THEN <<[c EXCEPT !.op = "allocate"]>> ELSE <<>>)
      /\ UNCHANGED <<registered, inQueue, nodes, allocations, phAllocations,
                     rmVars, leaving, panic>>

link(k, p, n) ==
  [app EXCEPT !.marked = @ \cup {k}, !.released = @ \cup {p}, !.nodeID[k] = n,
              !.release = [@ EXCEPT ![k] = p, ![p] = k]]

\* The real pod goes to the node of the placeholder, which has room for it.
tryPlaceholderAllocate(k, p) ==
  /\ Start("sched") /\ inQueue /\ phAllocations # 0
  /\ k \in pending \cap (Gang \ Placeholders)
  /\ p \in (app.allocations \cap Placeholders) \ app.released
  /\ Res[k] <= Res[p] /\ app.nodeID[p] \in nodes
  /\ app' = link(k, p, app.nodeID[p])
  /\ swaps' = swaps \cup {p}
  /\ UNCHANGED <<registered, inQueue, nodes, node, counters, fresh, live, bound, todo,
                 leaving, panic>>

\* The shim's predicates refused that node (they then refuse it for an allocation
\* too): another node keeps a spot for the real pod.
trySwap ==
  LET c == Head(todo["sched"])
  IN  /\ Call("sched", "trySwap")
      /\ node' = IF fits(c.node, c.key) THEN addAllocationInternal(c.node, c.key) ELSE node
      /\ app' = IF fits(c.node, c.key) THEN link(c.key, c.ph, c.node) ELSE app
      /\ swaps' = IF fits(c.node, c.key) THEN swaps \cup {c.ph} ELSE swaps
      /\ Then("sched", <<>>)
      /\ UNCHANGED <<registered, inQueue, nodes, counters, fresh, live, bound, leaving,
                     panic>>

\* PartitionContext.allocate looks application and node up again.
allocate ==
  LET c == Head(todo["sched"])
  IN  /\ Call("sched", "allocate")
      /\ Then("sched",
           CASE ~registered -> <<>>
             [] registered /\ c.node \in nodes -> <<[c EXCEPT !.op = "bind"]>>
             [] registered /\ c.node \notin nodes -> <<[op |-> "unwind", key |-> c.key]>>)
      /\ UNCHANGED <<registered, inQueue, nodes, app, node, counters, rmVars, leaving, panic>>

\* DeallocateAsk: the ask is pending again.
DeallocateAsk(a, k) == IF k \in a.requests THEN [a EXCEPT !.marked = @ \ {k}] ELSE a

unwind ==
  /\ Call("sched", "unwind")
  /\ app' = DeallocateAsk(app, Head(todo["sched"]).key)
  /\ Then("sched", <<>>)
  /\ UNCHANGED <<registered, inQueue, nodes, node, counters, rmVars, leaving, panic>>

bind ==
  LET c == Head(todo["sched"])
  IN  /\ Call("sched", "bind")
      /\ app' = [app EXCEPT !.nodeID[c.key] = c.node]
      /\ allocations' = allocations + 1
      /\ phAllocations' = phAllocations + ph(c.key)
      /\ Then("sched", <<>>)
      /\ bound' = [bound EXCEPT ![c.key] = c.node]
      /\ UNCHANGED <<registered, inQueue, nodes, node, queue, fresh, live, swaps, leaving,
                     panic>>

-----------------------------------------------------------------------------
(* The RM adds pods: UpdateAllocation *)

UpdateAllocationAsk(k) ==
  /\ Start("rm") /\ ~Locked /\ registered /\ k \in fresh
  /\ fresh' = fresh \ {k} /\ live' = live \cup {k}
  /\ app' = [app EXCEPT !.requests = @ \cup {k}, !.open = @ + ph(k)]
  /\ UNCHANGED <<registered, inQueue, nodes, node, counters, bound, swaps, todo, leaving,
                 panic>>

\* The calls that are left once the queue has been told of pod k on node n.
placementCalls(k, n) ==
  <<[op |-> "nodeAdd", key |-> k, node |-> n], [op |-> "AddAllocation", key |-> k],
    [op |-> "count", key |-> k]>>

\* A pod that runs already and is new to the application.
UpdateAllocationRecovered(k, n) ==
  /\ Start("rm") /\ registered /\ k \in fresh \cap Recovered /\ n \in nodes
  /\ fresh' = fresh \ {k} /\ live' = live \cup {k} /\ bound' = [bound EXCEPT ![k] = n]
  /\ app' = [app EXCEPT !.nodeID[k] = n]
  /\ queue' = queue + Res[k]
  /\ Then("rm", placementCalls(k, n))
  /\ UNCHANGED <<registered, inQueue, nodes, node, allocations, phAllocations, swaps,
                 leaving, panic>>

\* The RM has placed a pod that is a pending ask.
UpdateAllocationPlaced(k, n) ==
  /\ Start("rm") /\ registered /\ k \in live \cap Recovered \cap pending /\ n \in nodes
  /\ bound' = [bound EXCEPT ![k] = n]
  /\ Then("rm", <<[op |-> "setNode", key |-> k, node |-> n],
                  [op |-> "allocateAsk", key |-> k, node |-> n]>>)
  /\ UNCHANGED <<registered, inQueue, nodes, app, node, counters, fresh, live, swaps,
                 leaving, panic>>

SetNodeID ==
  /\ Call("rm", "setNode")
  /\ app' = [app EXCEPT !.nodeID[Head(todo["rm"]).key] = Head(todo["rm"]).node]
  /\ Then("rm", Tail(todo["rm"]))
  /\ UNCHANGED <<registered, inQueue, nodes, node, counters, rmVars, leaving, panic>>

\* AllocateAsk fails when the scheduler was faster.
AllocateAsk ==
  LET c == Head(todo["rm"])
      ok == c.key \in pending
  IN  /\ Call("rm", "allocateAsk") /\ ~Locked
      /\ app' = IF ok THEN [app EXCEPT !.marked = @ \cup {c.key}] ELSE app
      /\ queue' = IF ok THEN queue + Res[c.key] ELSE queue
      /\ Then("rm", IF ok THEN placementCalls(c.key, c.node) ELSE <<>>)
      /\ UNCHANGED <<registered, inQueue, nodes, node, allocations, phAllocations,
                     rmVars, leaving, panic>>

AddToNode ==
  /\ Call("rm", "nodeAdd")
  /\ node' = addAllocationInternal(Head(todo["rm"]).node, Head(todo["rm"]).key)
  /\ Then("rm", Tail(todo["rm"]))
  /\ UNCHANGED <<registered, inQueue, nodes, app, counters, rmVars, leaving, panic>>

\* RecoverAllocationAsk, for a pod that is new, and AddAllocation.
AddAllocation ==
  LET k == Head(todo["rm"]).key
  IN  /\ Call("rm", "AddAllocation") /\ ~Locked
      /\ app' = [app EXCEPT !.requests = @ \cup {k}, !.marked = @ \cup {k},
                            !.allocations = @ \cup {k},
                            !.open = IF k \in app.requests THEN @ ELSE @ + ph(k)]
      /\ Then("rm", Tail(todo["rm"]))
      /\ UNCHANGED <<registered, inQueue, nodes, node, counters, rmVars, leaving, panic>>

countAllocation ==
  /\ Call("rm", "count")
  /\ allocations' = allocations + 1
  /\ phAllocations' = phAllocations + ph(Head(todo["rm"]).key)
  /\ Then("rm", Tail(todo["rm"]))
  /\ UNCHANGED <<registered, inQueue, nodes, app, node, queue, rmVars, leaving, panic>>

-----------------------------------------------------------------------------
(* The RM removes pods: removeAllocation *)

\* removeAllocationInternal for the keys of S the application has.
removeAllocationInternal(a, S) ==
  [a EXCEPT !.allocations = @ \ S,
            !.open = @ - Cardinality(a.allocations \cap S \cap Placeholders)]

\* The pod of key k is stopped.
removeAllocation(k) ==
  /\ Start("rm") /\ ~Locked /\ registered /\ k \in live \cap Stoppable
  /\ live' = live \ {k}
  /\ app' = removeAllocationInternal(app, {k})
  /\ phAllocations' = IF k \in app.allocations THEN phAllocations - ph(k) ELSE phAllocations
  /\ Then("rm", (IF k \in app.allocations
                 THEN <<[op |-> "GetNode", key |-> k, use |-> "RemoveAllocation"]>> ELSE <<>>)
                \o <<[op |-> "removeAsk", key |-> k]>>)
  /\ UNCHANGED <<registered, inQueue, nodes, node, queue, allocations, fresh, bound, swaps,
                 leaving, panic>>

\* Mutant: both links are cleared.
ReplaceAllocationUnlinked(a, p) ==
  LET k == a.release[p]
      b == removeAllocationInternal(a, {p})
  IN  IF p \notin a.allocations \/ k = None THEN b
      ELSE [b EXCEPT !.allocations = @ \cup {k}, !.release = [@ EXCEPT ![k] = None, ![p] = None]]

\* ReplaceAllocation: the real pod takes the place of placeholder p; without a real
\* pod the placeholder just goes.
ReplaceAllocation(a, p) ==
  LET k == a.release[p]
      b == removeAllocationInternal(a, {p})
  IN  IF p \notin a.allocations \/ k = None THEN b
      ELSE [b EXCEPT !.allocations = @ \cup {k}, !.release[k] = None]

\* The RM confirms that it has released placeholder p for a swap.
confirmReplaced(p) ==
  /\ Start("rm") /\ ~Locked /\ registered /\ p \in swaps
  /\ swaps' = swaps \ {p} /\ live' = live \ {p}
  /\ app' = ReplaceAllocation(app, p)
  /\ phAllocations' = IF p \in app.allocations THEN phAllocations - 1 ELSE phAllocations
  /\ Then("rm", (IF p \in app.allocations
                 THEN <<[op |-> "GetNode", key |-> p, use |-> "replacePlaceholderOnNode"]>>
                 ELSE <<>>)
                \o <<[op |-> "removeAsk", key |-> p]>>)
  /\ UNCHANGED <<registered, inQueue, nodes, node, queue, allocations, fresh, bound, leaving,
                 panic>>

\* The rest is skipped when the node has gone, but for the count.
GetNode ==
  LET c == Head(todo["rm"])
      n == app.nodeID[c.key]
  IN  /\ Call("rm", "GetNode")
      /\ Then("rm", <<IF n \in nodes THEN [op |-> c.use, key |-> c.key, node |-> n]
                      ELSE [op |-> "updateTotals", total |-> 0, num |-> 1]>>
                    \o Tail(todo["rm"]))
      /\ UNCHANGED <<registered, inQueue, nodes, app, node, counters, rmVars, leaving, panic>>

removeFromNodeStep ==
  LET c == Head(todo["rm"])
      on == c.key \in node[c.node].allocs
  IN  /\ Call("rm", "RemoveAllocation")
      /\ node' = removeFromNode(c.node, {c.key})
      /\ Then("rm", <<[op |-> "updateTotals", total |-> IF on THEN Res[c.key] ELSE 0,
                       num |-> 1]>> \o Tail(todo["rm"]))
      /\ UNCHANGED <<registered, inQueue, nodes, app, counters, rmVars, leaving, panic>>

\* Both the real pod and the entry of the placeholder on its node are used without
\* a check; without them the call never returns.
replacePlaceholderOnNode ==
  LET c == Head(todo["rm"])
      k == app.release[c.key]
      same == app.nodeID[k] = app.nodeID[c.key]
      nil == k = None \/ (same /\ c.key \notin node[c.node].allocs)
  IN  /\ Call("rm", "replacePlaceholderOnNode")
      /\ panic' = nil
      /\ node' = CASE nil -> node
                   [] ~nil /\ same -> ReplaceOnNode(c.node, c.key, k)
                   [] ~nil /\ ~same -> removeFromNode(c.node, {c.key})
      /\ Then("rm", IF nil THEN todo["rm"]
                    ELSE <<[op |-> "updateTotals", num |-> 0,
                            total |-> IF Res[k] < Res[c.key] THEN Res[c.key] - Res[k] ELSE 0]>>
                         \o Tail(todo["rm"]))
      /\ bound' = IF nil THEN bound ELSE [bound EXCEPT ![k] = app.nodeID[k]]
      /\ UNCHANGED <<registered, inQueue, nodes, app, counters, fresh, live, swaps, leaving>>

updateTotals ==
  LET c == Head(todo["rm"])
  IN  /\ Call("rm", "updateTotals")
      /\ queue' = DecAllocatedResource(queue, c.total)
      /\ allocations' = allocations - c.num
      /\ Then("rm", Tail(todo["rm"]))
      /\ UNCHANGED <<registered, inQueue, nodes, app, node, phAllocations, rmVars,
                     leaving, panic>>

RemoveAllocationAsk ==
  /\ Call("rm", "removeAsk") /\ ~Locked
  /\ app' = [app EXCEPT !.requests = @ \ {Head(todo["rm"]).key}]
  /\ Then("rm", Tail(todo["rm"]))
  /\ UNCHANGED <<registered, inQueue, nodes, node, counters, rmVars, leaving, panic>>

\* The shim could not bind pod k: it becomes a pending ask again.  The queue and the
\* count are put back whether the node still exists or not.
rollbackAllocation(k) ==
  /\ Start("rm") /\ ~Locked /\ registered /\ k \in live \cap Failable
  /\ bound[k] # None /\ k \in app.requests \cap app.marked \cap app.allocations
  /\ app' = [app EXCEPT !.allocations = @ \ {k}, !.marked = @ \ {k}, !.nodeID[k] = None]
  /\ Then("rm", <<[op |-> "rollbackNode", key |-> k, node |-> app.nodeID[k]],
                  [op |-> "updateTotals", total |-> Res[k], num |-> 1]>>)
  /\ bound' = [bound EXCEPT ![k] = None]
  /\ UNCHANGED <<registered, inQueue, nodes, node, counters, fresh, live, swaps, leaving,
                 panic>>

rollbackNode ==
  LET c == Head(todo["rm"])
  IN  /\ Call("rm", "rollbackNode")
      /\ node' = IF c.node \in nodes THEN removeFromNode(c.node, {c.key}) ELSE node
      /\ Then("rm", Tail(todo["rm"]))
      /\ UNCHANGED <<registered, inQueue, nodes, app, counters, rmVars, leaving, panic>>

-----------------------------------------------------------------------------
(* The RM removes the application *)

removeApplication ==
  /\ Start("rm") /\ registered
  /\ registered' = FALSE /\ live' = {} /\ swaps' = {} /\ fresh' = {}
  /\ Then("rm", <<[op |-> "removeAsks"], [op |-> "RemoveApplication"],
                  [op |-> "RemoveAllAllocations"]>>)
  /\ UNCHANGED <<inQueue, nodes, app, node, counters, bound, leaving, panic>>

removeAsks ==
  /\ Call("rm", "removeAsks") /\ ~Locked
  /\ app' = [app EXCEPT !.requests = {}]
  /\ Then("rm", Tail(todo["rm"]))
  /\ UNCHANGED <<registered, inQueue, nodes, node, counters, rmVars, leaving, panic>>

\* The queue gives back what the application says it has.
RemoveApplication ==
  /\ Call("rm", "RemoveApplication") /\ ~Locked
  /\ inQueue' = FALSE
  /\ queue' = DecAllocatedResource(
                DecAllocatedResource(queue, total(app.allocations \ Placeholders)),
                total(app.allocations \cap Placeholders))
  /\ Then("rm", Tail(todo["rm"]))
  /\ UNCHANGED <<registered, nodes, app, node, allocations, phAllocations, rmVars,
                 leaving, panic>>

RemoveAllAllocations ==
  /\ Call("rm", "RemoveAllAllocations") /\ ~Locked
  /\ app' = removeAllocationInternal(app, app.allocations)
  /\ allocations' = allocations - Cardinality(app.allocations)
  /\ Then("rm", <<[op |-> "clearNodes", keys |-> app.allocations]>>)
  /\ UNCHANGED <<registered, inQueue, nodes, node, queue, phAllocations, rmVars,
                 leaving, panic>>

clearNodes ==
  LET S == Head(todo["rm"]).keys
  IN  /\ Call("rm", "clearNodes")
      /\ node' = [n \in Nodes |-> LET T == {k \in S : app.nodeID[k] = n} \cap node[n].allocs
                                  IN  IF n \notin nodes THEN node[n]
                                      ELSE [allocs |-> node[n].allocs \ T,
                                            used |-> node[n].used - total(T)]]
      /\ Then("rm", <<>>)
      /\ UNCHANGED <<registered, inQueue, nodes, app, counters, rmVars, leaving, panic>>

-----------------------------------------------------------------------------
(* A node is removed *)

removeNode(n) ==
  /\ Start("node") /\ n \in nodes \cap NodesLeave
  /\ nodes' = nodes \ {n}
  /\ Then("node", <<[op |-> "GetYunikornAllocations", node |-> n]>>)
  /\ UNCHANGED <<registered, inQueue, app, node, counters, rmVars, leaving, panic>>

GetYunikornAllocations ==
  /\ Call("node", "GetYunikornAllocations")
  /\ leaving' = node[Head(todo["node"]).node].allocs
  /\ Then("node", <<[op |-> "walk", released |-> 0, confirmed |-> 0]>>)
  /\ UNCHANGED <<registered, inQueue, nodes, app, node, counters, rmVars, panic>>

\* Mutant: the queue is not told that the real pod is smaller.
confirmOnOtherNodeUncharged(k) ==
  LET c == Head(todo["node"])
      r == app.release[k]
  IN  /\ Call("node", "walk") /\ k \in leaving \cap Placeholders /\ registered /\ ~Locked
      /\ r # None /\ app.nodeID[k] # app.nodeID[r]
      /\ app' = ReplaceAllocation(app, k)
      /\ leaving' = leaving \ {k} /\ bound' = [bound EXCEPT ![r] = app.nodeID[r]]
      /\ Then("node", <<[c EXCEPT !.released = @ + 1, !.confirmed = @ + 1]>>)
      /\ UNCHANGED <<registered, inQueue, nodes, node, counters, fresh, live, swaps, panic>>

\* The real pod of a swap is on another node: that swap is confirmed.  The queue is
\* increased by a negative amount, under the check of the quota.
confirmOnOtherNode(k) ==
  LET c == Head(todo["node"])
      r == app.release[k]
      delta == Res[r] - Res[k]
  IN  /\ Call("node", "walk") /\ k \in leaving \cap Placeholders /\ registered /\ ~Locked
      /\ r # None /\ app.nodeID[k] # app.nodeID[r]
      /\ app' = ReplaceAllocation(app, k)
      /\ queue' = IF delta < 0 /\ queue + delta <= QueueMax THEN queue + delta ELSE queue
      /\ leaving' = leaving \ {k} /\ bound' = [bound EXCEPT ![r] = app.nodeID[r]]
      /\ Then("node", <<[c EXCEPT !.released = @ + 1, !.confirmed = @ + 1]>>)
      /\ UNCHANGED <<registered, inQueue, nodes, node, allocations, phAllocations, fresh,
                     live, swaps, panic>>

\* Any other swap k takes part in is undone.
unlink(k) ==
  LET r == app.release[k]
      real == IF k \in Placeholders THEN r ELSE k
  IN  /\ Call("node", "walk") /\ k \in leaving /\ registered /\ ~Locked
      /\ r # None /\ (k \in Placeholders => app.nodeID[k] = app.nodeID[r])
      /\ app' = DeallocateAsk([app EXCEPT !.release = [@ EXCEPT ![k] = None, ![r] = None]], real)
      /\ Then("node", <<[op |-> "removeNodeAllocation", key |-> k], Head(todo["node"])>>)
      /\ UNCHANGED <<registered, inQueue, nodes, node, counters, rmVars, leaving, panic>>

checkRelease(k) ==
  /\ Call("node", "walk") /\ k \in leaving /\ registered /\ app.release[k] = None
  /\ Then("node", <<[op |-> "removeNodeAllocation", key |-> k], Head(todo["node"])>>)
  /\ UNCHANGED <<registered, inQueue, nodes, app, node, counters, rmVars, leaving, panic>>

\* Mutant: the queue is decreased for allocations the application no longer has.
removeNodeAllocationAlways ==
  LET k == Head(todo["node"]).key
      w == todo["node"][2]
  IN  /\ Call("node", "removeNodeAllocation") /\ ~Locked
      /\ app' = removeAllocationInternal(app, {k})
      /\ queue' = DecAllocatedResource(queue, Res[k])
      /\ phAllocations' = phAllocations - ph(k)
      /\ leaving' = leaving \ {k}
      /\ Then("node", <<[w EXCEPT !.released = @ + 1]>>)
      /\ UNCHANGED <<registered, inQueue, nodes, node, allocations, rmVars, panic>>

\* An allocation the application has lost in the meantime is skipped.
removeNodeAllocation ==
  LET k == Head(todo["node"]).key
      w == todo["node"][2]
      found == k \in app.allocations
  IN  /\ Call("node", "removeNodeAllocation") /\ ~Locked
      /\ app' = removeAllocationInternal(app, {k})
      /\ queue' = IF found THEN DecAllocatedResource(queue, Res[k]) ELSE queue
      /\ phAllocations' = IF found THEN phAllocations - ph(k) ELSE phAllocations
      /\ leaving' = leaving \ {k}
      /\ Then("node", <<IF found THEN [w EXCEPT !.released = @ + 1] ELSE w>>)
      /\ UNCHANGED <<registered, inQueue, nodes, node, allocations, rmVars, panic>>

skipApplication ==
  /\ Call("node", "walk") /\ leaving # {} /\ ~registered
  /\ leaving' = {}
  /\ UNCHANGED <<registered, inQueue, nodes, app, node, counters, rmVars, todo, panic>>

\* Mutant: the swaps that were confirmed are not counted.
endWalkReleased ==
  LET c == Head(todo["node"])
  IN  /\ Call("node", "walk") /\ leaving = {}
      /\ allocations' = allocations - c.released
      /\ Then("node", <<>>)
      /\ UNCHANGED <<registered, inQueue, nodes, app, node, queue, phAllocations, rmVars,
                     leaving, panic>>

endWalk ==
  LET c == Head(todo["node"])
  IN  /\ Call("node", "walk") /\ leaving = {}
      /\ allocations' = allocations + c.confirmed - c.released
      /\ Then("node", <<>>)
      /\ UNCHANGED <<registered, inQueue, nodes, app, node, queue, phAllocations, rmVars,
                     leaving, panic>>

-----------------------------------------------------------------------------
Sched ==
  \/ \E k \in Keys, n \in Nodes : GetNodeIterator(k, n)
  \/ \E k \in Keys, p \in Placeholders : tryPlaceholderAllocate(k, p)
  \/ tryNode \/ trySwap \/ allocate \/ unwind \/ bind

RM ==
  \/ \E k \in Keys : UpdateAllocationAsk(k)
  \/ \E k \in Keys, n \in Nodes : UpdateAllocationRecovered(k, n)
  \/ \E k \in Keys, n \in Nodes : UpdateAllocationPlaced(k, n)
  \/ SetNodeID \/ AllocateAsk \/ AddToNode \/ AddAllocation \/ countAllocation
  \/ \E k \in Keys : removeAllocation(k)
  \/ \E p \in Placeholders : confirmReplaced(p)
  \/ GetNode \/ removeFromNodeStep \/ replacePlaceholderOnNode
  \/ updateTotals \/ RemoveAllocationAsk
  \/ \E k \in Keys : rollbackAllocation(k)
  \/ rollbackNode
  \/ removeApplication \/ removeAsks \/ RemoveApplication \/ RemoveAllAllocations
  \/ clearNodes

NodeHandler ==
  \/ \E n \in Nodes : removeNode(n)
  \/ GetYunikornAllocations
  \/ \E k \in Keys : confirmOnOtherNode(k)
  \/ \E k \in Keys : unlink(k)
  \/ \E k \in Keys : checkRelease(k)
  \/ removeNodeAllocation \/ skipApplication \/ endWalk

\* The placeholder stays where it is and its real pod has lost its node.
lostSwap(p) ==
  /\ app.release[p] # None /\ app'.release[p] = None
  /\ app.nodeID[p] \in nodes /\ app.nodeID[app.release[p]] \notin nodes

Next ==
  /\ UNCHANGED scene
  /\ Sched \/ RM \/ NodeHandler
  /\ orphans' = orphans \cup {p \in Placeholders : lostSwap(p)}

Spec == Init /\ [][Next]_vars

-----------------------------------------------------------------------------
(* Properties *)

\* Maps, objects, counters and calls in flight have their types; the usage of a node
\* and of the queue is never negative.
TypeOK ==
  /\ registered \in BOOLEAN /\ inQueue \in BOOLEAN /\ nodes \subseteq Nodes
  /\ app \in ApplicationRecord /\ node \in [Nodes -> NodeRecord]
  /\ queue \in Nat /\ {allocations, phAllocations} \subseteq Int
  /\ fresh \subseteq Keys /\ live \subseteq Keys /\ swaps \subseteq Placeholders
  /\ bound \in [Keys -> Nodes \cup {None}]
  /\ \A t \in Threads : \A i \in DOMAIN todo[t] : todo[t][i] \in Op
  /\ leaving \subseteq Keys /\ panic \in BOOLEAN /\ orphans \subseteq Placeholders

\* Between events, when events are handled one after the other.
quiet == Serial /\ \A t \in Threads : todo[t] = <<>>

\* Real pods that wait on another node for their placeholder to go.
moving == {k \in Keys \ Placeholders :
             /\ app.release[k] # None /\ app.release[app.release[k]] = k
             /\ app.nodeID[k] # app.nodeID[app.release[k]]}

\* What the partition says of an application is what its objects say: between
\* events, a node that is registered holds the allocations the application has on it
\* and the real pods that wait there for their placeholder to go, and its usage is
\* their sum (Node.allocations and allocatedResource).  A pod that waits when the
\* application is removed stays on the node: RemoveAllAllocations does not know it.
NodeExact ==
  quiet => \A n \in nodes :
    /\ node[n].allocs = {k \in app.allocations \cup moving : app.nodeID[k] = n}
    /\ node[n].used = total(node[n].allocs)

\* Between events the queue is charged for what the application holds, whatever
\* swaps, rollbacks and removals came before (Queue.allocatedResource).
QueueExact == quiet => queue = Others + total(app.allocations)

\* Between events the partition counts the allocations of the application: a swap
\* leaves the count alone, also when the removal of a node confirms it.
CountExact == quiet => allocations = Cardinality(app.allocations)

\* The counter that lets tryPlaceholderAllocate return early is never lower than the
\* number of placeholders: a swap that is possible is not skipped.
PlaceholdersCovered == quiet => phAllocations >= Cardinality(app.allocations \cap Placeholders)

\* When events are handled one after the other, replacePlaceholderOnNode and
\* Node.ReplaceAllocation (partition.go 1596-1598) meet a nil allocation in one case
\* only: the node of the real pod was removed while the release of its placeholder,
\* on another node, was waiting for the RM (partition.go 769-772).
PanicOnlyOrphan == Serial /\ panic => Head(todo["rm"]).key \in orphans

\* With all handlers interleaved, and unless the RM reports pods that run already,
\* the pods the RM was told to run on a registered node never need more than the
\* node has (TryAddAllocation).
NoOvercommit ==
  Recovered = {} => \A n \in nodes : total({k \in live : bound[k] = n}) <= Capacity[n]

\* With all handlers interleaved, and until the application is removed, the queue is
\* never charged less than the application holds: the quota is never exceeded unseen
\* (TryIncAllocatedResource).
QueueCovers == registered => queue >= Others + total(app.allocations)

\* Between events nodes and queue account for what the application holds.
Accounted == TypeOK /\ NodeExact /\ QueueExact

\* Between events the two counters of the partition say what the application holds,
\* that of the placeholders at least that.
Counted == CountExact /\ PlaceholdersCovered

\* However the handlers interleave, neither a node nor the quota of the queue is
\* exceeded unseen.
NeverOverspent == NoOvercommit /\ QueueCovers
=============================================================================
