----------------------------- MODULE Reservations -----------------------------
(***************************************************************************)
(* Node reservations.  A reservation is recorded in four places: the       *)
(* application and the node (both changed under the application lock), the  *)
(* leaf queue's reservedApps and the partition's counter, each under a lock *)
(* of its own and at a later moment.  The scheduling cycle, the handler of  *)
(* RM events and the handler of node events interleave between any two of   *)
(* these calls.                                                             *)
(***************************************************************************)
EXTENDS Integers, Sequences, FiniteSets

CONSTANTS
  Keys,            \* allocation keys
  Apps,
  Nodes,           \* node objects; an object is never registered twice
  None,
  appOf,           \* the application of each key
  reqNode,         \* the required node of each key, or None
  Preemptors,      \* keys that may trigger preemption
  Expires,         \* whether a reservation may outlive reservationWaitTimeout
  MaxCount         \* bound: tryNodes reserves while pc.reservations is below it

ASSUME ReservationsAssumption ==
  /\ IsFiniteSet(Keys) /\ None \notin Nodes
  /\ appOf \in [Keys -> Apps]
  /\ reqNode \in [Keys -> Nodes \cup {None}]
  /\ Preemptors \subseteq {k \in Keys : reqNode[k] = None}
  /\ Expires \in BOOLEAN
  /\ MaxCount \in Nat

VARIABLES
  nodes,           \* pc.nodes
  apps,            \* pc.applications
  requests,        \* keys in the requests of their application
  allocated,       \* keys whose ask is marked allocated
  triggered,       \* asks that have triggered preemption
  appRes,          \* sa.reservations: key -> node, or None
  nodeRes,         \* sn.reservations: node -> keys
  reservedApps,    \* the leaf queue's reservations per application
  reservations,    \* pc.reservations
  callbacks,       \* reservations whose released callback has yet to run
  todo,            \* the calls each goroutine has still to make
  leaving,         \* snapshot removeNode walks over
  panic,           \* a nil node or queue was dereferenced
  fresh,           \* keys the RM has yet to send
  terminated,      \* applications that are Completed or Failed
  leafQueue        \* whether the leaf lists the application ("in"), or no longer
                   \* ("left"), or sa.queue is nil as well ("nil")

life == <<fresh, terminated, leafQueue>>

vars == <<nodes, apps, requests, allocated, triggered, appRes, nodeRes,
          reservedApps, reservations, callbacks, todo, leaving, panic,
          life>>

Threads == {"sched", "rm", "node"}

ResultTypes == {"Reserved", "Unreserved", "Allocated", "AllocatedReserved"}

\* An AllocationResult on its way to PartitionContext.allocate, or one of the
\* calls that are left of reserve, unReserve and the removal of asks.
Op ==
       [op : {"allocate"}, type : ResultTypes, key : Keys, node : Nodes,
        reserved : Nodes, cancelled : Nat]
  \cup [op : {"reserve", "Reserve", "fix", "unReserve"}, key : Keys, node : Nodes]
  \cup [op : {"queueReserve", "queueUnReserve"}, app : Apps]
  \cup [op : {"inc"}]
  \cup [op : {"dec"}, num : Nat]
  \cup [op : {"removeAsks", "RemoveApplication"}, app : Apps]
  \cup [op : {"GetReservations"}, node : Nodes]

Init ==
  /\ nodes = Nodes /\ apps = Apps
  /\ requests = {} /\ allocated = {} /\ triggered = {}
  /\ appRes = [k \in Keys |-> None]
  /\ nodeRes = [n \in Nodes |-> {}]
  /\ reservedApps = [a \in Apps |-> 0]
  /\ reservations = 0 /\ callbacks = 0
  /\ todo = [t \in Threads |-> <<>>]
  /\ leaving = {} /\ panic = FALSE
  /\ fresh = Keys /\ terminated = {}
  /\ leafQueue = [a \in Apps |-> "in"]

-----------------------------------------------------------------------------
(* Under the application lock *)

\* Mutant: the node keeps the reservation.
unReserveAppOnly(S) ==
  /\ appRes' = [k \in Keys |-> IF k \in S THEN None ELSE appRes[k]]
  /\ nodeRes' = nodeRes

\* unReserveInternal for every key of S: node first, application second.
unReserveInternal(S) ==
  /\ appRes' = [k \in Keys |-> IF k \in S THEN None ELSE appRes[k]]
  /\ nodeRes' = [n \in Nodes |-> nodeRes[n] \ {k \in S : appRes[k] = n}]

monus(a, b) == IF a > b THEN a - b ELSE 0

nilQueue(k) == leafQueue[appOf[k]] = "nil"

\* Queue.UnReserve for the applications of the keys in S.
unReserveQueue(S) ==
  reservedApps' = [a \in Apps |->
    monus(reservedApps[a], Cardinality({k \in S : appOf[k] = a}))]

\* Mutant: the ask is not looked up.
canReserveUnknown(k, n) ==
  /\ k \notin allocated /\ appRes[k] = None
  /\ \/ reqNode[k] = None /\ nodeRes[n] = {}
     \/ reqNode[k] # None /\ \A j \in nodeRes[n] : reqNode[j] # None

\* reserveInternal and Node.Reserve.
canReserve(k, n) ==
  /\ k \in requests /\ k \notin allocated /\ appRes[k] = None
  /\ \/ reqNode[k] = None /\ nodeRes[n] = {}
     \/ reqNode[k] # None /\ \A j \in nodeRes[n] : reqNode[j] # None

-----------------------------------------------------------------------------
(* The scheduling cycle *)

running == ~panic

Idle(t) == running /\ todo[t] = <<>>

Then(t, ops) == todo' = [todo EXCEPT ![t] = ops]

Result(type, k, n, r, c) ==
  <<[op |-> "allocate", type |-> type, key |-> k, node |-> n, reserved |-> r,
     cancelled |-> c]>>

\* An ask that waits, and one that the cycle finds in its leaf queue.
pending(k) == k \in requests /\ k \notin allocated
visited(k) == pending(k) /\ leafQueue[appOf[k]] = "in"

\* Mutant: asks that require a node are treated like the others.
tryNodesReserveAny(k, n) ==
  /\ Idle("sched") /\ visited(k) /\ appRes[k] = None
  /\ n \in nodes /\ nodeRes[n] = {} /\ reservations < MaxCount
  /\ Then("sched", Result("Reserved", k, n, n, 0))
  /\ UNCHANGED <<nodes, apps, requests, allocated, triggered, appRes, nodeRes,
                 reservedApps, reservations, callbacks, leaving, panic, life>>

\* Mutant: an ask that is reserved already is not skipped.
tryNodesReserveAgain(k, n) ==
  /\ Idle("sched") /\ visited(k) /\ reqNode[k] = None
  /\ n \in nodes /\ nodeRes[n] = {} /\ reservations < MaxCount
  /\ Then("sched", Result("Reserved", k, n, n, 0))
  /\ UNCHANGED <<nodes, apps, requests, allocated, triggered, appRes, nodeRes,
                 reservedApps, reservations, callbacks, leaving, panic, life>>

\* No node has room: reserve the best one.
tryNodesReserve(k, n) ==
  /\ Idle("sched") /\ visited(k) /\ reqNode[k] = None /\ appRes[k] = None
  /\ n \in nodes /\ nodeRes[n] = {} /\ reservations < MaxCount
  /\ Then("sched", Result("Reserved", k, n, n, 0))
  /\ UNCHANGED <<nodes, apps, requests, allocated, triggered, appRes, nodeRes,
                 reservedApps, reservations, callbacks, leaving, panic, life>>

\* tryReservedAllocate of the partition and the leaf queue look at the ask only
\* when both counts say that there is a reservation and the leaf queue still has
\* the application.
inReservedCycle(k) ==
  /\ reservations # 0 /\ reservedApps[appOf[k]] > 0
  /\ leafQueue[appOf[k]] = "in"

\* An unreserved node of the iterator, or the node the ask has reserved, has room.
tryNode(k, n) ==
  /\ Idle("sched") /\ visited(k)
  /\ \/ reqNode[k] = None /\ n \in nodes /\ nodeRes[n] = {}
     \/ n = appRes[k] /\ inReservedCycle(k)
  /\ allocated' = allocated \cup {k}
  /\ Then("sched", IF appRes[k] = None THEN Result("Allocated", k, n, n, 0)
                   ELSE Result("AllocatedReserved", k, n, appRes[k], 0))
  /\ UNCHANGED <<nodes, apps, requests, triggered, appRes, nodeRes,
                 reservedApps, reservations, callbacks, leaving, panic, life>>

\* Other reservations on the required node go first; then the node has room, or
\* it is reserved, or it was reserved for this ask already.
tryRequiredNode(k, n) ==
  LET cancel == {j \in nodeRes[n] : reqNode[j] = None}
      num == Cardinality(cancel)
  IN  /\ Idle("sched") /\ visited(k) /\ n = reqNode[k] /\ n \in nodes
      /\ unReserveInternal(cancel) /\ unReserveQueue(cancel)
      /\ panic' = \E j \in cancel : nilQueue(j)
      /\ \/ /\ nodeRes[n] \subseteq cancel \/ k \in nodeRes[n]
            /\ allocated' = allocated \cup {k}
            /\ Then("sched",
                    Result(IF appRes[k] = None THEN "Allocated" ELSE "AllocatedReserved",
                           k, n, n, num))
         \/ /\ allocated' = allocated
            /\ Then("sched",
                    IF appRes[k] = None THEN Result("Reserved", k, n, n, num) ELSE <<>>)
      /\ UNCHANGED <<nodes, apps, requests, triggered, reservations, callbacks,
                     leaving, life>>

\* tryReservedAllocate finds a reservation of an ask that is gone or allocated.
cleanupReservation(k) ==
  /\ Idle("sched") /\ appRes[k] # None /\ inReservedCycle(k)
  /\ k \notin requests \/ k \in allocated
  /\ Then("sched", Result("Unreserved", k, appRes[k], appRes[k], 0))
  /\ UNCHANGED <<nodes, apps, requests, allocated, triggered, appRes, nodeRes,
                 reservedApps, reservations, callbacks, leaving, panic, life>>

\* tryReservedAllocate gives up a reservation that has waited too long.
reservationTimeout(k) ==
  /\ Idle("sched") /\ Expires /\ visited(k) /\ inReservedCycle(k)
  /\ appRes[k] # None /\ reqNode[k] = None
  /\ unReserveInternal({k}) /\ unReserveQueue({k})
  /\ UNCHANGED <<nodes, apps, requests, allocated, triggered, reservations,
                 callbacks, todo, leaving, panic, life>>

\* Preemptor.TryPreemption for ask k: the reservations in cancel have a lower
\* priority and have waited too long; victims may be found on node n.
TryPreemption(k, n, cancel) ==
  /\ Idle("sched") /\ visited(k) /\ k \in Preemptors \ triggered
  /\ \A j \in cancel : /\ appRes[j] \in nodes \ {appRes[k]}
                       /\ reqNode[j] = None /\ j \notin triggered
  /\ unReserveInternal(cancel) /\ unReserveQueue(cancel)
  /\ panic' = \E j \in cancel : nilQueue(j)
  /\ callbacks' = callbacks + Cardinality(cancel)
  /\ \/ /\ n \in nodes /\ nodeRes[n] \subseteq cancel \cup {k}
        /\ triggered' = triggered \cup {k}
        /\ Then("sched", Result("Reserved", k, n, n, 0))
     \/ cancel # {} /\ UNCHANGED <<triggered, todo>>
  /\ UNCHANGED <<nodes, apps, requests, allocated, reservations, leaving, life>>

-----------------------------------------------------------------------------
(* Calls outside the application lock, one at a time *)

Call(t, op) == running /\ todo[t] # <<>> /\ Head(todo[t]).op = op

\* PartitionContext.allocate
allocate ==
  LET res == Head(todo["sched"])
      k == res.key
      known == appOf[k] \in apps /\ res.node \in nodes
  IN  /\ Call("sched", "allocate")
      /\ allocated' = IF appOf[k] \in apps /\ res.node \notin nodes /\ k \in requests
                      THEN allocated \ {k} ELSE allocated
      /\ reservations' = IF known THEN reservations - res.cancelled ELSE reservations
      /\ Then("sched",
              CASE known /\ res.type = "Reserved" ->
                     <<[op |-> "reserve", key |-> k, node |-> res.node]>>
                [] /\ known /\ res.type \in {"Unreserved", "AllocatedReserved"}
                   /\ res.reserved \in nodes ->
                     <<[op |-> "unReserve", key |-> k, node |-> res.reserved]>>
                [] OTHER -> <<>>)
      /\ UNCHANGED <<nodes, apps, requests, triggered, appRes, nodeRes,
                     reservedApps, callbacks, leaving, panic, life>>

\* PartitionContext.reserve: an ask that is reserved elsewhere is fixed first.
reserve ==
  LET c == Head(todo["sched"])
      set == [op |-> "Reserve", key |-> c.key, node |-> c.node]
  IN  /\ Call("sched", "reserve")
      /\ Then("sched",
              CASE appRes[c.key] = None -> <<set>>
                [] appRes[c.key] = c.node -> <<>>
                [] OTHER -> <<[op |-> "fix", key |-> c.key, node |-> appRes[c.key]], set>>)
      /\ UNCHANGED <<nodes, apps, requests, allocated, triggered, appRes, nodeRes,
                     reservedApps, reservations, callbacks, leaving, panic, life>>

\* Application.Reserve
Reserve ==
  LET c == Head(todo["sched"])
      ok == canReserve(c.key, c.node)
  IN  /\ Call("sched", "Reserve")
      /\ appRes' = IF ok THEN [appRes EXCEPT ![c.key] = c.node] ELSE appRes
      /\ nodeRes' = IF ok THEN [nodeRes EXCEPT ![c.node] = @ \cup {c.key}] ELSE nodeRes
      /\ Then("sched", IF ok THEN <<[op |-> "queueReserve", app |-> appOf[c.key]],
                                    [op |-> "inc"]>> ELSE <<>>)
      /\ UNCHANGED <<nodes, apps, requests, allocated, triggered, reservedApps,
                     reservations, callbacks, leaving, panic, life>>

\* The calls unReserve makes once Application.UnReserve has returned num.
unReserveCalls(k, num) ==
  <<[op |-> "queueUnReserve", app |-> appOf[k]], [op |-> "dec", num |-> num]>>

\* PartitionContext.unReserve with a node; with the nil node of fix it dies, and
\* so does the call of the queue that follows when sa.queue is nil.
unReserve(t, op) ==
  LET c == Head(todo[t])
      nil == op = "fix" /\ c.node \notin nodes
      found == appRes[c.key] # None /\ ~nil
  IN  /\ Call(t, op)
      /\ panic' = (nil \/ (~found /\ nilQueue(c.key)))
      /\ unReserveInternal(IF found THEN {c.key} ELSE {})
      /\ Then(t, IF found THEN unReserveCalls(c.key, 1) \o Tail(todo[t]) ELSE Tail(todo[t]))
      /\ UNCHANGED <<nodes, apps, requests, allocated, triggered, reservedApps,
                     reservations, callbacks, leaving, life>>

queueReserve ==
  /\ Call("sched", "queueReserve")
  /\ panic' = (leafQueue[Head(todo["sched"]).app] = "nil")
  /\ reservedApps' = [reservedApps EXCEPT ![Head(todo["sched"]).app] = @ + 1]
  /\ Then("sched", Tail(todo["sched"]))
  /\ UNCHANGED <<nodes, apps, requests, allocated, triggered, appRes, nodeRes,
                 reservations, callbacks, leaving, life>>

queueUnReserve(t) ==
  /\ Call(t, "queueUnReserve")
  /\ panic' = (leafQueue[Head(todo[t]).app] = "nil")
  /\ reservedApps' = [reservedApps EXCEPT ![Head(todo[t]).app] = monus(@, 1)]
  /\ Then(t, Tail(todo[t]))
  /\ UNCHANGED <<nodes, apps, requests, allocated, triggered, appRes, nodeRes,
                 reservations, callbacks, leaving, life>>

incReservationCount ==
  /\ Call("sched", "inc")
  /\ reservations' = reservations + 1
  /\ Then("sched", Tail(todo["sched"]))
  /\ UNCHANGED <<nodes, apps, requests, allocated, triggered, appRes, nodeRes,
                 reservedApps, callbacks, leaving, panic, life>>

decReservationCount(t) ==
  /\ Call(t, "dec")
  /\ reservations' = reservations - Head(todo[t]).num
  /\ Then(t, Tail(todo[t]))
  /\ UNCHANGED <<nodes, apps, requests, allocated, triggered, appRes, nodeRes,
                 reservedApps, callbacks, leaving, panic, life>>

\* A reservationReleasedCallback goroutine.
releasedCallback(num) ==
  /\ running /\ num \in 1 .. callbacks
  /\ callbacks' = callbacks - num
  /\ reservations' = reservations - num
  /\ UNCHANGED <<nodes, apps, requests, allocated, triggered, appRes, nodeRes,
                 reservedApps, todo, leaving, panic, life>>

-----------------------------------------------------------------------------
(* The handler of RM events and the placeholder timer *)

\* PartitionContext.UpdateAllocation for a new ask, whatever the state of its
\* application: Application.AddAllocationAsk dies on a nil queue.
AddAllocationAsk(k) ==
  /\ Idle("rm") /\ appOf[k] \in apps /\ k \in fresh
  /\ fresh' = fresh \ {k} /\ requests' = requests \cup {k}
  /\ panic' = nilQueue(k)
  /\ UNCHANGED <<nodes, apps, allocated, triggered, appRes, nodeRes, reservedApps,
                 reservations, callbacks, todo, leaving, terminated, leafQueue>>

\* Application.RemoveAllocationAsk(k), then the counter.
RemoveAllocationAsk(k) ==
  LET S == IF appRes[k] = None THEN {} ELSE {k}
  IN  /\ Idle("rm") /\ appOf[k] \in apps /\ k \in requests
      /\ unReserveInternal(S) /\ unReserveQueue(S)
      /\ panic' = (S # {} /\ nilQueue(k))
      /\ requests' = requests \ {k}
      /\ Then("rm", <<[op |-> "dec", num |-> Cardinality(S)]>>)
      /\ UNCHANGED <<nodes, apps, allocated, triggered, reservations, callbacks,
                     leaving, life>>

removeApplication(a) ==
  /\ Idle("rm") /\ a \in apps
  /\ apps' = apps \ {a}
  /\ Then("rm", <<[op |-> "removeAsks", app |-> a], [op |-> "RemoveApplication", app |-> a]>>)
  /\ UNCHANGED <<nodes, requests, allocated, triggered, appRes, nodeRes,
                 reservedApps, reservations, callbacks, leaving, panic, life>>

\* A release without an allocation key.
releaseAll(a) ==
  /\ Idle("rm") /\ a \in apps
  /\ Then("rm", <<[op |-> "removeAsks", app |-> a]>>)
  /\ UNCHANGED <<nodes, apps, requests, allocated, triggered, appRes, nodeRes,
                 reservedApps, reservations, callbacks, leaving, panic, life>>

\* removeAsksInternal with the empty key; it stops early when there are no asks.
reservedBy(a) ==
  {k \in Keys : /\ appOf[k] = a /\ appRes[k] # None
                /\ \E j \in requests : appOf[j] = a}

removeAsks(a) ==
  /\ unReserveInternal(reservedBy(a)) /\ unReserveQueue(reservedBy(a))
  /\ panic' = \E k \in requests : appOf[k] = a /\ nilQueue(k)
  /\ requests' = {k \in requests : appOf[k] # a}

\* The queue forgets the application, not what is in reservedApps.
RemoveApplication ==
  LET a == Head(todo["rm"]).app
  IN  /\ Call("rm", "RemoveApplication")
      /\ leafQueue' = [leafQueue EXCEPT ![a] = IF @ = "in" THEN "left" ELSE @]
      /\ Then("rm", Tail(todo["rm"]))
      /\ UNCHANGED <<nodes, apps, requests, allocated, triggered, appRes, nodeRes,
                     reservedApps, reservations, callbacks, leaving, panic, fresh,
                     terminated>>

removeAllAsks ==
  LET a == Head(todo["rm"]).app
  IN  /\ Call("rm", "removeAsks")
      /\ removeAsks(a)
      /\ Then("rm", <<[op |-> "dec", num |-> Cardinality(reservedBy(a))]>>
                      \o Tail(todo["rm"]))
      /\ UNCHANGED <<nodes, apps, allocated, triggered, reservations, callbacks,
                     leaving, life>>

\* timeoutPlaceholderProcessing, the part that concerns reservations.
placeholderTimeout(a) ==
  /\ running /\ a \in apps /\ \E k \in requests : appOf[k] = a
  /\ removeAsks(a)
  /\ callbacks' = callbacks + Cardinality(reservedBy(a))
  /\ UNCHANGED <<nodes, apps, allocated, triggered, reservations, todo, leaving, life>>

\* The RM reports that a pending ask runs already.
AllocateAsk(k) ==
  /\ Idle("rm") /\ appOf[k] \in apps /\ pending(k)
  /\ allocated' = allocated \cup {k}
  /\ UNCHANGED <<nodes, apps, requests, triggered, appRes, nodeRes,
                 reservedApps, reservations, callbacks, todo, leaving, panic, life>>

-----------------------------------------------------------------------------
(* The end of an application, at any moment its life cycle brings it *)

\* Entering Completed or Failed drops the asks and leaves the reservations.
cleanupAsks(a) ==
  /\ running /\ a \in apps \ terminated
  /\ terminated' = terminated \cup {a}
  /\ requests' = {k \in requests : appOf[k] # a}
  /\ UNCHANGED <<nodes, apps, allocated, triggered, appRes, nodeRes, reservedApps,
                 reservations, callbacks, todo, leaving, panic, fresh, leafQueue>>

\* The goroutine of executeTerminatedCallback takes the application out of its
\* queue, and later out of the partition.
UnSetQueue(a) ==
  /\ running /\ a \in terminated /\ leafQueue[a] # "nil"
  /\ leafQueue' = [leafQueue EXCEPT ![a] = "nil"]
  /\ UNCHANGED <<nodes, apps, requests, allocated, triggered, appRes, nodeRes,
                 reservedApps, reservations, callbacks, todo, leaving, panic, fresh,
                 terminated>>

moveTerminatedApp(a) ==
  /\ running /\ a \in apps /\ leafQueue[a] = "nil"
  /\ apps' = apps \ {a}
  /\ UNCHANGED <<nodes, requests, allocated, triggered, appRes, nodeRes, reservedApps,
                 reservations, callbacks, todo, leaving, panic, life>>

-----------------------------------------------------------------------------
(* The handler of node events *)

removeNode(n) ==
  /\ Idle("node") /\ leaving = {} /\ n \in nodes
  /\ nodes' = nodes \ {n}
  /\ Then("node", <<[op |-> "GetReservations", node |-> n]>>)
  /\ UNCHANGED <<apps, requests, allocated, triggered, appRes, nodeRes,
                 reservedApps, reservations, callbacks, leaving, panic, life>>

GetReservations ==
  /\ Call("node", "GetReservations")
  /\ leaving' = nodeRes[Head(todo["node"]).node]
  /\ Then("node", <<>>)
  /\ UNCHANGED <<nodes, apps, requests, allocated, triggered, appRes, nodeRes,
                 reservedApps, reservations, callbacks, panic, life>>

\* Mutant: the counts go down whether or not the reservation was still there.
unReserveLeavingAlways(k) ==
  /\ Idle("node") /\ k \in leaving
  /\ leaving' = leaving \ {k}
  /\ unReserveInternal({k})
  /\ panic' = (appRes[k] = None /\ nilQueue(k))
  /\ Then("node", unReserveCalls(k, 1))
  /\ UNCHANGED <<nodes, apps, requests, allocated, triggered, reservedApps,
                 reservations, callbacks, life>>

unReserveLeaving(k) ==
  /\ Idle("node") /\ k \in leaving
  /\ leaving' = leaving \ {k}
  /\ unReserveInternal({k})
  /\ panic' = (appRes[k] = None /\ nilQueue(k))
  /\ Then("node", IF appRes[k] = None THEN <<>> ELSE unReserveCalls(k, 1))
  /\ UNCHANGED <<nodes, apps, requests, allocated, triggered, reservedApps,
                 reservations, callbacks, life>>

-----------------------------------------------------------------------------
Schedule ==
  \/ \E k \in Keys, n \in Nodes :
       \/ tryNodesReserve(k, n) \/ tryNode(k, n) \/ tryRequiredNode(k, n)
       \/ \E cancel \in SUBSET Keys : TryPreemption(k, n, cancel)
  \/ \E k \in Keys : cleanupReservation(k) \/ reservationTimeout(k)

Calls ==
  \/ allocate \/ reserve \/ Reserve \/ queueReserve \/ incReservationCount
  \/ removeAllAsks \/ RemoveApplication \/ GetReservations
  \/ unReserve("sched", "unReserve") \/ unReserve("sched", "fix")
  \/ \E t \in Threads : queueUnReserve(t) \/ decReservationCount(t)
  \/ \E num \in 1 .. callbacks : releasedCallback(num)

Events ==
  \/ \E k \in Keys :
       \/ AddAllocationAsk(k) \/ RemoveAllocationAsk(k) \/ AllocateAsk(k)
       \/ unReserveLeaving(k)
  \/ \E a \in Apps :
       \/ removeApplication(a) \/ releaseAll(a) \/ placeholderTimeout(a)
       \/ cleanupAsks(a) \/ UnSetQueue(a) \/ moveTerminatedApp(a)
  \/ \E n \in Nodes : removeNode(n)

Next == Schedule \/ Calls \/ Events

Spec == Init /\ [][Next]_vars

-----------------------------------------------------------------------------
(* Properties *)

TypeOK ==
  /\ nodes \subseteq Nodes /\ apps \subseteq Apps
  /\ requests \subseteq Keys /\ allocated \subseteq Keys /\ triggered \subseteq Keys
  /\ appRes \in [Keys -> Nodes \cup {None}]
  /\ nodeRes \in [Nodes -> SUBSET Keys]
  /\ reservedApps \in [Apps -> Nat]
  /\ reservations \in Int /\ callbacks \in Nat
  /\ todo \in [Threads -> Seq(Op)]
  /\ leaving \subseteq Keys /\ panic \in BOOLEAN
  /\ fresh \subseteq Keys /\ terminated \subseteq Apps
  /\ leafQueue \in [Apps -> {"in", "left", "nil"}]

\* The application and the node agree on every reservation (reserveInternal and
\* unReserveInternal, application.go 996-1090), whatever the node handler, the
\* RM handler and the timers do in the middle of a scheduling cycle.
Symmetric == \A k \in Keys, n \in Nodes : appRes[k] = n <=> k \in nodeRes[n]

\* A node is reserved for one ask, or only for asks that require it
\* (Node.Reserve, node.go 571-619).
NodeExclusive ==
  \A n \in Nodes : \A j, k \in nodeRes[n] : j # k => reqNode[j] # None /\ reqNode[k] # None

\* An ask that requires a node never holds a reservation on another one
\* (tryRequiredNode, application.go 1251-1298, with allocate and reserve).
RequiredNodeOnly ==
  \A k \in Keys : reqNode[k] # None => appRes[k] \in {None, reqNode[k]}

\* An ask that holds the reservation of its required node leaves nothing to
\* cancel there, so that tryRequiredNode loses no cancelled reservation when it
\* returns nil (application.go 1289-1294, "if this ask was already reserved we
\* should not have deleted any reservations").
NothingToCancel ==
  \A k \in Keys : reqNode[k] # None /\ appRes[k] # None =>
    \A j \in nodeRes[reqNode[k]] : reqNode[j] # None

\* As long as its application is neither Completed nor Failed, a reservation
\* belongs to an ask: removing the ask or all asks takes the reservation along
\* (removeAsksInternal, application.go 578-648), even while the reservation is
\* being made.  Only cleanupAsks (application.go 2334-2341) leaves one behind.
ReservedIsRequest ==
  \A k \in Keys : appRes[k] # None => k \in requests \/ appOf[k] \in terminated

Reserved(S) == {k \in S : appRes[k] # None}

Quiet == callbacks = 0 /\ leaving = {} /\ \A t \in Threads : todo[t] = <<>>

\* The partition's count never falls below the number of reservations: with a
\* count of zero tryReservedAllocate (partition.go 846-850) would never look at
\* the reservation again.
CountCovers == Quiet => reservations >= Cardinality(Reserved(Keys))

\* The leaf queue's count of an application likewise: TryReservedAllocate
\* (queue.go 1849-1898) only visits the applications in reservedApps.
QueueCovers ==
  Quiet => \A a \in Apps :
    reservedApps[a] >= Cardinality(Reserved({k \in Keys : appOf[k] = a}))

\* pc.reservations is the "number of reservations" (partition.go 65).
CountExact == Quiet => reservations = Cardinality(Reserved(Keys))

\* reserve never meets a node that is gone (partition.go 985-1002).
NoPanic == ~panic

\* The counters of queue and partition are never negative and never too low: no
\* reservation is forgotten by the calls that look at a counter first.
Covered == TypeOK /\ CountCovers /\ QueueCovers
=============================================================================
