-------------------------- MODULE ReservationsProofs --------------------------
(***************************************************************************)
(* Machine-checked proofs about Reservations, for any number of keys,       *)
(* applications and nodes.                                                  *)
(***************************************************************************)
EXTENDS Reservations, FiniteSetTheorems, TLAPS

USE DEF life

\* A result or call on its way to Application.Reserve does not send an ask that
\* requires a node to another node.
Fine(c) ==
  \/ c.op = "allocate" /\ c.type = "Reserved"
  \/ c.op \in {"reserve", "Reserve"}
  => (reqNode[c.key] # None => c.node = reqNode[c.key])

AllFine(ops) == \A i \in 1 .. Len(ops) : Fine(ops[i])

OpsOK == \A t \in Threads : AllFine(todo[t])

\* The part of the invariant about the two maps that record a reservation.
MapsOK == Symmetric /\ NodeExclusive /\ RequiredNodeOnly /\ ReservedIsRequest

IInv == TypeOK /\ MapsOK /\ OpsOK

-----------------------------------------------------------------------------
(* The calls in a to-do list *)

LEMMA KeyedOp ==
  ASSUME NEW c \in Op, c.op \in {"reserve", "Reserve", "fix", "unReserve"}
  PROVE  c.key \in Keys /\ c.node \in Nodes
BY DEF Op

LEMMA AllocateOp ==
  ASSUME NEW c \in Op, c.op = "allocate"
  PROVE  /\ c.key \in Keys /\ c.node \in Nodes /\ c.reserved \in Nodes
         /\ c.cancelled \in Nat /\ c.type \in ResultTypes
BY DEF Op

LEMMA AppOp ==
  ASSUME NEW c \in Op, c.op \in {"queueReserve", "queueUnReserve", "removeAsks", "RemoveApplication"}
  PROVE  c.app \in Apps
BY DEF Op

LEMMA DecOp ==
  ASSUME NEW c \in Op, c.op = "dec"
  PROVE  c.num \in Nat
BY DEF Op

LEMMA NodeOp ==
  ASSUME NEW c \in Op, c.op = "GetReservations"
  PROVE  c.node \in Nodes
BY DEF Op

LEMMA HeadOp ==
  ASSUME TypeOK, NEW t \in Threads, todo[t] # <<>>
  PROVE  Head(todo[t]) \in Op /\ Tail(todo[t]) \in Seq(Op)
<1>1. todo[t] \in Seq(Op)
  BY DEF TypeOK
<1> QED BY <1>1

LEMMA KeysCardinality ==
  ASSUME NEW S \in SUBSET Keys
  PROVE  IsFiniteSet(S) /\ Cardinality(S) \in Nat
BY FS_Subset, FS_CardinalityType, ReservationsAssumption

LEMMA ThenType ==
  ASSUME TypeOK, NEW t \in Threads, NEW ops \in Seq(Op), Then(t, ops)
  PROVE  todo' \in [Threads -> Seq(Op)]
BY DEF TypeOK, Then

LEMMA ResultType ==
  ASSUME NEW type \in ResultTypes, NEW k \in Keys, NEW n \in Nodes, NEW r \in Nodes,
         NEW c \in Nat
  PROVE  Result(type, k, n, r, c) \in Seq(Op)
<1>1. [op |-> "allocate", type |-> type, key |-> k, node |-> n, reserved |-> r,
       cancelled |-> c] \in Op
  BY DEF Op
<1> QED BY <1>1 DEF Result

LEMMA UnReserveCallsType ==
  ASSUME NEW k \in Keys, NEW num \in Nat
  PROVE  unReserveCalls(k, num) \in Seq(Op)
<1>1. [op |-> "queueUnReserve", app |-> appOf[k]] \in Op
  BY ReservationsAssumption DEF Op
<1>2. [op |-> "dec", num |-> num] \in Op
  BY DEF Op
<1> QED BY <1>1, <1>2 DEF unReserveCalls

LEMMA UnReserveType ==
  ASSUME TypeOK, NEW S \in SUBSET Keys, unReserveInternal(S)
  PROVE  appRes' \in [Keys -> Nodes \cup {None}] /\ nodeRes' \in [Nodes -> SUBSET Keys]
BY DEF TypeOK, unReserveInternal

LEMMA QueueType ==
  ASSUME TypeOK, NEW S \in SUBSET Keys, unReserveQueue(S)
  PROVE  reservedApps' \in [Apps -> Nat]
<1>1. \A a \in Apps : Cardinality({k \in S : appOf[k] = a}) \in Nat
  BY KeysCardinality
<1>2. \A a \in Apps : monus(reservedApps[a], Cardinality({k \in S : appOf[k] = a})) \in Nat
  BY <1>1 DEF TypeOK, monus
<1> QED BY <1>2 DEF unReserveQueue

-----------------------------------------------------------------------------
(* Type correctness *)

LEMMA InitType == Init => TypeOK
<1> SUFFICES ASSUME Init PROVE TypeOK
  OBVIOUS
<1>1. todo \in [Threads -> Seq(Op)]
  <2>1. <<>> \in Seq(Op)
    OBVIOUS
  <2> QED BY <2>1 DEF Init
<1>2. panic \in BOOLEAN
  BY Zenon DEF Init
<1> QED BY <1>1, <1>2 DEF Init, TypeOK

LEMMA ScheduleType == TypeOK /\ Schedule => TypeOK'
<1> SUFFICES ASSUME TypeOK, Schedule PROVE TypeOK'
  OBVIOUS
<1>s. "sched" \in Threads /\ <<>> \in Seq(Op)
  BY DEF Threads
<1>1. ASSUME NEW k \in Keys, NEW n \in Nodes, tryNodesReserve(k, n) PROVE TypeOK'
  <2>1. todo' \in [Threads -> Seq(Op)]
    BY <1>1, <1>s, ResultType, ThenType DEF tryNodesReserve, ResultTypes
  <2> QED BY <1>1, <2>1 DEF tryNodesReserve, TypeOK
<1>2. ASSUME NEW k \in Keys, NEW n \in Nodes, tryNode(k, n) PROVE TypeOK'
  <2>1. appRes[k] # None => appRes[k] \in Nodes
    BY DEF TypeOK
  <2>2. todo' \in [Threads -> Seq(Op)]
    <3>1. CASE appRes[k] = None
      BY <1>2, <1>s, <3>1, ResultType, ThenType DEF tryNode, ResultTypes
    <3>2. CASE appRes[k] # None
      BY Zenon, <1>2, <1>s, <2>1, <3>2, ResultType, ThenType DEF tryNode, ResultTypes
    <3> QED BY <3>1, <3>2
  <2> QED BY <1>2, <2>2 DEF tryNode, TypeOK
<1>3. ASSUME NEW k \in Keys, NEW n \in Nodes, tryRequiredNode(k, n) PROVE TypeOK'
  <2> DEFINE cancel == {j \in nodeRes[n] : reqNode[j] = None}
  <2>1. cancel \in SUBSET Keys
    BY DEF TypeOK
  <2>2. Cardinality(cancel) \in Nat
    BY <2>1, KeysCardinality
  <2>3. unReserveInternal(cancel) /\ unReserveQueue(cancel)
    BY <1>3 DEF tryRequiredNode
  <2>4. todo' \in [Threads -> Seq(Op)]
    <3>1. PICK ops \in Seq(Op) : Then("sched", ops)
      <4>1. Result("Reserved", k, n, n, Cardinality(cancel)) \in Seq(Op)
        BY <2>2, ResultType DEF ResultTypes
      <4>2. Result(IF appRes[k] = None THEN "Allocated" ELSE "AllocatedReserved",
                   k, n, n, Cardinality(cancel)) \in Seq(Op)
        BY Zenon, <2>2, ResultType DEF ResultTypes
      <4> QED BY Zenon, <1>3, <1>s, <4>1, <4>2 DEF tryRequiredNode
    <3> QED BY <1>s, <3>1, ThenType
  <2>5. allocated' \subseteq Keys
    BY <1>3 DEF tryRequiredNode, TypeOK
  <2>6. reservedApps' \in [Apps -> Nat]
    BY <2>1, <2>3, QueueType
  <2>7. appRes' \in [Keys -> Nodes \cup {None}] /\ nodeRes' \in [Nodes -> SUBSET Keys]
    BY <2>1, <2>3, UnReserveType
  <2>8. panic' \in BOOLEAN
    BY <1>3 DEF tryRequiredNode
  <2> QED BY <1>3, <2>4, <2>5, <2>6, <2>7, <2>8 DEF tryRequiredNode, TypeOK
<1>4. ASSUME NEW k \in Keys, NEW n \in Nodes, NEW cancel \in SUBSET Keys,
             TryPreemption(k, n, cancel)
      PROVE  TypeOK'
  <2>1. todo' \in [Threads -> Seq(Op)]
    <3>1. Result("Reserved", k, n, n, 0) \in Seq(Op)
      BY ResultType DEF ResultTypes
    <3>2. CASE Then("sched", Result("Reserved", k, n, n, 0))
      BY <1>s, <3>1, <3>2, ThenType
    <3>3. CASE UNCHANGED todo
      BY <3>3 DEF TypeOK
    <3> QED BY <1>4, <3>2, <3>3 DEF TryPreemption
  <2>2. triggered' \subseteq Keys
    BY <1>4 DEF TryPreemption, TypeOK
  <2>3. callbacks' \in Nat
    BY <1>4, KeysCardinality DEF TryPreemption, TypeOK
  <2>4. unReserveInternal(cancel) /\ unReserveQueue(cancel)
    BY <1>4 DEF TryPreemption
  <2>5. reservedApps' \in [Apps -> Nat]
    BY <2>4, QueueType
  <2>6. appRes' \in [Keys -> Nodes \cup {None}] /\ nodeRes' \in [Nodes -> SUBSET Keys]
    BY <2>4, UnReserveType
  <2>7. panic' \in BOOLEAN
    BY <1>4 DEF TryPreemption
  <2> QED BY SMTT(30), <1>4, <2>1, <2>2, <2>3, <2>5, <2>6, <2>7 DEF TryPreemption, TypeOK
<1>5. ASSUME NEW k \in Keys, cleanupReservation(k) PROVE TypeOK'
  <2>1. appRes[k] \in Nodes
    BY <1>5 DEF cleanupReservation, TypeOK
  <2>2. todo' \in [Threads -> Seq(Op)]
    BY <1>5, <1>s, <2>1, ResultType, ThenType DEF cleanupReservation, ResultTypes
  <2> QED BY <1>5, <2>2 DEF cleanupReservation, TypeOK
<1>6. ASSUME NEW k \in Keys, reservationTimeout(k) PROVE TypeOK'
  <2>1. unReserveInternal({k}) /\ unReserveQueue({k}) /\ {k} \in SUBSET Keys
    BY <1>6 DEF reservationTimeout
  <2>2. reservedApps' \in [Apps -> Nat]
    BY <2>1, QueueType
  <2>3. appRes' \in [Keys -> Nodes \cup {None}] /\ nodeRes' \in [Nodes -> SUBSET Keys]
    BY <2>1, UnReserveType
  <2> QED BY <1>6, <2>2, <2>3 DEF reservationTimeout, TypeOK
<1> QED BY <1>1, <1>2, <1>3, <1>4, <1>5, <1>6 DEF Schedule

LEMMA CallsType == TypeOK /\ Calls => TypeOK'
<1> SUFFICES ASSUME TypeOK, Calls PROVE TypeOK'
  OBVIOUS
<1>s. "sched" \in Threads /\ "rm" \in Threads /\ "node" \in Threads /\ <<>> \in Seq(Op)
  BY SMTT(30) DEF Threads
<1>1. ASSUME allocate PROVE TypeOK'
  <2> DEFINE res == Head(todo["sched"])
  <2>1. res \in Op /\ res.op = "allocate"
    BY <1>1, <1>s, HeadOp DEF allocate, Call
  <2>2. /\ res.key \in Keys /\ res.node \in Nodes /\ res.reserved \in Nodes
        /\ res.cancelled \in Nat
    BY <2>1, AllocateOp
  <2>3. PICK ops \in Seq(Op) : Then("sched", ops)
    <3>1. [op |-> "reserve", key |-> res.key, node |-> res.node] \in Op
      BY <2>2 DEF Op
    <3>2. [op |-> "unReserve", key |-> res.key, node |-> res.reserved] \in Op
      BY <2>2 DEF Op
    <3>3. \/ todo' = [todo EXCEPT !["sched"] =
                       <<[op |-> "reserve", key |-> res.key, node |-> res.node]>>]
          \/ todo' = [todo EXCEPT !["sched"] =
                       <<[op |-> "unReserve", key |-> res.key, node |-> res.reserved]>>]
          \/ todo' = [todo EXCEPT !["sched"] = <<>>]
      BY Zenon, <1>1 DEF allocate, Then
    <3>4. /\ <<[op |-> "reserve", key |-> res.key, node |-> res.node]>> \in Seq(Op)
          /\ <<[op |-> "unReserve", key |-> res.key, node |-> res.reserved]>> \in Seq(Op)
      BY <3>1, <3>2
    <3> QED BY Zenon, <1>s, <3>3, <3>4 DEF Then
  <2>4. todo' \in [Threads -> Seq(Op)]
    BY ZenonT(30), <1>s, <2>3, ThenType
  <2>5. allocated' \subseteq Keys
    BY ZenonT(30), <1>1 DEF allocate, TypeOK
  <2>6. reservations' \in Int
    BY <1>1, <2>2 DEF allocate, TypeOK
  <2> QED BY SMTT(30), <1>1, <2>4, <2>5, <2>6 DEF allocate, TypeOK
<1>2. ASSUME reserve PROVE TypeOK'
  <2> DEFINE c == Head(todo["sched"])
  <2>1. c \in Op /\ c.op = "reserve"
    BY <1>2, <1>s, HeadOp DEF reserve, Call
  <2>2. c.key \in Keys /\ c.node \in Nodes
    BY <2>1, KeyedOp
  <2>3. PICK ops \in Seq(Op) : Then("sched", ops)
    <3>1. [op |-> "Reserve", key |-> c.key, node |-> c.node] \in Op
      BY <2>2 DEF Op
    <3>2. CASE appRes[c.key] = None
      <4>1. Then("sched", <<[op |-> "Reserve", key |-> c.key, node |-> c.node]>>)
        BY Zenon, <1>2, <2>2, <3>2, ReservationsAssumption DEF reserve, Then
      <4>2. <<[op |-> "Reserve", key |-> c.key, node |-> c.node]>> \in Seq(Op)
        BY <3>1
      <4> QED BY Zenon, <4>1, <4>2
    <3>3. CASE appRes[c.key] # None /\ appRes[c.key] = c.node
      <4>1. Then("sched", <<>>)
        BY <1>2, <3>3 DEF reserve, Then
      <4> QED BY Zenon, <1>s, <4>1
    <3>4. CASE appRes[c.key] # None /\ appRes[c.key] # c.node
      <4>1. appRes[c.key] \in Nodes
        BY <2>2, <3>4 DEF TypeOK
      <4>2. [op |-> "fix", key |-> c.key, node |-> appRes[c.key]] \in Op
        BY <2>2, <4>1 DEF Op
      <4>3. Then("sched", <<[op |-> "fix", key |-> c.key, node |-> appRes[c.key]],
                            [op |-> "Reserve", key |-> c.key, node |-> c.node]>>)
        BY <1>2, <3>4 DEF reserve, Then
      <4>4. <<[op |-> "fix", key |-> c.key, node |-> appRes[c.key]],
              [op |-> "Reserve", key |-> c.key, node |-> c.node]>> \in Seq(Op)
        BY SMTT(30), <3>1, <4>2
      <4> QED BY <4>3, <4>4
    <3> QED BY <3>2, <3>3, <3>4
  <2>4. todo' \in [Threads -> Seq(Op)]
    BY <1>s, <2>3, ThenType
  <2> QED BY <1>2, <2>4 DEF reserve, TypeOK
<1>3. ASSUME Reserve PROVE TypeOK'
  <2> DEFINE c == Head(todo["sched"])
  <2>1. c \in Op /\ c.op = "Reserve"
    BY <1>3, <1>s, HeadOp DEF Reserve, Call
  <2>2. c.key \in Keys /\ c.node \in Nodes
    BY <2>1, KeyedOp
  <2>3. PICK ops \in Seq(Op) : Then("sched", ops)
    <3>1. [op |-> "queueReserve", app |-> appOf[c.key]] \in Op /\ [op |-> "inc"] \in Op
      BY <2>2, ReservationsAssumption DEF Op
    <3>2. <<[op |-> "queueReserve", app |-> appOf[c.key]], [op |-> "inc"]>> \in Seq(Op)
      BY <3>1
    <3>3. \/ Then("sched", <<[op |-> "queueReserve", app |-> appOf[c.key]], [op |-> "inc"]>>)
          \/ Then("sched", <<>>)
      BY Zenon, <1>3 DEF Reserve, Then
    <3> QED BY Zenon, <1>s, <3>2, <3>3
  <2>4. todo' \in [Threads -> Seq(Op)]
    BY <1>s, <2>3, ThenType
  <2>5. appRes' \in [Keys -> Nodes \cup {None}]
    BY <1>3, <2>2 DEF Reserve, TypeOK
  <2>6. nodeRes' \in [Nodes -> SUBSET Keys]
    BY SMTT(30), <1>3, <2>2 DEF Reserve, TypeOK
  <2> QED BY SMTT(30), <1>3, <2>4, <2>5, <2>6 DEF Reserve, TypeOK
<1>4. ASSUME queueReserve PROVE TypeOK'
  <2>1. Head(todo["sched"]).app \in Apps /\ Tail(todo["sched"]) \in Seq(Op)
    BY <1>4, <1>s, HeadOp, AppOp DEF queueReserve, Call
  <2>2. todo' \in [Threads -> Seq(Op)]
    BY Zenon, <1>4, <1>s, <2>1, ThenType DEF queueReserve
  <2>3. reservedApps' \in [Apps -> Nat]
    BY <1>4, <2>1 DEF queueReserve, TypeOK
  <2>4. panic' \in BOOLEAN
    BY <1>4 DEF queueReserve
  <2> QED BY SMTT(30), <1>4, <2>2, <2>3, <2>4 DEF queueReserve, TypeOK
<1>5. ASSUME incReservationCount PROVE TypeOK'
  <2>1. Tail(todo["sched"]) \in Seq(Op)
    BY <1>5, <1>s, HeadOp DEF incReservationCount, Call
  <2>2. todo' \in [Threads -> Seq(Op)]
    BY Zenon, <1>5, <1>s, <2>1, ThenType DEF incReservationCount
  <2> QED BY <1>5, <2>2 DEF incReservationCount, TypeOK
<1>6. ASSUME removeAllAsks PROVE TypeOK'
  <2> DEFINE a == Head(todo["rm"]).app
  <2>1. reservedBy(a) \in SUBSET Keys
    BY DEF reservedBy
  <2>2. unReserveInternal(reservedBy(a)) /\ unReserveQueue(reservedBy(a))
    BY <1>6 DEF removeAllAsks, removeAsks
  <2>3. [op |-> "dec", num |-> Cardinality(reservedBy(a))] \in Op
    BY <2>1, KeysCardinality DEF Op
  <2>4. todo' \in [Threads -> Seq(Op)]
    <3>0. Tail(todo["rm"]) \in Seq(Op)
      BY <1>6, <1>s, HeadOp DEF removeAllAsks, Call
    <3>1. <<[op |-> "dec", num |-> Cardinality(reservedBy(a))]>> \o Tail(todo["rm"])
            \in Seq(Op)
      BY <2>3, <3>0
    <3> HIDE DEF a
    <3>2. Then("rm", <<[op |-> "dec", num |-> Cardinality(reservedBy(a))]>>
                      \o Tail(todo["rm"]))
      BY <1>6 DEF removeAllAsks, a
    <3> QED BY Zenon, <1>s, <3>1, <3>2, ThenType
  <2>5. requests' \subseteq Keys
    BY <1>6 DEF removeAllAsks, removeAsks, TypeOK
  <2>6. reservedApps' \in [Apps -> Nat]
    BY <2>1, <2>2, QueueType
  <2>7. appRes' \in [Keys -> Nodes \cup {None}] /\ nodeRes' \in [Nodes -> SUBSET Keys]
    BY SMTT(30), <2>1, <2>2, UnReserveType
  <2>8. panic' \in BOOLEAN
    BY <1>6 DEF removeAllAsks, removeAsks
  <2> QED BY <1>6, <2>4, <2>5, <2>6, <2>7, <2>8 DEF removeAllAsks, TypeOK
<1>7. ASSUME GetReservations PROVE TypeOK'
  <2>1. Head(todo["node"]).node \in Nodes
    BY <1>7, <1>s, HeadOp, NodeOp DEF GetReservations, Call
  <2>2. todo' \in [Threads -> Seq(Op)]
    BY Zenon, <1>7, <1>s, ThenType DEF GetReservations
  <2> QED BY <1>7, <2>1, <2>2 DEF GetReservations, TypeOK
<1>8. ASSUME NEW op \in {"unReserve", "fix"}, unReserve("sched", op) PROVE TypeOK'
  <2> DEFINE c == Head(todo["sched"])
             found == appRes[c.key] # None /\ ~(op = "fix" /\ c.node \notin nodes)
             S == IF found THEN {c.key} ELSE {}
  <2>1. c \in Op /\ c.op = op /\ Tail(todo["sched"]) \in Seq(Op)
    BY <1>8, <1>s, HeadOp DEF unReserve, Call
  <2>2. c.key \in Keys /\ c.node \in Nodes
    BY <2>1, KeyedOp
  <2>3. unReserveCalls(c.key, 1) \in Seq(Op)
    BY <2>2, UnReserveCallsType
  <2>4. PICK ops \in Seq(Op) : Then("sched", ops)
    <3>1. unReserveCalls(c.key, 1) \o Tail(todo["sched"]) \in Seq(Op)
      BY <2>1, <2>3
    <3>2. \/ Then("sched", unReserveCalls(c.key, 1) \o Tail(todo["sched"]))
          \/ Then("sched", Tail(todo["sched"]))
      BY Zenon, <1>8 DEF unReserve, Then
    <3> QED BY Zenon, <2>1, <3>1, <3>2
  <2>5. todo' \in [Threads -> Seq(Op)]
    BY SMTT(30), <1>s, <2>4, ThenType
  <2>6. S \in SUBSET Keys /\ unReserveInternal(S)
    BY <1>8, <2>2 DEF unReserve
  <2>7. appRes' \in [Keys -> Nodes \cup {None}] /\ nodeRes' \in [Nodes -> SUBSET Keys]
    BY <2>6, UnReserveType
  <2>8. panic' \in BOOLEAN
    BY SMTT(30), <1>8 DEF unReserve
  <2> QED BY ZenonT(30), <1>8, <2>5, <2>7, <2>8 DEF unReserve, TypeOK
<1>9. ASSUME NEW t \in Threads, queueUnReserve(t) PROVE TypeOK'
  <2>1. Head(todo[t]).app \in Apps /\ Tail(todo[t]) \in Seq(Op)
    BY <1>9, HeadOp, AppOp DEF queueUnReserve, Call
  <2>2. todo' \in [Threads -> Seq(Op)]
    BY Zenon, <1>9, <2>1, ThenType DEF queueUnReserve
  <2>3. reservedApps' \in [Apps -> Nat]
    BY <1>9, <2>1 DEF queueUnReserve, TypeOK, monus
  <2>4. panic' \in BOOLEAN
    BY <1>9 DEF queueUnReserve
  <2> QED BY SMTT(30), <1>9, <2>2, <2>3, <2>4 DEF queueUnReserve, TypeOK
<1>10. ASSUME NEW t \in Threads, decReservationCount(t) PROVE TypeOK'
  <2>1. Head(todo[t]).num \in Nat /\ Tail(todo[t]) \in Seq(Op)
    BY <1>10, HeadOp, DecOp DEF decReservationCount, Call
  <2>2. todo' \in [Threads -> Seq(Op)]
    BY Zenon, <1>10, <2>1, ThenType DEF decReservationCount
  <2> QED BY <1>10, <2>1, <2>2 DEF decReservationCount, TypeOK
<1>11. ASSUME NEW num \in 1 .. callbacks, releasedCallback(num) PROVE TypeOK'
  BY SMTT(30), <1>11 DEF releasedCallback, TypeOK
<1>12. ASSUME RemoveApplication PROVE TypeOK'
  <2>1. Tail(todo["rm"]) \in Seq(Op)
    BY <1>12, <1>s, HeadOp DEF RemoveApplication, Call
  <2>2. todo' \in [Threads -> Seq(Op)]
    BY Zenon, <1>12, <1>s, <2>1, ThenType DEF RemoveApplication
  <2>3. leafQueue' \in [Apps -> {"in", "left", "nil"}]
    BY Zenon, <1>12 DEF RemoveApplication, TypeOK
  <2> QED BY <1>12, <2>2, <2>3 DEF RemoveApplication, TypeOK
<1> QED
  BY <1>1, <1>2, <1>3, <1>4, <1>5, <1>6, <1>7, <1>8, <1>9, <1>10, <1>11, <1>12 DEF Calls

LEMMA EventsType == TypeOK /\ Events => TypeOK'
<1> SUFFICES ASSUME TypeOK, Events PROVE TypeOK'
  OBVIOUS
<1>s. "rm" \in Threads /\ "node" \in Threads /\ <<>> \in Seq(Op)
  BY DEF Threads
<1>1. ASSUME NEW k \in Keys, RemoveAllocationAsk(k) PROVE TypeOK'
  <2> DEFINE S == IF appRes[k] = None THEN {} ELSE {k}
  <2>1. S \in SUBSET Keys
    OBVIOUS
  <2>2. unReserveInternal(S) /\ unReserveQueue(S)
    BY <1>1 DEF RemoveAllocationAsk
  <2>3. <<[op |-> "dec", num |-> Cardinality(S)]>> \in Seq(Op)
    <3>1. Cardinality(S) \in Nat
      BY SMTT(30), <2>1, KeysCardinality
    <3> HIDE DEF S
    <3>2. [op |-> "dec", num |-> Cardinality(S)] \in Op
      BY <3>1 DEF Op
    <3> QED BY <3>2
  <2>4. todo' \in [Threads -> Seq(Op)]
    <3>1. Then("rm", <<[op |-> "dec", num |-> Cardinality(S)]>>)
      BY <1>1 DEF RemoveAllocationAsk
    <3> QED BY Zenon, <1>s, <2>3, <3>1, ThenType
  <2>5. reservedApps' \in [Apps -> Nat]
    BY <2>1, <2>2, QueueType
  <2>6. appRes' \in [Keys -> Nodes \cup {None}] /\ nodeRes' \in [Nodes -> SUBSET Keys]
    BY ZenonT(30), <2>1, <2>2, UnReserveType
  <2>7. panic' \in BOOLEAN
    BY <1>1 DEF RemoveAllocationAsk
  <2> QED BY <1>1, <2>4, <2>5, <2>6, <2>7 DEF RemoveAllocationAsk, TypeOK
<1>2. ASSUME NEW k \in Keys, AllocateAsk(k) PROVE TypeOK'
  BY <1>2 DEF AllocateAsk, TypeOK
<1>3. ASSUME NEW k \in Keys, unReserveLeaving(k) PROVE TypeOK'
  <2>1. unReserveInternal({k}) /\ {k} \in SUBSET Keys
    BY <1>3 DEF unReserveLeaving
  <2>2. appRes' \in [Keys -> Nodes \cup {None}] /\ nodeRes' \in [Nodes -> SUBSET Keys]
    BY <2>1, UnReserveType
  <2>3. unReserveCalls(k, 1) \in Seq(Op)
    BY UnReserveCallsType
  <2>4. todo' \in [Threads -> Seq(Op)]
    BY Zenon, <1>3, <1>s, <2>3, ThenType DEF unReserveLeaving
  <2>5. panic' \in BOOLEAN
    BY <1>3 DEF unReserveLeaving
  <2> QED BY <1>3, <2>2, <2>4, <2>5 DEF unReserveLeaving, TypeOK
<1>4. ASSUME NEW a \in Apps, removeApplication(a) \/ releaseAll(a) PROVE TypeOK'
  <2>1. [op |-> "removeAsks", app |-> a] \in Op /\ [op |-> "RemoveApplication", app |-> a] \in Op
    BY DEF Op
  <2>2. /\ <<[op |-> "removeAsks", app |-> a]>> \in Seq(Op)
        /\ <<[op |-> "removeAsks", app |-> a], [op |-> "RemoveApplication", app |-> a]>>
              \in Seq(Op)
    BY <2>1
  <2>3. todo' \in [Threads -> Seq(Op)]
    BY Zenon, <1>4, <1>s, <2>2, ThenType DEF removeApplication, releaseAll
  <2> QED BY <1>4, <2>3 DEF removeApplication, releaseAll, TypeOK
<1>5. ASSUME NEW a \in Apps, placeholderTimeout(a) PROVE TypeOK'
  <2>1. reservedBy(a) \in SUBSET Keys
    BY DEF reservedBy
  <2>2. unReserveInternal(reservedBy(a)) /\ unReserveQueue(reservedBy(a))
    BY <1>5 DEF placeholderTimeout, removeAsks
  <2>3. requests' \subseteq Keys
    BY <1>5 DEF placeholderTimeout, removeAsks, TypeOK
  <2>4. callbacks' \in Nat
    BY <1>5, <2>1, KeysCardinality DEF placeholderTimeout, TypeOK
  <2>5. reservedApps' \in [Apps -> Nat]
    BY <2>1, <2>2, QueueType
  <2>6. appRes' \in [Keys -> Nodes \cup {None}] /\ nodeRes' \in [Nodes -> SUBSET Keys]
    BY <2>1, <2>2, UnReserveType
  <2>7. panic' \in BOOLEAN
    BY <1>5 DEF placeholderTimeout, removeAsks
  <2> QED BY ZenonT(30), <1>5, <2>3, <2>4, <2>5, <2>6, <2>7 DEF placeholderTimeout, TypeOK
<1>6. ASSUME NEW n \in Nodes, removeNode(n) PROVE TypeOK'
  <2>1. [op |-> "GetReservations", node |-> n] \in Op
    BY DEF Op
  <2>2. <<[op |-> "GetReservations", node |-> n]>> \in Seq(Op)
    BY <2>1
  <2>3. todo' \in [Threads -> Seq(Op)]
    BY Zenon, <1>6, <1>s, <2>2, ThenType DEF removeNode
  <2> QED BY <1>6, <2>3 DEF removeNode, TypeOK
<1>7. ASSUME NEW k \in Keys, AddAllocationAsk(k) PROVE TypeOK'
  <2>1. panic' \in BOOLEAN
    BY <1>7 DEF AddAllocationAsk, nilQueue
  <2> QED BY ZenonT(30), <1>7, <2>1 DEF AddAllocationAsk, TypeOK
<1>8. ASSUME NEW a \in Apps, cleanupAsks(a) PROVE TypeOK'
  BY <1>8 DEF cleanupAsks, TypeOK
<1>9. ASSUME NEW a \in Apps, UnSetQueue(a) PROVE TypeOK'
  <2>1. leafQueue' \in [Apps -> {"in", "left", "nil"}]
    BY <1>9 DEF UnSetQueue, TypeOK
  <2> QED BY <1>9, <2>1 DEF UnSetQueue, TypeOK
<1>10. ASSUME NEW a \in Apps, moveTerminatedApp(a) PROVE TypeOK'
  BY <1>10 DEF moveTerminatedApp, TypeOK
<1> QED BY <1>1, <1>2, <1>3, <1>4, <1>5, <1>6, <1>7, <1>8, <1>9, <1>10 DEF Events

\* Every variable keeps its type (the fields of PartitionContext, Application,
\* Node and Queue that record reservations, and the calls still to be made).
THEOREM TypeCorrect == Spec => []TypeOK
<1>1. TypeOK /\ [Next]_vars => TypeOK'
  <2>1. TypeOK /\ UNCHANGED vars => TypeOK'
    BY SMTT(30) DEF TypeOK, vars
  <2> QED BY SMTT(30), <2>1, ScheduleType, CallsType, EventsType DEF Next
<1> QED BY <1>1, InitType, PTL DEF Spec

-----------------------------------------------------------------------------
(* Nothing on its way to Reserve leads astray *)

LEMMA FineThen ==
  ASSUME TypeOK, OpsOK, NEW t \in Threads, NEW ops, Then(t, ops), AllFine(ops)
  PROVE  OpsOK'
<1>1. \A u \in Threads : todo'[u] = IF u = t THEN ops ELSE todo[u]
  BY SMTT(30) DEF Then, TypeOK
<1>2. \A u \in Threads : AllFine(todo'[u])
  BY <1>1 DEF OpsOK
<1> QED BY <1>2 DEF OpsOK, AllFine, Fine

LEMMA FineEmpty == AllFine(<<>>)
BY DEF AllFine

LEMMA FineTail ==
  ASSUME TypeOK, OpsOK, NEW t \in Threads, todo[t] # <<>>
  PROVE  AllFine(Tail(todo[t]))
<1>1. todo[t] \in Seq(Op) /\ AllFine(todo[t])
  BY SMTT(30) DEF TypeOK, OpsOK
<1>2. \A i \in 1 .. Len(Tail(todo[t])) :
        i + 1 \in 1 .. Len(todo[t]) /\ Tail(todo[t])[i] = todo[t][i + 1]
  BY SMTT(30), <1>1
<1> QED BY <1>1, <1>2 DEF AllFine

LEMMA FineHead ==
  ASSUME TypeOK, OpsOK, NEW t \in Threads, todo[t] # <<>>
  PROVE  Fine(Head(todo[t]))
<1>1. todo[t] \in Seq(Op) /\ AllFine(todo[t])
  BY DEF TypeOK, OpsOK
<1>2. Head(todo[t]) = todo[t][1] /\ 1 \in 1 .. Len(todo[t])
  BY <1>1
<1> QED BY SMTT(30), <1>1, <1>2 DEF AllFine

LEMMA FineOne ==
  ASSUME NEW c, Fine(c)
  PROVE  AllFine(<<c>>)
BY DEF AllFine

LEMMA FineTwo ==
  ASSUME NEW c, NEW d, Fine(c), Fine(d)
  PROVE  AllFine(<<c, d>>)
BY DEF AllFine

LEMMA FineResult ==
  ASSUME NEW type, NEW k, NEW n, NEW r, NEW c,
         type # "Reserved" \/ reqNode[k] \in {None, n}
  PROVE  AllFine(Result(type, k, n, r, c))
<1>1. Fine([op |-> "allocate", type |-> type, key |-> k, node |-> n, reserved |-> r,
            cancelled |-> c])
  BY DEF Fine
<1> QED BY <1>1, FineOne DEF Result

LEMMA FineUnReserve ==
  ASSUME NEW k, NEW num, NEW ops \in Seq(Op), AllFine(ops)
  PROVE  AllFine(unReserveCalls(k, num)) /\ AllFine(unReserveCalls(k, num) \o ops)
<1> DEFINE c == [op |-> "queueUnReserve", app |-> appOf[k]]
           d == [op |-> "dec", num |-> num]
<1>1. Fine(c) /\ Fine(d)
  BY DEF Fine
<1> HIDE DEF c, d
<1>2. AllFine(<<c, d>>)
  BY <1>1, FineTwo
<1>3. \A i \in 1 .. Len(<<c, d>> \o ops) :
        \/ i \in {1, 2} /\ (<<c, d>> \o ops)[i] \in {c, d}
        \/ i - 2 \in 1 .. Len(ops) /\ (<<c, d>> \o ops)[i] = ops[i - 2]
  OBVIOUS
<1>4. AllFine(<<c, d>> \o ops)
  BY SMTT(30), <1>1, <1>3 DEF AllFine
<1> QED BY <1>2, <1>4 DEF unReserveCalls, c, d

-----------------------------------------------------------------------------
(* The two maps *)

LEMMA SameMaps ==
  ASSUME MapsOK, UNCHANGED <<appRes, nodeRes, requests, terminated>>
  PROVE  MapsOK'
BY DEF MapsOK, Symmetric, NodeExclusive, RequiredNodeOnly, ReservedIsRequest

\* Dropping the reservations of S keeps the maps right, when S takes in every
\* reservation of the asks that are dropped with them.
LEMMA UnReserveMaps ==
  ASSUME TypeOK, MapsOK, NEW S \in SUBSET Keys, unReserveInternal(S),
         terminated' = terminated,
         \A k \in Keys : k \in requests /\ k \notin requests' /\ appRes[k] # None => k \in S
  PROVE  MapsOK'
<1>1. \A k \in Keys : appRes'[k] = IF k \in S THEN None ELSE appRes[k]
  BY DEF unReserveInternal
<1>2. \A n \in Nodes : nodeRes'[n] = nodeRes[n] \ {k \in S : appRes[k] = n}
  BY DEF unReserveInternal
<1>3. Symmetric'
  <2>1. ASSUME NEW k \in Keys, NEW n \in Nodes
        PROVE  appRes'[k] = n <=> k \in nodeRes'[n]
    BY SMTT(30), <1>1, <1>2, ReservationsAssumption DEF MapsOK, Symmetric
  <2> QED BY SMTT(30), <2>1 DEF Symmetric
<1>4. NodeExclusive'
  BY <1>2 DEF MapsOK, NodeExclusive
<1>5. RequiredNodeOnly'
  BY <1>1 DEF MapsOK, RequiredNodeOnly
<1>6. ReservedIsRequest'
  BY <1>1 DEF MapsOK, ReservedIsRequest
<1> QED BY SMTT(30), <1>3, <1>4, <1>5, <1>6 DEF MapsOK

LEMMA ScheduleKeeps == IInv /\ Schedule => MapsOK' /\ OpsOK'
<1> SUFFICES ASSUME TypeOK, MapsOK, OpsOK, Schedule PROVE MapsOK' /\ OpsOK'
  BY DEF IInv
<1>s. "sched" \in Threads
  BY SMTT(30) DEF Threads
<1>1. ASSUME NEW k \in Keys, NEW n \in Nodes, tryNodesReserve(k, n)
      PROVE  MapsOK' /\ OpsOK'
  BY ZenonT(30), <1>1, <1>s, SameMaps, FineResult, FineThen DEF tryNodesReserve
<1>2. ASSUME NEW k \in Keys, NEW n \in Nodes, tryNode(k, n) PROVE MapsOK' /\ OpsOK'
  <2>1. \/ Then("sched", Result("Allocated", k, n, n, 0))
        \/ Then("sched", Result("AllocatedReserved", k, n, appRes[k], 0))
    BY ZenonT(30), <1>2 DEF tryNode
  <2>2. OpsOK'
    BY <1>s, <2>1, FineResult, FineThen
  <2> QED BY ZenonT(30), <1>2, <2>2, SameMaps DEF tryNode
<1>3. ASSUME NEW k \in Keys, NEW n \in Nodes, tryRequiredNode(k, n)
      PROVE  MapsOK' /\ OpsOK'
  <2> DEFINE cancel == {j \in nodeRes[n] : reqNode[j] = None}
             num == Cardinality(cancel)
  <2>1. cancel \in SUBSET Keys /\ unReserveInternal(cancel) /\ UNCHANGED <<requests, terminated>>
    BY ZenonT(30), <1>3 DEF tryRequiredNode, TypeOK
  <2>2. MapsOK'
    BY ZenonT(30), <2>1, UnReserveMaps
  <2>3. n = reqNode[k]
    BY ZenonT(30), <1>3 DEF tryRequiredNode
  <2>4. \/ Then("sched", Result("Allocated", k, n, n, num))
        \/ Then("sched", Result("AllocatedReserved", k, n, n, num))
        \/ Then("sched", Result("Reserved", k, n, n, num))
        \/ Then("sched", <<>>)
    BY <1>3 DEF tryRequiredNode
  <2> HIDE DEF num
  <2>5. OpsOK'
    BY SMTT(30), <1>s, <2>3, <2>4, FineResult, FineEmpty, FineThen
  <2> QED BY SMTT(30), <2>2, <2>5
<1>4. ASSUME NEW k \in Keys, NEW n \in Nodes, NEW cancel \in SUBSET Keys,
             TryPreemption(k, n, cancel)
      PROVE  MapsOK' /\ OpsOK'
  <2>1. unReserveInternal(cancel) /\ UNCHANGED <<requests, terminated>>
    BY <1>4 DEF TryPreemption
  <2>2. MapsOK'
    BY SMTT(30), <2>1, UnReserveMaps
  <2>3. reqNode[k] = None
    BY <1>4, ReservationsAssumption DEF TryPreemption
  <2>4. CASE Then("sched", Result("Reserved", k, n, n, 0))
    BY SMTT(30), <1>s, <2>2, <2>3, <2>4, FineResult, FineThen
  <2>5. CASE UNCHANGED todo
    BY <2>2, <2>5 DEF OpsOK, AllFine, Fine
  <2> QED BY Zenon, <1>4, <2>4, <2>5 DEF TryPreemption
<1>5. ASSUME NEW k \in Keys, cleanupReservation(k) PROVE MapsOK' /\ OpsOK'
  <2>1. Then("sched", Result("Unreserved", k, appRes[k], appRes[k], 0))
    BY <1>5 DEF cleanupReservation
  <2>2. OpsOK'
    BY SMTT(30), <1>s, <2>1, FineResult, FineThen
  <2> QED BY <1>5, <2>2, SameMaps DEF cleanupReservation
<1>6. ASSUME NEW k \in Keys, reservationTimeout(k) PROVE MapsOK' /\ OpsOK'
  <2>1. {k} \in SUBSET Keys /\ unReserveInternal({k}) /\ UNCHANGED <<requests, terminated>>
    BY <1>6 DEF reservationTimeout
  <2>2. MapsOK'
    BY <2>1, UnReserveMaps
  <2> QED BY SMTT(30), <1>6, <2>2 DEF reservationTimeout, OpsOK, AllFine, Fine
<1> QED BY <1>1, <1>2, <1>3, <1>4, <1>5, <1>6 DEF Schedule

\* Application.Reserve is the one step that records a reservation.
LEMMA ReserveKeeps == IInv /\ Reserve => MapsOK' /\ OpsOK'
<1> SUFFICES ASSUME TypeOK, MapsOK, OpsOK, Reserve PROVE MapsOK' /\ OpsOK'
  BY DEF IInv
<1> DEFINE c == Head(todo["sched"])
<1>s. "sched" \in Threads
  BY DEF Threads
<1>1. c \in Op /\ c.op = "Reserve" /\ Fine(c)
  BY <1>s, HeadOp, FineHead DEF Reserve, Call
<1>2. c.key \in Keys /\ c.node \in Nodes
  BY <1>1, KeyedOp
<1>3. OpsOK'
  <2> DEFINE q == [op |-> "queueReserve", app |-> appOf[c.key]]
             i == [op |-> "inc"]
  <2>1. Fine(q) /\ Fine(i)
    BY SMTT(30) DEF Fine
  <2>2. Then("sched", <<q, i>>) \/ Then("sched", <<>>)
    BY Zenon DEF Reserve, Then
  <2> HIDE DEF q, i
  <2>3. AllFine(<<q, i>>)
    BY ZenonT(30), <2>1, FineTwo
  <2> QED BY SMTT(30), <1>s, <2>2, <2>3, FineEmpty, FineThen
<1>4. CASE ~canReserve(c.key, c.node)
  BY <1>3, <1>4, SameMaps DEF Reserve
<1>5. CASE canReserve(c.key, c.node)
  <2>1. appRes' = [appRes EXCEPT ![c.key] = c.node] /\ UNCHANGED <<requests, terminated>>
    BY ZenonT(30), <1>5 DEF Reserve
  <2>2. nodeRes' = [nodeRes EXCEPT ![c.node] = @ \cup {c.key}]
    BY <1>5 DEF Reserve
  <2>3. appRes[c.key] = None /\ c.key \in requests
    BY <1>5 DEF canReserve
  <2> HIDE DEF c
  <2>4. Symmetric'
    BY SMTT(30), <1>2, <2>1, <2>2, <2>3, ReservationsAssumption DEF MapsOK, Symmetric, TypeOK
  <2>5. NodeExclusive'
    BY SMTT(30), <1>2, <1>5, <2>2 DEF MapsOK, NodeExclusive, TypeOK, canReserve
  <2>6. RequiredNodeOnly'
    BY SMTT(30), <1>1, <1>2, <2>1 DEF MapsOK, RequiredNodeOnly, TypeOK, Fine
  <2>7. ReservedIsRequest'
    BY SMTT(30), <1>2, <2>1, <2>3 DEF MapsOK, ReservedIsRequest, TypeOK
  <2> QED BY ZenonT(30), <1>3, <2>4, <2>5, <2>6, <2>7 DEF MapsOK
<1> QED BY SMTT(30), <1>4, <1>5

LEMMA CallsKeep == IInv /\ Calls => MapsOK' /\ OpsOK'
<1> SUFFICES ASSUME TypeOK, MapsOK, OpsOK, Calls PROVE MapsOK' /\ OpsOK'
  BY DEF IInv
<1>s. "sched" \in Threads /\ "rm" \in Threads /\ "node" \in Threads
  BY SMTT(30) DEF Threads
<1>1. ASSUME allocate PROVE MapsOK' /\ OpsOK'
  <2> DEFINE res == Head(todo["sched"])
             r == [op |-> "reserve", key |-> res.key, node |-> res.node]
             u == [op |-> "unReserve", key |-> res.key, node |-> res.reserved]
  <2>1. res.op = "allocate" /\ Fine(res)
    BY SMTT(30), <1>1, <1>s, FineHead DEF allocate, Call
  <2>2. res.type = "Reserved" => AllFine(<<r>>)
    <3>1. res.type = "Reserved" => Fine(r)
      BY <2>1 DEF Fine
    <3> QED BY SMTT(30), <3>1, FineOne
  <2>3. AllFine(<<u>>)
    <3>1. Fine(u)
      BY SMTT(30) DEF Fine
    <3> QED BY SMTT(30), <3>1, FineOne
  <2>4. \/ res.type = "Reserved" /\ Then("sched", <<r>>)
        \/ Then("sched", <<u>>)
        \/ Then("sched", <<>>)
    BY Zenon, <1>1 DEF allocate, Then
  <2> HIDE DEF r, u
  <2>5. OpsOK'
    BY <1>s, <2>2, <2>3, <2>4, FineEmpty, FineThen
  <2> QED BY SMTT(30), <1>1, <2>5, SameMaps DEF allocate
<1>2. ASSUME reserve PROVE MapsOK' /\ OpsOK'
  <2> DEFINE c == Head(todo["sched"])
             r == [op |-> "Reserve", key |-> c.key, node |-> c.node]
             f == [op |-> "fix", key |-> c.key, node |-> appRes[c.key]]
  <2>1. c.op = "reserve" /\ Fine(c)
    BY ZenonT(30), <1>2, <1>s, FineHead DEF reserve, Call
  <2>2. Fine(r) /\ Fine(f)
    BY ZenonT(30), <2>1 DEF Fine
  <2>3. Then("sched", <<r>>) \/ Then("sched", <<>>) \/ Then("sched", <<f, r>>)
    <3>0. c.node \in Nodes
      BY ZenonT(30), <1>2, <1>s, HeadOp, KeyedOp DEF reserve, Call
    <3>1. CASE appRes[c.key] = None
      <4>1. Then("sched", <<r>>)
        BY Zenon, <1>2, <3>0, <3>1, ReservationsAssumption DEF reserve, Then
      <4> QED BY <4>1
    <3>2. CASE appRes[c.key] # None /\ appRes[c.key] = c.node
      <4>1. Then("sched", <<>>)
        BY <1>2, <3>2 DEF reserve, Then
      <4> QED BY <4>1
    <3>3. CASE appRes[c.key] # None /\ appRes[c.key] # c.node
      <4>1. Then("sched", <<f, r>>)
        BY <1>2, <3>3 DEF reserve, Then
      <4> QED BY <4>1
    <3> QED BY <3>1, <3>2, <3>3
  <2> HIDE DEF r, f
  <2>4. OpsOK'
    BY <1>s, <2>2, <2>3, FineOne, FineTwo, FineEmpty, FineThen
  <2> QED BY <1>2, <2>4, SameMaps DEF reserve
<1>3. ASSUME Reserve PROVE MapsOK' /\ OpsOK'
  BY ZenonT(30), <1>3, ReserveKeeps DEF IInv
<1>4. ASSUME queueReserve PROVE MapsOK' /\ OpsOK'
  BY ZenonT(30), <1>4, <1>s, SameMaps, FineTail, FineThen DEF queueReserve, Call
<1>5. ASSUME incReservationCount PROVE MapsOK' /\ OpsOK'
  BY <1>5, <1>s, SameMaps, FineTail, FineThen DEF incReservationCount, Call
<1>6. ASSUME removeAllAsks PROVE MapsOK' /\ OpsOK'
  <2> DEFINE a == Head(todo["rm"]).app
             d == [op |-> "dec", num |-> Cardinality(reservedBy(a))]
  <2>1. reservedBy(a) \in SUBSET Keys /\ unReserveInternal(reservedBy(a))
    BY ZenonT(30), <1>6 DEF removeAllAsks, removeAsks, reservedBy
  <2>2. requests' = {k \in requests : appOf[k] # a} /\ terminated' = terminated
    BY <1>6 DEF removeAllAsks, removeAsks
  <2>3. MapsOK'
    BY SMTT(30), <2>1, <2>2, UnReserveMaps DEF reservedBy
  <2>4. Fine(d) /\ Then("rm", <<d>> \o Tail(todo["rm"]))
    BY ZenonT(30), <1>6 DEF removeAllAsks, Fine
  <2>6. Tail(todo["rm"]) \in Seq(Op) /\ AllFine(Tail(todo["rm"]))
    BY <1>6, <1>s, HeadOp, FineTail DEF removeAllAsks, Call
  <2> HIDE DEF d
  <2>5. OpsOK'
    <3>1. \A i \in 1 .. Len(<<d>> \o Tail(todo["rm"])) :
            \/ i = 1 /\ (<<d>> \o Tail(todo["rm"]))[i] = d
            \/ /\ i - 1 \in 1 .. Len(Tail(todo["rm"]))
               /\ (<<d>> \o Tail(todo["rm"]))[i] = Tail(todo["rm"])[i - 1]
      BY <2>6
    <3>2. AllFine(<<d>> \o Tail(todo["rm"]))
      BY Zenon, <2>4, <2>6, <3>1 DEF AllFine
    <3> QED BY <1>s, <2>4, <3>2, FineThen
  <2> QED BY SMTT(30), <2>3, <2>5
<1>7. ASSUME GetReservations PROVE MapsOK' /\ OpsOK'
  BY <1>7, <1>s, SameMaps, FineEmpty, FineThen DEF GetReservations
<1>8. ASSUME NEW op \in {"unReserve", "fix"}, unReserve("sched", op)
      PROVE  MapsOK' /\ OpsOK'
  <2> DEFINE c == Head(todo["sched"])
             found == appRes[c.key] # None /\ ~(op = "fix" /\ c.node \notin nodes)
             S == IF found THEN {c.key} ELSE {}
  <2>1. c \in Op /\ c.op = op /\ Tail(todo["sched"]) \in Seq(Op)
    BY <1>8, <1>s, HeadOp DEF unReserve, Call
  <2>2. c.key \in Keys
    BY ZenonT(30), <2>1, KeyedOp
  <2>3. S \in SUBSET Keys /\ unReserveInternal(S) /\ UNCHANGED <<requests, terminated>>
    BY ZenonT(30), <1>8, <2>2 DEF unReserve
  <2>4. MapsOK'
    BY SMTT(30), <2>3, UnReserveMaps
  <2>5. \/ Then("sched", unReserveCalls(c.key, 1) \o Tail(todo["sched"]))
        \/ Then("sched", Tail(todo["sched"]))
    BY SMTT(30), <1>8 DEF unReserve
  <2>6. AllFine(Tail(todo["sched"]))
    BY <1>8, <1>s, FineTail DEF unReserve, Call
  <2>7. OpsOK'
    BY Zenon, <1>s, <2>1, <2>5, <2>6, FineUnReserve, FineThen
  <2> QED BY ZenonT(30), <2>4, <2>7
<1>9. ASSUME NEW t \in Threads, queueUnReserve(t) PROVE MapsOK' /\ OpsOK'
  BY ZenonT(30), <1>9, SameMaps, FineTail, FineThen DEF queueUnReserve, Call
<1>10. ASSUME NEW t \in Threads, decReservationCount(t) PROVE MapsOK' /\ OpsOK'
  BY ZenonT(30), <1>10, SameMaps, FineTail, FineThen DEF decReservationCount, Call
<1>11. ASSUME NEW num \in 1 .. callbacks, releasedCallback(num) PROVE MapsOK' /\ OpsOK'
  BY ZenonT(30), <1>11, SameMaps DEF releasedCallback, OpsOK, AllFine, Fine
<1>12. ASSUME RemoveApplication PROVE MapsOK' /\ OpsOK'
  BY SMTT(30), <1>12, <1>s, SameMaps, FineTail, FineThen DEF RemoveApplication, Call
<1> QED
  BY SMTT(30), <1>1, <1>2, <1>3, <1>4, <1>5, <1>6, <1>7, <1>8, <1>9, <1>10, <1>11, <1>12 DEF Calls

LEMMA EventsKeep == IInv /\ Events => MapsOK' /\ OpsOK'
<1> SUFFICES ASSUME TypeOK, MapsOK, OpsOK, Events PROVE MapsOK' /\ OpsOK'
  BY DEF IInv
<1>s. "rm" \in Threads /\ "node" \in Threads
  BY DEF Threads
<1>1. ASSUME NEW k \in Keys, RemoveAllocationAsk(k) PROVE MapsOK' /\ OpsOK'
  <2> DEFINE S == IF appRes[k] = None THEN {} ELSE {k}
             d == [op |-> "dec", num |-> Cardinality(S)]
  <2>1. /\ S \in SUBSET Keys /\ unReserveInternal(S)
        /\ requests' = requests \ {k} /\ terminated' = terminated
    BY <1>1 DEF RemoveAllocationAsk
  <2>2. MapsOK'
    BY SMTT(30), <2>1, UnReserveMaps
  <2>3. Fine(d) /\ Then("rm", <<d>>)
    BY <1>1 DEF RemoveAllocationAsk, Fine
  <2> HIDE DEF d
  <2>4. OpsOK'
    BY SMTT(30), <1>s, <2>3, FineOne, FineThen
  <2> QED BY SMTT(30), <2>2, <2>4
<1>2. ASSUME NEW k \in Keys, AllocateAsk(k) PROVE MapsOK' /\ OpsOK'
  BY <1>2, SameMaps DEF AllocateAsk, OpsOK, AllFine, Fine
<1>3. ASSUME NEW k \in Keys, unReserveLeaving(k) PROVE MapsOK' /\ OpsOK'
  <2>1. {k} \in SUBSET Keys /\ unReserveInternal({k}) /\ UNCHANGED <<requests, terminated>>
    BY <1>3 DEF unReserveLeaving
  <2>2. MapsOK'
    BY <2>1, UnReserveMaps
  <2>3. Then("node", <<>>) \/ Then("node", unReserveCalls(k, 1))
    BY <1>3 DEF unReserveLeaving
  <2>4. AllFine(unReserveCalls(k, 1))
    <3>1. <<>> \in Seq(Op)
      OBVIOUS
    <3> QED BY Zenon, <3>1, FineEmpty, FineUnReserve
  <2>5. OpsOK'
    BY ZenonT(30), <1>s, <2>3, <2>4, FineEmpty, FineThen
  <2> QED BY <2>2, <2>5
<1>4. ASSUME NEW a \in Apps, removeApplication(a) \/ releaseAll(a) PROVE MapsOK' /\ OpsOK'
  <2> DEFINE c == [op |-> "removeAsks", app |-> a]
             d == [op |-> "RemoveApplication", app |-> a]
  <2>1. Fine(c) /\ Fine(d) /\ (Then("rm", <<c>>) \/ Then("rm", <<c, d>>))
    BY <1>4 DEF removeApplication, releaseAll, Fine
  <2> HIDE DEF c, d
  <2>2. OpsOK'
    BY SMTT(30), <1>s, <2>1, FineOne, FineTwo, FineThen
  <2> QED BY ZenonT(30), <1>4, <2>2, SameMaps DEF removeApplication, releaseAll
<1>5. ASSUME NEW a \in Apps, placeholderTimeout(a) PROVE MapsOK' /\ OpsOK'
  <2>1. reservedBy(a) \in SUBSET Keys /\ unReserveInternal(reservedBy(a))
    BY <1>5 DEF placeholderTimeout, removeAsks, reservedBy
  <2>2. requests' = {k \in requests : appOf[k] # a} /\ terminated' = terminated
    BY <1>5 DEF placeholderTimeout, removeAsks
  <2>3. MapsOK'
    BY SMTT(30), <2>1, <2>2, UnReserveMaps DEF reservedBy
  <2> QED BY SMTT(30), <1>5, <2>3 DEF placeholderTimeout, OpsOK, AllFine, Fine
<1>6. ASSUME NEW n \in Nodes, removeNode(n) PROVE MapsOK' /\ OpsOK'
  <2> DEFINE c == [op |-> "GetReservations", node |-> n]
  <2>1. Fine(c) /\ Then("node", <<c>>)
    BY <1>6 DEF removeNode, Fine
  <2> HIDE DEF c
  <2>2. OpsOK'
    BY SMTT(30), <1>s, <2>1, FineOne, FineThen
  <2> QED BY SMTT(30), <1>6, <2>2, SameMaps DEF removeNode
<1>7. ASSUME NEW k \in Keys, AddAllocationAsk(k) PROVE MapsOK' /\ OpsOK'
  <2>1. UNCHANGED <<appRes, nodeRes, terminated>> /\ requests \subseteq requests'
    BY SMTT(30), <1>7 DEF AddAllocationAsk, nilQueue
  <2>2. MapsOK'
    BY SMTT(30), <2>1 DEF MapsOK, Symmetric, NodeExclusive, RequiredNodeOnly, ReservedIsRequest
  <2> QED BY SMTT(30), <1>7, <2>2 DEF AddAllocationAsk, OpsOK, AllFine, Fine
<1>8. ASSUME NEW a \in Apps, cleanupAsks(a) PROVE MapsOK' /\ OpsOK'
  <2>1. /\ UNCHANGED <<appRes, nodeRes>> /\ terminated' = terminated \cup {a}
        /\ \A k \in requests : appOf[k] # a => k \in requests'
    BY Zenon, <1>8 DEF cleanupAsks
  <2>2. MapsOK'
    BY SMTT(30), <2>1 DEF MapsOK, Symmetric, NodeExclusive, RequiredNodeOnly, ReservedIsRequest
  <2> QED BY ZenonT(30), <1>8, <2>2 DEF cleanupAsks, OpsOK, AllFine, Fine
<1>9. ASSUME NEW a \in Apps, UnSetQueue(a) \/ moveTerminatedApp(a)
      PROVE  MapsOK' /\ OpsOK'
  BY <1>9, SameMaps DEF UnSetQueue, moveTerminatedApp, OpsOK, AllFine, Fine
<1> QED BY <1>1, <1>2, <1>3, <1>4, <1>5, <1>6, <1>7, <1>8, <1>9 DEF Events

-----------------------------------------------------------------------------
\* The inductive invariant.
THEOREM Inductive == Spec => []IInv
<1>1. Init => IInv
  <2> SUFFICES ASSUME Init PROVE MapsOK /\ OpsOK
    BY InitType DEF IInv
  <2>1. MapsOK
    BY ReservationsAssumption
    DEF Init, MapsOK, Symmetric, NodeExclusive, RequiredNodeOnly, ReservedIsRequest
  <2>2. OpsOK
    BY FineEmpty DEF Init, OpsOK
  <2> QED BY <2>1, <2>2
<1>2. IInv /\ [Next]_vars => IInv'
  <2>1. IInv /\ UNCHANGED vars => IInv'
    <3> SUFFICES ASSUME TypeOK, MapsOK, OpsOK, UNCHANGED vars PROVE IInv'
      BY DEF IInv
    <3>1. TypeOK'
      BY SMTT(30) DEF TypeOK, vars
    <3>2. MapsOK' /\ OpsOK'
      BY SameMaps DEF vars, OpsOK, AllFine, Fine
    <3> QED BY <3>1, <3>2 DEF IInv
  <2>2. IInv /\ Next => IInv'
    BY ScheduleType, CallsType, EventsType, ScheduleKeeps, CallsKeep, EventsKeep
    DEF Next, IInv
  <2> QED BY <2>1, <2>2
<1> QED BY <1>1, <1>2, PTL DEF Spec

\* The application and the node agree on every reservation (reserveInternal and
\* unReserveInternal), in every interleaving of the handlers.
THEOREM AlwaysSymmetric == Spec => []Symmetric
<1>1. IInv => Symmetric
  BY DEF IInv, MapsOK
<1> QED BY <1>1, Inductive, PTL

\* A node is reserved for one ask or only for asks that require it (Node.Reserve).
THEOREM AlwaysExclusive == Spec => []NodeExclusive
<1>1. IInv => NodeExclusive
  BY DEF IInv, MapsOK
<1> QED BY <1>1, Inductive, PTL

\* As long as its application is neither Completed nor Failed, a reservation never
\* outlives its ask (removeAsksInternal), even when the ask is removed while the
\* scheduling cycle is reserving a node for it: only cleanupAsks leaves a
\* reservation behind.
THEOREM AlwaysRequested == Spec => []ReservedIsRequest
<1>1. IInv => ReservedIsRequest
  BY DEF IInv, MapsOK
<1> QED BY <1>1, Inductive, PTL

\* An ask that requires a node reserves no other one (tryRequiredNode).
THEOREM AlwaysOnRequiredNode == Spec => []RequiredNodeOnly
<1>1. IInv => RequiredNodeOnly
  BY DEF IInv, MapsOK
<1> QED BY <1>1, Inductive, PTL

\* What tryRequiredNode relies on when it returns nil: an ask that holds its
\* required node leaves no other reservation to cancel there.
THEOREM AlwaysNothingToCancel == Spec => []NothingToCancel
<1>1. IInv => NothingToCancel
  <2> SUFFICES ASSUME IInv, NEW k \in Keys, reqNode[k] # None, appRes[k] # None,
                      NEW j \in nodeRes[reqNode[k]]
               PROVE  reqNode[j] # None
    BY ZenonT(30) DEF NothingToCancel
  <2>1. appRes[k] = reqNode[k] /\ reqNode[k] \in Nodes
    BY ZenonT(30), ReservationsAssumption DEF IInv, MapsOK, RequiredNodeOnly
  <2>2. k \in nodeRes[reqNode[k]]
    BY <2>1 DEF IInv, MapsOK, Symmetric
  <2> QED BY ZenonT(30), <2>1, <2>2 DEF IInv, MapsOK, NodeExclusive
<1> QED BY <1>1, Inductive, PTL
=============================================================================
