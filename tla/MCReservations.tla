---------------------------- MODULE MCReservations ----------------------------
(***************************************************************************)
(* Small instances of Reservations.  k1 may trigger preemption and k3      *)
(* requires the node n1.  In the scene "all" the asks k1 and k3 meet       *)
(* preemption, expiry and the required node; "plain" has k1 and k2 and     *)
(* none of these; in "ends" the application of k2 terminates, and k2 may   *)
(* be sent at any moment before or after that.  The other asks are there   *)
(* from the start, and no other application terminates.  Bounds: a1 stays  *)
(* in "ends"; only in "plain" n2 may leave and releases have no key.       *)
(***************************************************************************)
EXTENDS Reservations

CONSTANTS a1, a2, n1, n2, k1, k2, k3

VARIABLE scene

appOfKey == [k \in Keys |-> IF k = k1 THEN a1 ELSE a2]
OneRequired == [k \in Keys |-> IF k = k3 THEN n1 ELSE None]

sent == IF scene = "all" THEN {k1, k3} ELSE {k1, k2}
early == IF scene = "ends" THEN {k1} ELSE sent

MCInit == Init /\ scene \in {"all", "plain", "ends"}

MCNext ==
  /\ Next /\ UNCHANGED scene
  /\ requests' \subseteq sent
  /\ early \cap fresh # {} => fresh' # fresh
  /\ terminated' \subseteq (IF scene = "ends" THEN {a2} ELSE {})
  /\ scene # "all" => triggered' = {} /\ ~\E k \in Keys : reservationTimeout(k)
  /\ scene = "ends" => a1 \in apps'
  /\ scene # "plain" => n2 \in nodes' /\ ~\E a \in Apps : releaseAll(a)

MCSpec == MCInit /\ [][MCNext]_<<vars, scene>>

\* As long as nothing is preempted, expires, requires a node or terminates,
\* pc.reservations is the "number of reservations" (partition.go 65), and reserve
\* never meets a node that is gone (partition.go 985-1002) or an ask that holds
\* another node.
UndisturbedExact ==
  /\ [](scene = "plain" => CountExact /\ NoPanic)
  /\ [][scene = "plain" /\ reserve =>
          appRes[Head(todo["sched"]).key] \in {None, Head(todo["sched"]).node}]_<<vars, scene>>
=============================================================================
