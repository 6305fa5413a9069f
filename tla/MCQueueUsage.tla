---------------------------- MODULE MCQueueUsage ----------------------------
(* Two leaves below a parent with quotas, two applications: one asks for   *)
(* two placeholders, the other for a real allocation.                      *)
EXTENDS QueueUsage

MCParent == [q \in {"p", "l1", "l2"} |-> IF q = "p" THEN "root" ELSE "p"]
MCApp == [k \in {"k1", "k2", "k3"} |-> IF k = "k3" THEN "a2" ELSE "a1"]
MCPriority == [k \in {"k1", "k2", "k3"} |-> IF k = "k1" THEN 1 ELSE 2]
MCOffset == [q \in {"root", "p", "l1", "l2"} |-> CASE q = "l1" -> 1 [] q = "l2" -> 0 - 1 [] OTHER -> 0]
AtP(v, other) == [q \in {"root", "p", "l1", "l2"} |-> IF q = "p" THEN v ELSE other]
MCMinPriority == 0 - 3
SameLeaf == [a \in {"a1", "a2"} |-> "l1"]
OwnLeaf == [a \in {"a1", "a2"} |-> IF a = "a1" THEN "l1" ELSE "l2"]
Instance(leaves, recovered, max, running) ==
  [leaf |-> leaves, recovered |-> recovered, max |-> AtP(max, 9), running |-> AtP(running, 0)]
MCEnvironments == {Instance(SameLeaf, {}, 2, 1), Instance(OwnLeaf, {}, 2, 1),
                   Instance(OwnLeaf, {"k3"}, 2, 1), Instance(OwnLeaf, {}, 1, 0)}

=============================================================================
