----------------------------- MODULE MCPartition -----------------------------
(***************************************************************************)
(* Scenes of Partition.  p1 and p2 are placeholders, r1 is a real pod of   *)
(* their task group, b1 is a pod outside the group.                        *)
(***************************************************************************)
EXTENDS Partition

CONSTANTS p1, p2, r1, b1, n1, n2

TwoOrThree == [n \in Nodes |-> IF n = n1 THEN 2 ELSE 3]

\* Events one after the other; the real pod is smaller than its placeholder.
OneByOne ==
  LET ks == {p1, p2, r1, b1}
  IN  [keys |-> ks, placeholders |-> {p1, p2}, gang |-> {p1, p2, r1},
       res |-> [k \in ks |-> IF k = r1 THEN 1 ELSE 2], queueMax |-> 6, recovered |-> {p1, b1},
       stoppable |-> {r1, b1}, failable |-> {r1, b1}, nodesLeave |-> {n1, n2}, serial |-> TRUE]

\* All goroutines at once.
AtOnce ==
  LET ks == {p1, r1, b1}
  IN  [keys |-> ks, placeholders |-> {p1}, gang |-> {p1, r1},
       res |-> [k \in ks |-> IF k = b1 THEN 1 ELSE 2], queueMax |-> 5, recovered |-> {},
       stoppable |-> {p1, r1}, failable |-> {r1, b1}, nodesLeave |-> {n1}, serial |-> FALSE]

MCScenes == {OneByOne, AtOnce}
=============================================================================
