------------------------------ MODULE MCEvents ------------------------------
(* Small instances of the event system: events that wrap the buffer under   *)
(* resizes, overlapping reloads, and streams set up while events flow.      *)
EXTENDS EventSystem

CONSTANTS c1, c2, s1, s2

MCEvent == 1 .. 6
MCHostOf == [s \in {s1, s2} |-> "h1"]

Instance(n, r, s, counts, size, pub, max, perHost) ==
  [events |-> n, reloads |-> r, streams |-> s, withPublisher |-> pub, counts |-> counts,
   stores |-> IF pub THEN {2, 3} ELSE {2},
   conf |-> [req |-> 2, ring |-> size, track |-> TRUE], maxStreams |-> max, maxPerHost |-> perHost]
MCInstances ==
  { Instance(4, {}, {s1}, {2}, 2, FALSE, 1, 1),
    Instance(3, {}, {s1}, {0, 1}, 2, FALSE, 1, 1),
    Instance(3, {c1}, {}, {}, 2, TRUE, 0, 0),
    Instance(5, {c1}, {}, {}, 3, FALSE, 0, 0),
    Instance(1, {c1, c2}, {}, {}, 2, FALSE, 0, 0),
    Instance(0, {}, {s1, s2}, {1}, 2, FALSE, 1, 2),
    Instance(0, {}, {s1, s2}, {1}, 2, FALSE, 2, 1),
    Instance(0, {}, {s1, s2}, {1}, 2, FALSE, 2, 2) }
=============================================================================
