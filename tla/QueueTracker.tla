---------------------------- MODULE QueueTracker ----------------------------
(***************************************************************************)
(* The tree of queue trackers of one user or one group, as a function from *)
(* the tracked paths to nodes.  A path is a sequence of names that starts  *)
(* with the root, the tree holds with a path the paths above it, and the   *)
(* root is always there.  Resources have one type, the limit 0 is no limit *)
(* (resources.IsZero).  A usage of None is the nil resource: subtracting   *)
(* from it is lost.                                                        *)
(***************************************************************************)
EXTENDS Integers, FiniteSets, Sequences, SequencesExt, TLC

CONSTANT None

root == <<"root">>
Upto(path) == {SubSeq(path, 1, n) : n \in 1 .. Len(path)}
Below(q, path) == {p \in DOMAIN q : path \in Upto(p)}
Children(q, path) == {p \in DOMAIN q : Len(p) = Len(path) + 1 /\ path \in Upto(p)}
Amount(node) == IF node.usage = None THEN 0 ELSE node.usage
Less(q, paths) == [p \in DOMAIN q \ paths |-> q[p]]

\* `wild' gives the limits of the wild card user per path, and is empty for
\* the tracker of a group.
newQueueTracker(wild, path) ==
  LET use == path \in DOMAIN wild
  IN  [usage |-> None, running |-> {}, wild |-> use,
       res |-> IF use THEN wild[path].res ELSE 0,
       apps |-> IF use THEN wild[path].apps ELSE 0]

\* Every walk down creates what is not there.
Grown(q, wild, path) ==
  [p \in DOMAIN q \cup Upto(path) |-> IF p \in DOMAIN q THEN q[p] ELSE newQueueTracker(wild, p)]

increaseTrackedResource(q, wild, path, app, usage) ==
  LET g == Grown(q, wild, path)
  IN  [p \in DOMAIN g |-> IF p \notin Upto(path) THEN g[p]
                          ELSE [g[p] EXCEPT !.usage = Amount(g[p]) + usage, !.running = @ \cup {app}]]

canBeRemovedInternal(q, p) ==
  /\ q[p].running = {} /\ Amount(q[p]) = 0 /\ Children(q, p) = {}
  /\ q[p].apps = 0 /\ q[p].res = 0

\* canBeRemoved: a root with children is not removed, whatever they hold.
canBeRemoved(q) == canBeRemovedInternal(q, root)

\* decreaseTrackedResource: a queue whose child is missing gives up before it
\* subtracts, the queues above it subtract.  A tracker that is not needed is
\* unlinked from its parent.
Decreased(q, path, app, usage, removeApp) ==
  LET missing == path \notin DOMAIN q
      last == CHOOSE p \in Upto(path) \cap DOMAIN q : \A o \in Upto(path) \cap DOMAIN q : Len(o) <= Len(p)
      touched == IF missing THEN Upto(last) \ {last} ELSE Upto(path)
      sub == [p \in DOMAIN q |->
                IF p \notin touched THEN q[p]
                ELSE [q[p] EXCEPT !.usage = IF @ = None THEN None ELSE @ - usage,
                                  !.running = IF removeApp THEN @ \ {app} ELSE @]]
      cut[n \in 1 .. Len(path)] ==
        LET below == IF n = Len(path) THEN sub ELSE cut[n + 1]
            p == SubSeq(path, 1, n)
        IN  IF n > 1 /\ canBeRemovedInternal(below, p) THEN Less(below, {p}) ELSE below
  IN  IF missing THEN sub ELSE cut[1]

\* The value decreaseTrackedResource returns: the tracker itself is not needed.
DecreaseRemoves(q, path, app, usage, removeApp) ==
  path \in DOMAIN q /\ canBeRemoved(Decreased(q, path, app, usage, removeApp))

\* Mutant: the limit is set on a new node, the usage is gone.
LimitAnew(q, wild, path, res, apps, useWildCard, doWildCardCheck) ==
  LET g == Grown(q, wild, path)
  IN  IF doWildCardCheck /\ ~g[path].wild THEN g
      ELSE [g EXCEPT ![path] = [usage |-> None, running |-> {}, wild |-> useWildCard, res |-> res, apps |-> apps]]

\* A wild card limit does not replace a limit the user was given by name.
setLimit(q, wild, path, res, apps, useWildCard, doWildCardCheck) ==
  LET g == Grown(q, wild, path)
  IN  IF doWildCardCheck /\ ~g[path].wild THEN g
      ELSE [g EXCEPT ![path].res = res, ![path].apps = apps, ![path].wild = useWildCard]

\* Mutant: the limits above the leaf are forgotten.
LeafHeadroom(q, path, usage) == q[path].res = 0 \/ usage <= q[path].res - Amount(q[path])

\* headroom: the amount fits when it fits below every limit on the path.
WithinHeadroom(q, path, usage) ==
  \A p \in Upto(path) : q[p].res = 0 \/ usage <= q[p].res - Amount(q[p])

canRunApp(q, path, app) ==
  \A p \in Upto(path) : \/ app \in q[p].running
                        \/ q[p].apps = 0
                        \/ Cardinality(q[p].running) + 1 <= q[p].apps

isQueuePathTrackedCompletely(q, path) == path \in DOMAIN q

isUnlinkRequired(q, path) == path \in DOMAIN q /\ q[path].running = {}

\* unlink: every tracker of the path and below it, unless something runs there
\* or below it.
unlink(q, path) ==
  Less(q, {p \in Below(q, path) \ {root} : \A o \in Below(q, p) : q[o].running = {}})

InUse(node) == node.running # {} /\ Amount(node) # 0

\* decreaseTrackedResourceUsageDownwards: the usage of the whole path and of
\* everything below it is dropped.
Dropped(q, path) ==
  [p \in DOMAIN q |->
     IF /\ InUse(q[p])
        /\ \/ p \in Upto(path)
           \/ path \in Upto(p) /\ \A o \in Upto(p) \ Upto(path) : InUse(q[o])
     THEN [q[p] EXCEPT !.usage = None, !.running = {}]
     ELSE q[p]]

=============================================================================
