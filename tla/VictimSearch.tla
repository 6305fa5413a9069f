---------------------------- MODULE VictimSearch ----------------------------
(***************************************************************************)
(* Which allocations a preemption takes: the search of the queue tree and  *)
(* the calculations on its snapshots, as operators.  A scene is a cluster: *)
(*   queue[q]  the settings of the queue at the path q (a sequence of      *)
(*             names that starts with the root): the guaranteed resource,  *)
(*             the preemption policy ("default", "fence", "disabled"), the *)
(*             priority fence and offset;                                  *)
(*   alloc[a]  queue, node, size, priority, creation time and flags;       *)
(*   node[n]   capacity and whether it is schedulable.                     *)
(* A snapshot maps the paths seen so far to usage, preempting and          *)
(* guaranteed resources and the potential victims of the queue.            *)
(***************************************************************************)
EXTENDS Resources

CONSTANTS None, Scenes, NamePrefix

VARIABLE Sc  \* the scene

Queues == DOMAIN Sc.queue
Allocs == DOMAIN Sc.alloc
Nodes == DOMAIN Sc.node
root == <<"root">>
Upto(q) == {SubSeq(q, 1, n) : n \in 1 .. Len(q)}
Under(q, p) == Len(p) <= Len(q) /\ SubSeq(q, 1, Len(p)) = p
Children(q) == {c \in Queues : Len(c) = Len(q) + 1 /\ Under(c, q)}
IsLeafQueue(q) == Children(q) = {}
Size(a) == Sc.alloc[a].size

Total(allocs) ==
  [k \in UNION {DOMAIN Size(a) : a \in allocs} |-> MapThenSumSet(LAMBDA a : Quant(Size(a), k), allocs)]
Of(q, allocs) == {a \in allocs : Under(Sc.alloc[a].queue, q)}

\* strings.HasPrefix on two queue paths: the last name of the prefix may be
\* the start of a longer name.
HasPrefix(path, q) ==
  /\ Len(q) <= Len(path) /\ Under(path, Front(q))
  /\ Last(q) = path[Len(q)] \/ <<Last(q), path[Len(q)]>> \in NamePrefix

GetMaxResource(max, q) ==
  LET m[n \in 0 .. Len(q)] == IF n = 0 THEN Nil ELSE ComponentWiseMin(m[n - 1], max[SubSeq(q, 1, n)])
  IN  m[Len(q)]

-----------------------------------------------------------------------------
(* Queue: the fence and the eligible victims.                              *)

\* The priority of an ask of priority p, seen from the queues above it.
PriorityAt(askQueue, p) ==
  LET at[n \in 1 .. Len(askQueue) + 1] ==
        IF n = Len(askQueue) + 1 THEN p
        ELSE LET q == Sc.queue[SubSeq(askQueue, 1, n)]
             IN  IF q.fence THEN q.offset ELSE at[n + 1] + q.offset
  IN  [q \in Upto(askQueue) |-> at[Len(q)]]

shouldFenceByMax(max, used, q, ask) ==
  LET Exceeded(limit) == ~IsEmpty(limit) /\ ~StrictlyGreaterThanOrEqualsOnlyExisting(limit, Add(used[q], ask.size))
  IN  Exceeded(GetMaxResource(max, q))

\* The lowest queue on the path of the ask that the search does not leave.
findPreemptionFenceRoot(max, used, ask) ==
  LET Lowest(fences) == CHOOSE f \in fences : \A q \in fences : Len(q) <= Len(f)
  IN  Lowest({q \in Upto(ask.queue) : q = root \/ Sc.queue[q].policy = "fence" \/ shouldFenceByMax(max, used, q, ask)})

\* Going up the offset is added, going down it is taken off.
Lowered(priority, offset) == priority - offset

\* findEligiblePreemptionVictims on the way down from the fence to a leaf: the
\* priority to compare with, whether a priority fence was passed, and whether
\* the leaf is left out.
Reach(ask, fence, leaf) ==
  LET prio == PriorityAt(ask.queue, ask.priority)
      r[n \in Len(fence) .. Len(leaf)] ==
        IF n = Len(fence) THEN [prio |-> prio[fence], fenced |-> FALSE, skip |-> FALSE]
        ELSE LET q == SubSeq(leaf, 1, n)
                 up == r[n - 1]
                 s == Sc.queue[q]
             IN  IF q \in DOMAIN prio THEN [up EXCEPT !.prio = prio[q]]
                 ELSE IF s.fence
                 THEN [up EXCEPT !.fenced = TRUE, !.skip = @ \/ s.offset > up.prio]
                 ELSE [up EXCEPT !.prio = Lowered(@, s.offset)]
  IN  [r[Len(leaf)] EXCEPT !.skip = @ \/ leaf = ask.queue]

\* createPreemptionSnapshot: the queue and the queues above it that are not
\* there yet.
createPreemptionSnapshot(snap, q, used, preempting) ==
  [p \in DOMAIN snap \cup Upto(q) |->
     IF p \in DOMAIN snap THEN snap[p]
     ELSE [used |-> used[p], preempting |-> preempting[p],
           guaranteed |-> Sc.queue[p].guaranteed, victims |-> {}]]

Candidates(ask, reach, allocs, released, preempted) ==
  {a \in allocs : /\ MatchAny(ask.size, Size(a))
                  /\ ~Sc.alloc[a].required
                  /\ a \notin released \cup preempted
                  /\ reach.fenced \/ Sc.alloc[a].priority <= reach.prio}

\* prunePreemptionSnapshots
Pruned(snap, askQueue) ==
  LET keep == Upto(askQueue) \cup UNION {Upto(q) : q \in {q \in DOMAIN snap : snap[q].victims # {}}}
  IN  [q \in DOMAIN snap \cap keep |-> snap[q]]

-----------------------------------------------------------------------------
(* QueuePreemptionSnapshot                                                 *)

AddAllocation(snap, q, size) ==
  [p \in DOMAIN snap |-> IF p \in Upto(q) THEN [snap[p] EXCEPT !.used = Add(@, size)] ELSE snap[p]]
RemoveAllocation(snap, q, size) ==
  [p \in DOMAIN snap |-> IF p \in Upto(q) THEN [snap[p] EXCEPT !.used = Sub(@, size)] ELSE snap[p]]

GetPreemptableResource(snap, q) ==
  LET Actual(s) == SubOnlyExisting(SubOnlyExisting(s.used, s.preempting), s.guaranteed)
      Above(r) == [k \in {k \in Types(r) : r[k] > 0} |-> r[k]]
      Within(over, parent) == IF IsEmpty(over) THEN over ELSE ComponentWiseMinOnlyExisting(over, parent)
      get[n \in 0 .. Len(q)] ==
        IF n = 0 \/ IsEmpty(snap[SubSeq(q, 1, n)].used) THEN Nil
        ELSE Within(Above(Actual(snap[SubSeq(q, 1, n)])), get[n - 1])
  IN  get[Len(q)]

\* The root has no ask queue.  The rest of the guarantee of the ask queue has
\* the types of the guarantee, whatever is used.
GetRemainingGuaranteedResource(snap, askQueue, q) ==
  LET Remaining(s) == SubOnlyExisting(s.guaranteed, SubOnlyExisting(s.used, s.preempting))
      Rest(p, remaining, parent) ==
        IF IsEmpty(parent) /\ IsEmpty(snap[p].guaranteed) THEN Nil
        ELSE IF p # root /\ p = askQueue /\ ~IsEmpty(remaining) THEN MergeIfNotPresent(remaining, parent)
        ELSE IF /\ p # root /\ ~IsEmpty(remaining) /\ HasPrefix(askQueue, p)
                /\ ~IsEmpty(snap[askQueue].guaranteed)
             THEN Nil
        ELSE ComponentWiseMin(remaining, parent)
      get[n \in 0 .. Len(q)] ==
        IF n = 0 THEN Nil ELSE Rest(SubSeq(q, 1, n), Remaining(snap[SubSeq(q, 1, n)]), get[n - 1])
  IN  get[Len(q)]

isAskQueueUnderGuaranteed(ask, remaining) == \A k \in Types(ask) \cap Types(remaining) : remaining[k] >= 0
\* Mutant: at the guarantee counts as over it.
AtGuaranteed(ask, remaining) == \E k \in Types(ask) \cap Types(remaining) : remaining[k] <= 0

isVictimQueueOverGuaranteed(ask, remaining) == \E k \in Types(ask) \cap Types(remaining) : remaining[k] < 0

=============================================================================
