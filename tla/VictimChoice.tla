---------------------------- MODULE VictimChoice ----------------------------
(***************************************************************************)
(* The victims that the three preemptors take: the Preemptor for an ask of *)
(* a queue, the required node preemptor and the quota preemptor.           *)
(***************************************************************************)
EXTENDS VictimSearch

Flag(a, f) == f \in Sc.alloc[a].flags
Younger(l, r) == Sc.alloc[l].created > Sc.alloc[r].created

-----------------------------------------------------------------------------
(* Preemptor                                                               *)

\* The scores of the code are powers of two above every number of victims.
scoreOriginator == 100
scoreNoPreempt == 200
scoreUnfit == 400

scoreAllocation(a) ==
  (IF Flag(a, "originator") THEN scoreOriginator ELSE 0) + (IF Flag(a, "optOut") THEN scoreNoPreempt ELSE 0)
compareAllocationLess(l, r) ==
  \/ scoreAllocation(l) < scoreAllocation(r)
  \/ scoreAllocation(l) = scoreAllocation(r) /\ Younger(l, r)

Victims(snap) == UNION {snap[q].victims : q \in DOMAIN snap}

\* Taking the victims one by one frees more and more: some point is enough
\* when the last one is.
checkPreemptionQueueGuarantees(snap, ask) ==
  LET Left(s) == GetRemainingGuaranteedResource(s, ask.queue, ask.queue)
      Now(left) == ~IsNil(left) /\ FitInActual(left, ask.size)
      Then(left) == ~IsNil(left) /\ isAskQueueUnderGuaranteed(ask.size, left)
      Take(s, a) == RemoveAllocation(s, Sc.alloc[a].queue, Size(a))
      end == FoldLeft(Take, AddAllocation(snap, ask.queue, ask.size), SetToSeq(Victims(snap)))
  IN  Now(Left(snap)) \/ (Victims(snap) # {} /\ Then(Left(end)))

\* The test every pass makes before it takes a victim from its queue.
MayTake(snap, ask, a) ==
  LET q == Sc.alloc[a].queue
      Over(remaining) == IsNil(remaining) \/ isVictimQueueOverGuaranteed(ask.size, remaining)
  IN  /\ StrictlyGreaterThanOrEquals(GetPreemptableResource(RemoveAllocation(snap, q, Size(a)), q), Zero)
      /\ Over(GetRemainingGuaranteedResource(snap, ask.queue, q))

\* The usage of a victim moves from its queue to the ask queue, as long as
\* that has it guaranteed.
Moved(snap, ask, a) == AddAllocation(RemoveAllocation(snap, Sc.alloc[a].queue, Size(a)), ask.queue, Size(a))
AskTakes(snap, ask, a) ==
  LET Enough(left) == ~IsNil(left) /\ FitInActual(left, Size(a))
  IN  Enough(GetRemainingGuaranteedResource(RemoveAllocation(snap, Sc.alloc[a].queue, Size(a)), ask.queue, ask.queue))

\* First pass: victims that reduce what the node is short of come first, the
\* others are the last resort.
FirstPass(snap, ask, avail, seq) ==
  LET Step(acc, a) ==
        LET short == SubEliminateNegative(ask.size, acc.avail)
            less == SubEliminateNegative(ask.size, Add(acc.avail, Size(a)))
        IN  IF acc.stop \/ ~MayTake(acc.snap, ask, a) THEN acc
            ELSE IF ~AskTakes(acc.snap, ask, a) THEN [acc EXCEPT !.stop = TRUE]
            ELSE IF EqualsOrEmpty(short, less) THEN [acc EXCEPT !.tail = Append(@, a)]
            ELSE [acc EXCEPT !.snap = Moved(@, ask, a), !.avail = Add(@, Size(a)), !.head = Append(@, a)]
      Order(end) == end.head \o end.tail
  IN  Order(FoldLeft(Step, [snap |-> snap, avail |-> avail, head |-> <<>>, tail |-> <<>>, stop |-> FALSE], seq))

\* Second pass: the order stands; `index' is the first victim after which the
\* ask fits the node.
SecondPass(snap, ask, avail, seq) ==
  LET Step(acc, a) ==
        LET free == Add(acc.avail, Size(a))
        IN  IF ~MayTake(acc.snap, ask, a) THEN acc
            ELSE [snap |-> RemoveAllocation(acc.snap, Sc.alloc[a].queue, Size(a)), avail |-> free,
                  victims |-> Append(acc.victims, a),
                  index |-> IF acc.index < 0 /\ FitIn(free, ask.size) THEN Len(acc.victims) ELSE acc.index]
  IN  FoldLeft(Step, [snap |-> snap, avail |-> avail, victims |-> <<>>, index |-> -1], seq)

\* The start index and the victims to try on a node, None when it is no use.
calculateVictimsByNode(snap, ask, avail, seq) ==
  LET Plan(second) == IF second.index < 0 THEN None ELSE [index |-> second.index, victims |-> second.victims]
  IN  IF FitIn(avail, ask.size) THEN [index |-> -1, victims |-> <<>>]
      ELSE Plan(SecondPass(snap, ask, avail, FirstPass(snap, ask, avail, seq)))

\* getSolutionScore: what was on the node before the passes is scored.
getSolutionScore(byNode, result) ==
  LET seq == byNode[result.node]
      first == {seq[i] : i \in 1 .. result.index + 1}
  IN  IF seq = None \/ (result.index >= 0 /\ result.index >= Len(seq)) THEN scoreUnfit
      ELSE IF result.index < 0 THEN 0
      ELSE (IF \E a \in first : Flag(a, "originator") THEN scoreOriginator ELSE 0)
           + (IF \E a \in first : Flag(a, "optOut") THEN scoreNoPreempt ELSE 0) + result.index + 1

\* tryNodes and checkPreemptionPredicates: the shim accepts or refuses each
\* node, and may want more victims than the start index.  The best accepted
\* node is taken.  The result is the set of outcomes.
Plans(snap, ask, avail, byNode) ==
  [n \in DOMAIN avail |-> calculateVictimsByNode(snap, ask, avail[n], IF byNode[n] = None THEN <<>> ELSE byNode[n])]
tryNodes(plan, byNode, nodesTried) ==
  LET checks == {n \in DOMAIN plan : plan[n] # None /\ (plan[n].victims # <<>> \/ ~nodesTried)}
      Answers(n) == {[node |-> n, index |-> i] : i \in plan[n].index .. Most(-1, Len(plan[n].victims) - 1)}
      accepted == {R \in SUBSET UNION {Answers(n) : n \in checks} : \A r, s \in R : r.node = s.node => r = s}
      Best(R) == {r \in R : \A s \in R : getSolutionScore(byNode, r) <= getSolutionScore(byNode, s)}
  IN  {[node |-> r.node, victims |-> SubSeq(plan[r.node].victims, 1, r.index + 1)] :
         r \in UNION {Best(R) : R \in accepted}}

\* More victims, from any node, for what the ask queue is still short of; None
\* when they do not bring it within its guarantee.
calculateAdditionalVictims(snap, ask, nodeVictims) ==
  LET Take(s, a) == RemoveAllocation(s, Sc.alloc[a].queue, Size(a))
      start == FoldLeft(Take, snap, nodeVictims)
      Left(s) == GetRemainingGuaranteedResource(s, ask.queue, ask.queue)
      Step(acc, a) ==
        IF acc.stop \/ ~MayTake(acc.snap, ask, a) THEN acc
        ELSE IF ~AskTakes(acc.snap, ask, a) THEN [acc EXCEPT !.stop = TRUE]
        ELSE IF EqualsOrEmpty(Left(Take(acc.snap, a)), Left(Moved(acc.snap, ask, a))) THEN acc
        ELSE [acc EXCEPT !.snap = Moved(@, ask, a), !.victims = Append(@, a)]
      rest == SetToSortSeq(Victims(snap) \ Range(nodeVictims), compareAllocationLess)
      Reached(left) == ~IsNil(left) /\ isAskQueueUnderGuaranteed(ask.size, left)
      Result(end) == IF end.victims = <<>> \/ Reached(Left(end.snap)) THEN end.victims ELSE None
  IN  Result(FoldLeft(Step, [snap |-> start, victims |-> <<>>, stop |-> FALSE], rest))

\* Mutant: the victim is added before the total is looked at.
AddedFirst(ask, avail, node, victims) ==
  LET Step(acc, a) ==
        LET total == Add(acc.total, Size(a))
        IN  IF ~FitIn(avail[node], ask.size) /\ Sc.alloc[a].node # node THEN acc
            ELSE [final |-> IF acc.final = <<>> \/ StrictlyGreaterThanOnlyExisting(ask.size, total)
                            THEN Append(acc.final, a) ELSE acc.final,
                  total |-> total]
      end == FoldLeft(Step, [final |-> <<>>, total |-> Zero], victims)
  IN  IF victims = <<>> \/ StrictlyGreaterThanOnlyExisting(ask.size, end.total) THEN None ELSE end.final

\* The victims TryPreemption keeps: of the node only, unless the ask fits it
\* already, and none once they add up to the ask.  None when they do not.
FinalVictims(ask, avail, node, victims) ==
  LET fits == FitIn(avail[node], ask.size)
      Step(acc, a) ==
        IF ~fits /\ Sc.alloc[a].node # node THEN acc
        ELSE [final |-> IF StrictlyGreaterThanOnlyExisting(ask.size, acc.total) THEN Append(acc.final, a) ELSE acc.final,
              total |-> Add(acc.total, Size(a))]
      end == FoldLeft(Step, [final |-> <<>>, total |-> Zero], victims)
  IN  IF victims = <<>> \/ StrictlyGreaterThanOnlyExisting(ask.size, end.total) THEN None ELSE end.final

-----------------------------------------------------------------------------
(* PreemptionContext: the required node preemptor                          *)

AskType(a) == IF Flag(a, "originator") THEN 3 ELSE IF Flag(a, "optOut") THEN 2 ELSE 1
SortedBefore(l, r) ==
  LET p(a) == Sc.alloc[a].priority
  IN  \/ AskType(l) < AskType(r)
      \/ AskType(l) = AskType(r) /\ (p(l) < p(r) \/ (p(l) = p(r) /\ Younger(l, r)))

filterAllocations(ask, allocs, released, preempted) ==
  {a \in allocs : /\ ~Sc.alloc[a].required
                  /\ Sc.alloc[a].priority <= ask.priority
                  /\ a \notin preempted \cup released
                  /\ MatchAny(ask.size, Size(a))}

\* The first in order that add up to the ask, if that and what is free is
\* enough.
GetVictims(ask, allocs, avail) ==
  LET seq == SetToSortSeq(allocs, SortedBefore)
      Sum(n) == Total({seq[i] : i \in 1 .. n})
      n == IF StrictlyGreaterThanOrEquals(Sum(Len(seq)), ask.size)
           THEN CHOOSE m \in 0 .. Len(seq) : /\ StrictlyGreaterThanOrEquals(Sum(m), ask.size)
                                             /\ \A o \in 0 .. m - 1 : ~StrictlyGreaterThanOrEquals(Sum(o), ask.size)
           ELSE Len(seq)
  IN  IF n > 0 /\ StrictlyGreaterThanOrEquals(Add(Sum(n), avail), ask.size) THEN SubSeq(seq, 1, n) ELSE <<>>

-----------------------------------------------------------------------------
(* QuotaPreemptionContext                                                  *)

Below(r) == [k \in {k \in Types(r) : r[k] < 0} |-> -r[k]]

\* Queue.GetPreemptableResource: what is used above the guarantees.
QueuePreemptable(used, q) ==
  LET get[n \in 0 .. Len(q)] ==
        IF n = 0 THEN Zero
        ELSE LET p == SubSeq(q, 1, n)
                 g == Sc.queue[p].guaranteed
             IN  ComponentWiseMin(IF IsNil(g) THEN used[p] ELSE SubOnlyExisting(g, used[p]), get[n - 1])
  IN  get[Len(q)]

\* setPreemptableResources: what is used above the maximum, Nil when nothing.
QuotaPreemptable(max, used, preempting, q) ==
  LET inUse == SubOnlyExisting(used[q], preempting[q])
      over == ComponentWiseMinOnlyExisting(Below(SubOnlyExisting(max[q], inUse)), Below(QueuePreemptable(used, q)))
  IN  IF IsEmpty(max[q]) \/ IsEmpty(inUse) \/ IsEmpty(over) THEN Nil ELSE over

\* The usage of a child the distribution counts, None when it is skipped.
ChildPreemptable(used, c) ==
  LET g == Sc.queue[c].guaranteed
      Absolute(r) == [k \in Types(r) |-> IF r[k] < 0 THEN -r[k] ELSE r[k]]
  IN  IF IsEmpty(used[c]) \/ StrictlyGreaterThanOrEqualsOnlyExisting(g, used[c]) THEN None
      ELSE Absolute(IF IsEmpty(g) THEN used[c] ELSE SubOnlyExisting(g, used[c]))
Counted(used, q) == {c \in Children(q) : ChildPreemptable(used, c) # None}

\* Mutant: every child is to give up all of it.
WholeShare(used, preemptable, q, c) ==
  LET own == ChildPreemptable(used, c)
  IN  [k \in Types(own) \cap Types(preemptable) |-> preemptable[k]]

\* The share of a child in what its parent is to give up, rounded down; none of
\* a type that its guarantee does not name.  The code multiplies and rounds a
\* float64, which is the division below for numbers up to 21.
ChildShare(used, preemptable, q, c) ==
  LET own == ChildPreemptable(used, c)
      all(k) == MapThenSumSet(LAMBDA o : Quant(ChildPreemptable(used, o), k), Counted(used, q))
  IN  [k \in Types(own) \cap Types(preemptable) |-> IF own[k] = 0 THEN 0 ELSE (own[k] * preemptable[k]) \div all(k)]

\* getChildQueuesPreemptableResource: the leaf queues that get a share.
LeafShares(used, preemptable, q) ==
  LET counted == {l \in Queues : /\ IsLeafQueue(l) /\ Under(l, q)
                                 /\ \A n \in Len(q) + 1 .. Len(l) : SubSeq(l, 1, n) \in Counted(used, SubSeq(l, 1, n - 1))}
      share(l) == LET at[n \in Len(q) .. Len(l)] ==
                        IF n = Len(q) THEN preemptable
                        ELSE ChildShare(used, at[n - 1], SubSeq(l, 1, n - 1), SubSeq(l, 1, n))
                  IN  at[Len(l)]
  IN  [l \in counted |-> share(l)]

\* The higher score comes first; the age counts in hours.
BasedOnAsk(total, ask, l, r) ==
  LET score(a) == scoreAllocation(a) * 100 + TypeMatching(Size(a), ask)
      p(a) == Sc.alloc[a].priority
  IN  \/ score(l) > score(r)
      \/ score(l) = score(r) /\ p(l) < p(r)
      \/ score(l) = score(r) /\ p(l) = p(r) /\ Younger(l, r)
      \/ /\ score(l) = score(r) /\ p(l) = p(r) /\ Sc.alloc[l].created = Sc.alloc[r].created
         /\ CompUsageRatioSpecificTypes(Size(l), Size(r), total, ask) = -1

QuotaCandidates(preemptable, allocs, released, preempted) ==
  {a \in allocs : /\ ~IsZero(preemptable) /\ MatchAny(preemptable, Size(a))
                  /\ ~Sc.alloc[a].required /\ a \notin released \cup preempted}

\* preemptVictims: a victim that would take too much is passed over.
QuotaVictims(total, preemptable, allocs) ==
  LET Less(l, r) == BasedOnAsk(total, preemptable, l, r)
      Step(acc, a) ==
        LET sum == Add(acc.sum, Size(a))
        IN  IF FitInMaxUndef(preemptable, Size(a)) /\ StrictlyGreaterThanOrEqualsOnlyExisting(preemptable, sum)
            THEN [victims |-> Append(acc.victims, a), sum |-> sum]
            ELSE acc
  IN  FoldLeft(Step, [victims |-> <<>>, sum |-> Zero], SetToSortSeq(allocs, Less)).victims

=============================================================================
