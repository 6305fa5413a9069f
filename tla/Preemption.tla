----------------------------- MODULE Preemption -----------------------------
(***************************************************************************)
(* Preemption at work: the scheduling thread runs the Preemptor or the     *)
(* required node preemptor for an ask, the quota loop starts a goroutine   *)
(* per queue above its maximum, and meanwhile allocations are released,    *)
(* placeholders are marked for replacement, the configuration of a queue   *)
(* changes and recovered allocations come in.  Every step is one critical  *)
(* section of the code: what a thread has read may be stale when it acts.  *)
(*                                                                         *)
(* Usage is that of the live allocations.  A start time of the quota       *)
(* preemption is zero, in the future or in the past.  One application runs *)
(* in a leaf queue.                                                        *)
(***************************************************************************)
EXTENDS VictimChoice

VARIABLES
  live,       \* the allocations that are on a node
  released,   \* Allocation.released
  preempted,  \* Allocation.preempted
  late,       \* the allocations still to be recovered
  resv,       \* reservations on the nodes
  preempting, \* Queue.preemptingResource
  max,        \* Queue.maxResource
  delay,      \* Queue.quotaPreemptionDelay
  start,      \* Queue.quotaPreemptionStartTime
  triggered,  \* the asks that have triggered preemption
  notified,   \* the allocations the shim was told to release
  sched,      \* the preemption the scheduling thread is in, or None
  walk,       \* the queues the quota loop has still to visit
  quota,      \* Queue.isQuotaPreemptionRunning: where its goroutine is, or None
  reload,     \* the queue property update that is still to come, or None
  changes,    \* how many changes of the configuration have started
  panic       \* a nil resource was dereferenced

allocVars == <<live, released, preempted, late, notified>>
timerVars == <<max, delay, start, reload, changes>>
vars == <<Sc, allocVars, timerVars, resv, preempting, triggered, sched, walk, quota, panic>>

used == [q \in Queues |-> Total(Of(q, live))]
Available(n) == Sub(Sc.node[n].capacity, Total({a \in live : Sc.alloc[a].node = n}))
Ask(k) == Sc.ask[k]
Leaves(q) == {l \in Queues : IsLeafQueue(l) /\ Under(l, q)}

Idle == [pc |-> "idle"]
IncPreemptingResource(a) ==
  preempting' = [q \in Queues |-> IF q \in Upto(Sc.alloc[a].queue) THEN Add(preempting[q], Size(a)) ELSE preempting[q]]

Init ==
  /\ Sc \in Scenes
  /\ late = {a \in Allocs : Flag(a, "late")} /\ live = Allocs \ late
  /\ released = {} /\ preempted = {} /\ notified = {} /\ triggered = {}
  /\ resv = DOMAIN Sc.resv
  /\ preempting = [q \in Queues |-> Zero]
  /\ max = [q \in Queues |-> Sc.queue[q].max]
  /\ delay = [q \in Queues |-> Sc.queue[q].delay]
  /\ start = [q \in Queues |-> "zero"]
  /\ sched = Idle /\ walk = {} /\ quota = [q \in Queues |-> Idle]
  /\ reload = None /\ changes = 0 /\ panic = FALSE

-----------------------------------------------------------------------------
(* The scheduling thread: Preemptor                                        *)

\* CheckPreconditions, then the fence and the snapshots of the path of the ask.
\* The delay and the attempt frequency have passed.
TryPreemption(k, nodesTried) ==
  LET fence == findPreemptionFenceRoot(max, used, Ask(k))
  IN  /\ sched = Idle /\ k \notin triggered /\ Ask(k).node = None
      /\ sched' = [pc |-> "search", ask |-> k, tried |-> nodesTried, fence |-> fence, list |-> None,
                   todo |-> {l \in Leaves(fence) : ~Reach(Ask(k), fence, l).skip /\ Sc.queue[l].policy # "disabled"},
                   snap |-> createPreemptionSnapshot(<<>>, Ask(k).queue, used, preempting)]
      /\ UNCHANGED <<Sc, allocVars, timerVars, resv, preempting, triggered, walk, quota, panic>>

Forgotten(snap, q) == [p \in DOMAIN snap \ {q} |-> snap[p]]

\* findEligiblePreemptionVictims on a leaf: the snapshot, then the allocations.
snapshotLeaf(l) ==
  LET snap == createPreemptionSnapshot(sched.snap, l, used, preempting)
      remaining == GetRemainingGuaranteedResource(snap, Ask(sched.ask).queue, l)
      within == ~IsNil(remaining) /\ StrictlyGreaterThanOrEquals(remaining, Zero)
  IN  /\ sched.pc = "search" /\ l \in sched.todo /\ sched.list = None
      /\ sched' = [sched EXCEPT !.todo = @ \ {l}, !.list = IF within THEN None ELSE l,
                                !.snap = IF within THEN Forgotten(snap, l) ELSE snap]
      /\ UNCHANGED <<Sc, allocVars, timerVars, resv, preempting, triggered, walk, quota, panic>>

listVictims ==
  LET l == sched.list
      reach == Reach(Ask(sched.ask), sched.fence, l)
      found == Candidates(Ask(sched.ask), reach, Of(l, live), released, preempted)
  IN  /\ sched.pc = "search" /\ sched.list # None
      /\ sched' = [sched EXCEPT !.list = None,
                                !.snap = IF found = {} THEN Forgotten(@, l) ELSE [@ EXCEPT ![l].victims = found]]
      /\ UNCHANGED <<Sc, allocVars, timerVars, resv, preempting, triggered, walk, quota, panic>>

checkGuarantees ==
  LET snap == Pruned(sched.snap, Ask(sched.ask).queue)
  IN  /\ sched.pc = "search" /\ sched.todo = {} /\ sched.list = None
      /\ sched' = IF checkPreemptionQueueGuarantees(snap, Ask(sched.ask))
                  THEN [pc |-> "nodes", ask |-> sched.ask, tried |-> sched.tried, fence |-> sched.fence,
                        snap |-> snap, todo |-> Nodes, avail |-> <<>>]
                  ELSE Idle
      /\ UNCHANGED <<Sc, allocVars, timerVars, resv, preempting, triggered, walk, quota, panic>>

\* initWorkingState on one node: old reservations of a lower priority go, a
\* node that keeps one is left out.
walkNode(n) ==
  LET ask == Ask(sched.ask)
      here == {r \in resv : Sc.resv[r].node = n}
      cancelled == {r \in here : Sc.resv[r].old /\ ~Sc.resv[r].keep /\ Sc.resv[r].priority < ask.priority}
      usable == Sc.node[n].schedulable /\ here \subseteq cancelled /\ FitIn(Sc.node[n].capacity, ask.size)
  IN  /\ sched.pc = "nodes" /\ n \in sched.todo
      /\ resv' = resv \ cancelled
      /\ sched' = [sched EXCEPT !.todo = @ \ {n}, !.avail = IF usable THEN @ @@ (n :> Available(n)) ELSE @]
      /\ UNCHANGED <<Sc, allocVars, timerVars, preempting, triggered, walk, quota, panic>>

\* The rest of the choice is on what was read before.  No node, no additional
\* victims or too few of them: the attempt is over.
chooseVictims ==
  LET ask == Ask(sched.ask)
      on(n) == {a \in Victims(sched.snap) : Sc.alloc[a].node = n}
      byNode == [n \in DOMAIN sched.avail |->
                   IF on(n) = {} THEN None ELSE SetToSortSeq(on(n), compareAllocationLess)]
      With(o, extra) == IF extra = None THEN None ELSE FinalVictims(ask, sched.avail, o.node, o.victims \o extra)
      Final(o) == With(o, calculateAdditionalVictims(sched.snap, ask, o.victims))
  IN  /\ sched.pc = "nodes" /\ sched.todo = {}
      /\ \/ sched' = Idle
         \/ \E o \in tryNodes(Plans(sched.snap, ask, sched.avail, byNode), byNode, sched.tried) :
              \E final \in {Final(o)} \ {None} :
                sched' = [pc |-> "mark", ask |-> sched.ask, fence |-> sched.fence, snap |-> sched.snap,
                          node |-> o.node, avail |-> sched.avail[o.node], final |-> final, at |-> 1]
      /\ UNCHANGED <<Sc, allocVars, timerVars, resv, preempting, triggered, walk, quota, panic>>

\* Mutant: the victims that were marked before stay marked.
KeptMarks(i) == preempted

\* A victim that was released in the meantime: the marks are taken back.
MarkUnPreempted(i) == preempted \ {sched.final[j] : j \in 1 .. i - 1}

MarkPreempted ==
  LET v == sched.final[sched.at]
  IN  /\ sched.pc = "mark"
      /\ IF v \in released
         THEN preempted' = MarkUnPreempted(sched.at) /\ sched' = Idle
         ELSE /\ preempted' = preempted \cup {v}
              /\ sched' = IF sched.at < Len(sched.final) THEN [sched EXCEPT !.at = @ + 1]
                          ELSE [sched EXCEPT !.at = 1, !.pc = "inc"]
      /\ UNCHANGED <<Sc, live, released, late, notified, timerVars, resv, preempting, triggered, walk, quota, panic>>

preemptVictim ==
  /\ sched.pc = "inc"
  /\ IncPreemptingResource(sched.final[sched.at])
  /\ sched' = IF sched.at < Len(sched.final) THEN [sched EXCEPT !.at = @ + 1] ELSE [sched EXCEPT !.pc = "notify"]
  /\ UNCHANGED <<Sc, allocVars, timerVars, resv, triggered, walk, quota, panic>>

\* MarkTriggeredPreemption and notifyRMAllocationReleased.
notifyVictims ==
  /\ sched.pc = "notify"
  /\ triggered' = triggered \cup {sched.ask}
  /\ notified' = notified \cup Range(sched.final)
  /\ sched' = Idle
  /\ UNCHANGED <<Sc, live, released, preempted, late, timerVars, resv, preempting, walk, quota, panic>>

-----------------------------------------------------------------------------
(* The scheduling thread: the required node preemptor                      *)

RequiredNode(k) ==
  LET n == Ask(k).node
      found == filterAllocations(Ask(k), {a \in live : Sc.alloc[a].node = n}, released, preempted)
      victims == GetVictims(Ask(k), found, Available(n))
  IN  /\ sched = Idle /\ k \notin triggered /\ n # None
      /\ ~FitIn(Available(n), Ask(k).size) /\ victims # <<>>
      /\ sched' = [pc |-> "markRequired", ask |-> k, node |-> n, final |-> victims, at |-> 1]
      /\ UNCHANGED <<Sc, allocVars, timerVars, resv, preempting, triggered, walk, quota, panic>>

NextRequired == IF sched.at < Len(sched.final) THEN [sched EXCEPT !.at = @ + 1, !.pc = "markRequired"]
                ELSE [sched EXCEPT !.pc = "notify"]

\* A victim that was released is passed over.
markRequired ==
  LET v == sched.final[sched.at]
  IN  /\ sched.pc = "markRequired"
      /\ IF v \in released THEN UNCHANGED preempted /\ sched' = NextRequired
         ELSE preempted' = preempted \cup {v} /\ sched' = [sched EXCEPT !.pc = "incRequired"]
      /\ UNCHANGED <<Sc, live, released, late, notified, timerVars, resv, preempting, triggered, walk, quota, panic>>

incRequired ==
  /\ sched.pc = "incRequired"
  /\ IncPreemptingResource(sched.final[sched.at])
  /\ sched' = NextRequired
  /\ UNCHANGED <<Sc, allocVars, timerVars, resv, triggered, walk, quota, panic>>

-----------------------------------------------------------------------------
(* Quota preemption: the loop and the goroutines                           *)

triggerQuotaPreemption ==
  /\ walk = {} /\ \E q \in Queues : start[q] # "zero"
  /\ walk' = {root}
  /\ UNCHANGED <<Sc, allocVars, timerVars, resv, preempting, triggered, sched, quota, panic>>

\* TryQuotaPreemption on one queue with tryAcquirePreemption: below a queue
\* that is running nothing is started.
TryQuotaPreemption(q) ==
  LET within == StrictlyGreaterThanOrEqualsOnlyExisting(max[q], used[q])
      busy == quota[q] # Idle
      go == ~busy /\ ~within /\ start[q] = "past"
  IN  /\ q \in walk
      /\ start' = IF ~busy /\ within THEN [start EXCEPT ![q] = "zero"] ELSE start
      /\ quota' = IF go THEN [quota EXCEPT ![q] = [pc |-> "plan"]] ELSE quota
      /\ walk' = (walk \ {q}) \cup IF busy \/ go THEN {} ELSE Children(q)
      /\ UNCHANGED <<Sc, allocVars, max, delay, reload, changes, resv, preempting, triggered, sched, panic>>

\* tryPreemption: a leaf queue takes it all, else the leaf queues below share
\* it.  The shares of a queue that has nothing to preempt are read from nil.
planQuota(q) ==
  LET preemptable == QuotaPreemptable(max, used, preempting, q)
      shares == IF IsLeafQueue(q) THEN q :> preemptable ELSE LeafShares(used, preemptable, q)
  IN  /\ quota[q].pc = "plan"
      /\ panic' = (~IsLeafQueue(q) /\ IsNil(preemptable) /\ Counted(used, q) # {})
      /\ quota' = [quota EXCEPT ![q] = [pc |-> "leaf", all |-> preemptable, shares |-> shares, taken |-> {}]]
      /\ UNCHANGED <<Sc, allocVars, timerVars, resv, preempting, triggered, sched, walk>>

\* filterAllocations, sortAllocations and the choice of preemptVictims.
chooseQuota(q, l) ==
  LET w == quota[q]
      found == QuotaCandidates(w.shares[l], Of(l, live), released, preempted)
      victims == QuotaVictims(max[l], w.shares[l], found)
      rest == [o \in DOMAIN w.shares \ {l} |-> w.shares[o]]
  IN  /\ w.pc = "leaf" /\ l \in DOMAIN w.shares
      /\ quota' = [quota EXCEPT ![q] =
                     IF victims = <<>> THEN [w EXCEPT !.shares = rest]
                     ELSE [pc |-> "mark", all |-> w.all, shares |-> rest, taken |-> w.taken \cup Range(victims),
                           share |-> w.shares[l], found |-> found, victims |-> victims, at |-> 1]]
      /\ UNCHANGED <<Sc, allocVars, timerVars, resv, preempting, triggered, sched, walk, panic>>

NextQuota(w) == IF w.at < Len(w.victims) THEN [w EXCEPT !.at = @ + 1, !.pc = "mark"] ELSE [w EXCEPT !.pc = "notify"]

markQuota(q) ==
  LET w == quota[q]
      v == w.victims[w.at]
  IN  /\ w.pc = "mark"
      /\ IF v \in released THEN UNCHANGED preempted /\ quota' = [quota EXCEPT ![q] = NextQuota(w)]
         ELSE preempted' = preempted \cup {v} /\ quota' = [quota EXCEPT ![q].pc = "inc"]
      /\ UNCHANGED <<Sc, live, released, late, notified, timerVars, resv, preempting, triggered, sched, walk, panic>>

incQuota(q) ==
  /\ quota[q].pc = "inc"
  /\ IncPreemptingResource(quota[q].victims[quota[q].at])
  /\ quota' = [quota EXCEPT ![q] = NextQuota(@)]
  /\ UNCHANGED <<Sc, allocVars, timerVars, resv, triggered, sched, walk, panic>>

notifyQuota(q) ==
  LET w == quota[q]
  IN  /\ w.pc = "notify"
      /\ notified' = notified \cup Range(w.victims)
      /\ quota' = [quota EXCEPT ![q] = [pc |-> "leaf", all |-> w.all, shares |-> w.shares, taken |-> w.taken]]
      /\ UNCHANGED <<Sc, live, released, preempted, late, timerVars, resv, preempting, triggered, sched, walk, panic>>

\* setQuotaPreemptionState(false)
endQuota(q) ==
  /\ quota[q].pc = "leaf" /\ quota[q].shares = <<>>
  /\ quota' = [quota EXCEPT ![q] = Idle]
  /\ start' = [start EXCEPT ![q] = "zero"]
  /\ UNCHANGED <<Sc, allocVars, max, delay, reload, changes, resv, preempting, triggered, sched, walk, panic>>

-----------------------------------------------------------------------------
(* What happens around a preemption                                        *)

\* The shim confirms a release, or releases by itself.
removeAllocation(a) ==
  /\ a \in live
  /\ live' = live \ {a}
  /\ preempting' = [q \in Queues |-> IF a \in preempted /\ q \in Upto(Sc.alloc[a].queue)
                                     THEN Prune(Sub(preempting[q], Size(a))) ELSE preempting[q]]
  /\ UNCHANGED <<Sc, released, preempted, late, notified, timerVars, resv, triggered, sched, walk, quota, panic>>

\* A placeholder is to be replaced.
SetReleased(a) ==
  /\ a \in live \ (preempted \cup released) /\ Flag(a, "placeholder")
  /\ released' = released \cup {a}
  /\ UNCHANGED <<Sc, live, preempted, late, notified, timerVars, resv, preempting, triggered, sched, walk, quota, panic>>

\* IncAllocatedResource: an allocation that is recovered ignores the maximum
\* and arms the quota preemption of the queues it takes above theirs.
recoverAllocation(a) ==
  LET after == [q \in Queues |-> Total(Of(q, live \cup {a}))]
      arms(q) == /\ q \in Upto(Sc.alloc[a].queue)
                 /\ start[q] = "zero" /\ delay[q] # 0 /\ ~IsZero(max[q])
                 /\ ~StrictlyGreaterThanOrEqualsOnlyExisting(max[q], after[q])
  IN  /\ a \in late
      /\ live' = live \cup {a} /\ late' = late \ {a}
      /\ start' = [q \in Queues |-> IF arms(q) THEN "future" ELSE start[q]]
      /\ UNCHANGED <<Sc, released, preempted, notified, max, delay, reload, changes, resv, preempting, triggered,
                     sched, walk, quota, panic>>

\* The start time is reached.
Tick(q) ==
  /\ start[q] = "future"
  /\ start' = [start EXCEPT ![q] = "past"]
  /\ UNCHANGED <<Sc, allocVars, max, delay, reload, changes, resv, preempting, triggered, sched, walk, quota, panic>>

\* ApplyConf sets the maximum; the properties, with the delay, follow later.
ApplyConf ==
  /\ reload = None /\ changes < Len(Sc.change)
  /\ changes' = changes + 1
  /\ LET c == Sc.change[changes + 1]
     IN  /\ max' = [max EXCEPT ![c.queue] = c.max]
         /\ reload' = [queue |-> c.queue, old |-> max[c.queue], delay |-> c.delay]
  /\ UNCHANGED <<Sc, allocVars, delay, start, resv, preempting, triggered, sched, walk, quota, panic>>

\* Mutant: a delay that is taken away is a change of the delay.
DelayShifts(q, old, oldDelay, newDelay) ==
  IF quota[q] # Idle THEN {start[q]}
  ELSE IF IsZero(max[q]) \/ StrictlyGreaterThanOrEqualsOnlyExisting(max[q], used[q]) THEN {"zero"}
  ELSE IF start[q] # "zero" THEN {start[q]} ELSE {"future"}

\* setPreemptionTime: the start times it may leave.  Shifted by the change of
\* the delay, a time may end up on either side of now.
setPreemptionTime(q, old, oldDelay, newDelay) ==
  LET shifted == IF oldDelay = newDelay THEN {start[q]} ELSE {"future", "past"}
  IN  IF quota[q] # Idle THEN {start[q]}
      ELSE IF \/ newDelay = 0 \/ IsZero(max[q])
              \/ StrictlyGreaterThanOrEqualsOnlyExisting(max[q], used[q]) THEN {"zero"}
      ELSE IF Equals(old, max[q])
           THEN IF start[q] # "zero" THEN shifted ELSE {IF oldDelay = 0 THEN "future" ELSE "zero"}
      ELSE IF StrictlyGreaterThan(old, max[q])
           THEN IF start[q] # "zero" THEN shifted ELSE {"future"}
      ELSE IF StrictlyGreaterThan(max[q], old) /\ start[q] # "zero" THEN shifted
      ELSE {start[q]}

UpdateQueueProperties ==
  /\ reload # None
  /\ LET q == reload.queue
     IN  /\ delay' = [delay EXCEPT ![q] = reload.delay]
         /\ \E t \in setPreemptionTime(q, reload.old, delay[q], reload.delay) : start' = [start EXCEPT ![q] = t]
  /\ reload' = None
  /\ UNCHANGED <<Sc, allocVars, max, changes, resv, preempting, triggered, sched, walk, quota, panic>>

Next ==
  /\ ~panic
  /\ \/ \E k \in DOMAIN Sc.ask, nodesTried \in BOOLEAN : TryPreemption(k, nodesTried)
     \/ \E l \in Queues : snapshotLeaf(l)
     \/ listVictims \/ checkGuarantees
     \/ \E n \in Nodes : walkNode(n)
     \/ chooseVictims \/ MarkPreempted \/ preemptVictim \/ notifyVictims
     \/ \E k \in DOMAIN Sc.ask : RequiredNode(k)
     \/ markRequired \/ incRequired
     \/ triggerQuotaPreemption
     \/ \E q \in Queues : TryQuotaPreemption(q)
     \/ \E q \in Queues : planQuota(q)
     \/ \E q \in Queues : \E l \in Leaves(q) : chooseQuota(q, l)
     \/ \E q \in Queues : markQuota(q)
     \/ \E q \in Queues : incQuota(q)
     \/ \E q \in Queues : notifyQuota(q)
     \/ \E q \in Queues : endQuota(q)
     \/ \E a \in Allocs : removeAllocation(a)
     \/ \E a \in Allocs : SetReleased(a)
     \/ \E a \in Allocs : recoverAllocation(a)
     \/ \E q \in Queues : Tick(q)
     \/ ApplyConf \/ UpdateQueueProperties

Spec == Init /\ [][Next]_vars

-----------------------------------------------------------------------------
\* The shape of the state.  An allocation is never both marked for replacement
\* and preempted (Allocation.SetReleased and MarkPreempted refuse).
TypeOK ==
  /\ live \subseteq Allocs /\ late \subseteq Allocs \ live /\ notified \subseteq Allocs
  /\ released \cap preempted = {}
  /\ start \in [Queues -> {"zero", "future", "past"}]
  /\ \A q \in Queues : \A k \in Types(preempting[q]) : preempting[q][k] \in Quantity
  /\ walk \subseteq Queues /\ resv \subseteq DOMAIN Sc.resv /\ triggered \subseteq DOMAIN Sc.ask

Chosen == sched.pc \in {"mark", "inc"}

\* The priority of an allocation or an ask of queue q, seen in the queue `top'
\* above it: the other way to find what Reach computes going down.
SeenFrom(top, q, priority) ==
  LET at[n \in Len(top) + 1 .. Len(q) + 1] ==
        IF n = Len(q) + 1 THEN priority
        ELSE LET s == Sc.queue[SubSeq(q, 1, n)] IN IF s.fence THEN s.offset ELSE at[n + 1] + s.offset
  IN  at[Len(top) + 1]
Common(q, p) == CHOOSE c \in Upto(q) \cap Upto(p) : \A o \in Upto(q) \cap Upto(p) : Len(o) <= Len(c)
NotAbove(a, ask) ==
  LET q == Sc.alloc[a].queue
      top == Common(q, ask.queue)
  IN  SeenFrom(top, q, Sc.alloc[a].priority) <= SeenFrom(top, ask.queue, ask.priority)

\* A victim has at most the priority of the ask, both seen in the lowest queue
\* above the two, when that queue has neither an offset nor a priority fence
\* (Queue.findEligiblePreemptionVictims).
LowerPriority ==
  Chosen => \A a \in Range(sched.final) :
    LET top == Sc.queue[Common(Sc.alloc[a].queue, Ask(sched.ask).queue)]
    IN  top.offset = 0 /\ ~top.fence => NotAbove(a, Ask(sched.ask))

\* A victim has at most the priority of the ask (queue.go, FindEligiblePreemption-
\* Victims: "find victims of equal or lower priority").
VictimsOfLowerPriority == Chosen => \A a \in Range(sched.final) : NotAbove(a, Ask(sched.ask))

\* Preemption for an ask takes nothing from a queue with a guarantee when that
\* queue and all queues above it were within their guarantees of the types
\* asked for as the search saw them (calculateVictimsByNode), but for a queue
\* whose name starts the name of a queue of the ask.
SparedWithinGuarantee ==
  Chosen => \A a \in Range(sched.final) :
    LET q == Sc.alloc[a].queue
        s == sched.snap
        over(p) == \E k \in Types(Ask(sched.ask).size) \cap Types(s[p].guaranteed) :
                     Quant(s[p].used, k) - Quant(s[p].preempting, k) > s[p].guaranteed[k]
    IN  IsEmpty(s[q].guaranteed) \/ HasPrefix(Ask(sched.ask).queue, q) \/ \E p \in Upto(q) : over(p)

\* With one resource type, the ask fits the node once its victims are gone
\* (Preemptor.TryPreemption).
NodeFits ==
  LET on == {a \in Range(sched.final) : Sc.alloc[a].node = sched.node}
      ask == Ask(sched.ask).size
  IN  Chosen /\ Cardinality(Types(ask)) = 1 => FitIn(Add(sched.avail, Total(on)), ask)

\* The victims that a thread has chosen and is still at work on.
InHand == (IF sched.pc \in {"mark", "inc", "markRequired", "incRequired", "notify"} THEN Range(sched.final) ELSE {})
          \cup UNION {Range(quota[q].victims) : q \in {q \in Queues : quota[q].pc \in {"mark", "inc", "notify"}}}

\* The state has its shape, and the shim is told of every allocation that is
\* marked preempted, unless the thread that marked it is still at it: the marks
\* of an attempt that fails half way are taken back (Preemptor.TryPreemption).
MarkedIsNotified == TypeOK /\ preempted \subseteq notified \cup InHand

\* The share of type k of an excess of queue q reaches the queue l below it.
Reaches(q, k, l) ==
  \A n \in Len(q) + 1 .. Len(l) :
    LET g == Sc.queue[SubSeq(l, 1, n)].guaranteed IN IsEmpty(g) \/ k \in Types(g)

\* Quota preemption takes, of a type the queue uses too much of, no more than
\* that, over all leaf queues together (getChildQueuesPreemptableResource and
\* preemptVictims): all but those that the share of that type does not reach,
\* where a queue on the way down has a guarantee that does not name the type.
QuotaStopsAtMax ==
  \A q \in Queues : quota[q].pc \in {"leaf", "mark", "inc", "notify"} =>
    \A k \in Types(quota[q].all) :
      LET reached == {a \in quota[q].taken : Reaches(q, k, Sc.alloc[a].queue)}
      IN  Quant(Total(reached), k) <= quota[q].all[k]

\* Between two changes of the configuration no quota preemption is due on a
\* queue without a delay or without a maximum (Queue.setPreemptionTime).
ArmedHasLimit ==
  \A q \in Queues : /\ (reload = None \/ reload.queue # q) /\ quota[q] = Idle /\ start[q] # "zero"
                    => delay[q] # 0 /\ ~IsZero(max[q])

\* A victim of an ask was fair game: not above the ask in priority and not protected
\* by the guarantee of its queues.
VictimsJustified == LowerPriority /\ SparedWithinGuarantee

-----------------------------------------------------------------------------
(* Expected of the code by its comments, and not so: see the README.       *)

\* A quota preemption has nothing to do when the usage has dropped below the
\* maximum (queue.go, tryAcquirePreemption: "usage is below max: no need to
\* trigger. Happens if the queue drops below the new max when pods stop.").
QuotaSurvives == ~panic

\* Quota preemption prefers an allocation that has opted in to preemption and
\* is no originator (preemption_utilities.go, scoreAllocationBasedOnAsk).
OptedInFirst ==
  \A q \in Queues : quota[q].pc = "mark" =>
    LET w == quota[q] IN
    \A v \in Range(w.victims), o \in w.found \ Range(w.victims) :
      Size(v) = Size(o) /\ Sc.alloc[v].priority = Sc.alloc[o].priority => scoreAllocation(v) <= scoreAllocation(o)

=============================================================================
