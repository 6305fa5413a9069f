----------------------------- MODULE QueueUsage -----------------------------
(***************************************************************************)
(* What a tree of queues counts for its applications, objects/queue.go:   *)
(* pending, allocated and preempting resource, running and "allocating"   *)
(* applications, and priorities.  Every count is kept on the leaf and on  *)
(* all its parents, and every queue has a lock of its own: one call walks *)
(* the path of a leaf queue by queue, so two goroutines interleave        *)
(* between two queues of the same walk.                                   *)
(*                                                                         *)
(* The scheduling goroutine ("sched") and the goroutine of the RM events  *)
(* ("rm") are programs: todo[t] is the rest of the call that t executes,  *)
(* one step per critical section.  The application is reduced to the calls*)
(* it makes on its queue, in their order and under the application lock   *)
(* (objects/application.go); Application.tla has its own life cycle.       *)
(* `seen' remembers that two priority updates overlapped ("overlap") and   *)
(* that an application started without canRunApp ("bypass").               *)
(***************************************************************************)
EXTENDS Integers, Sequences, FiniteSets, SequencesExt

CONSTANTS Queues, Root, Parent,      \* the tree: Parent maps all but Root
          Apps, Asks, App,           \* App[k] is the application of ask k
          Environments,              \* leaves, recovered asks and limits
          Placeholders,              \* the placeholder asks
          Priority,                  \* of an ask
          Offset, Fenced,            \* priority offset and policy of a queue
          MinPriority, MaxPriority,
          NoLimit, None

ASSUME TreeAssumption ==
  /\ Root \in Queues
  /\ Parent \in [Queues \ {Root} -> Queues]
  /\ App \in [Asks -> Apps]
  /\ MinPriority < MaxPriority

VARIABLES queue,     \* per queue: its counts, priorities and applications
          app, ask,  \* state of the applications and of their asks
          mapping,   \* applications with an entry in the AppQueueMapping
          lock, todo, env, seen

vars == <<queue, app, ask, mapping, lock, todo, env, seen>>

Threads == {"sched", "rm"}

leaf == env.leaf              \* the leaf queue of an application
Recovered == env.recovered    \* asks that arrive already allocated
MaxResource == env.max        \* quota of a queue
MaxRunning == env.running     \* running applications, 0: no maximum

\* The queues from q to the root, and from the root to q: the recursion of
\* the counting calls.
Up[q \in Queues] == IF q = Root THEN <<q>> ELSE <<q>> \o Up[Parent[q]]
Down(q) == Reverse(Up[q])

Below(q, a) == \E i \in DOMAIN Up[leaf[a]] : Up[leaf[a]][i] = q

Children(q) == {c \in Queues \ {Root} : Parent[c] = q}
AsksOf(a, states) == {k \in Asks : App[k] = a /\ ask[k] \in states}
Live == {"allocated", "preempted"}

-----------------------------------------------------------------------------
(* Priorities.  MinPriority stands for "nothing pending".                  *)

Largest(S) == IF S = {} THEN MinPriority ELSE CHOOSE v \in S : \A w \in S : w <= v

askMaxPriority(a) == Largest({Priority[k] : k \in AsksOf(a, {"pending"})})

currentPriority(q) == Largest({queue[q].items[i] : i \in DOMAIN queue[q].items})

priorityValueByPolicy(q, v) ==
  IF v = MinPriority THEN v
  ELSE IF q \in Fenced THEN Offset[q]
  ELSE IF Offset[q] + v > MaxPriority THEN MaxPriority
  ELSE IF Offset[q] + v < MinPriority THEN MinPriority
  ELSE Offset[q] + v

Set(f, i, v) == [j \in DOMAIN f \cup {i} |-> IF j = i THEN v ELSE f[j]]
Without(f, i) == [j \in DOMAIN f \ {i} |-> f[j]]

-----------------------------------------------------------------------------
(* Programs.                                                               *)

Step(op, q, x) == [op |-> op, q |-> q, x |-> x]
Walk(op, path, x) == [i \in DOMAIN path |-> Step(op, path[i], x)]
Do(op, x) == <<Step(op, None, x)>>

\* Mutant: a walk that ends at the leaf.
IncLeaf(a, v) == <<Step("inc", leaf[a], v)>>
Fits(a, v)       == Walk("fits", Up[leaf[a]], v)
Inc(a, v)        == Walk("inc", Down(leaf[a]), v)
TryInc(a, v)     == Fits(a, v) \o Inc(a, v)
Dec(a, v)        == IF v = 0 THEN <<>>
                    ELSE Walk("has", Up[leaf[a]], v) \o Walk("dec", Down(leaf[a]), v)
IncPending(a, v) == Walk("incPending", Down(leaf[a]), v)
DecPending(a, v) == IF v = 0 THEN <<>> ELSE Walk("decPending", Down(leaf[a]), v)
CanRun(a)        == Walk("can", Down(leaf[a]), a)
Allocating(a)    == Walk("allocating", Down(leaf[a]), a)
IncRunning(a)    == Walk("incRunning", Down(leaf[a]), a)
DecRunning(a)    == Walk("decRunning", Down(leaf[a]), a)

\* The application tells its leaf of a changed maximum priority only.
\* (RaiseOnly is a mutant: a lower maximum is not reported.)
RaiseOnly(a, old, new) ==
  IF new <= old THEN <<>> ELSE <<Step("prioApp", leaf[a], [of |-> a, v |-> new])>>

NewPriority(a, old, new) ==
  IF old = new THEN <<>> ELSE <<Step("prioApp", leaf[a], [of |-> a, v |-> new])>>

Rest(t) == Tail(todo[t])
Now(t) == Head(todo[t])
At(t, op) == todo[t] # <<>> /\ Now(t).op = op
Continue(t, prog) == todo' = [todo EXCEPT ![t] = prog]

\* The rest of a call is given up: the steps of these kinds are dropped.
DropWhile(prog, ops) ==
  LET kept == {i \in DOMAIN prog : prog[i].op \notin ops}
  IN  IF kept = {} THEN <<>>
      ELSE SubSeq(prog, CHOOSE i \in kept : \A j \in kept : i <= j, Len(prog))

-----------------------------------------------------------------------------
(* The critical sections of queue.go: one queue, one lock.                 *)

Q(t) == queue[Now(t).q]
X(t) == Now(t).x

Update(t, op, new, rest) ==
  /\ At(t, op)
  /\ queue' = [queue EXCEPT ![Now(t).q] = new]
  /\ Continue(t, rest)
  /\ UNCHANGED <<app, ask, mapping, lock, env>>

Count(t, op, new) == Update(t, op, new, Rest(t)) /\ UNCHANGED seen

Check(t, op, rest) ==
  /\ At(t, op)
  /\ Continue(t, rest)
  /\ UNCHANGED <<queue, app, ask, mapping, lock, env, seen>>

incPendingResource(t) ==
  Count(t, "incPending", [Q(t) EXCEPT !.pending = @ + X(t)])

\* A decrease below zero only logs: the count goes negative.
decPendingResource(t) ==
  Count(t, "decPending", [Q(t) EXCEPT !.pending = @ - X(t)])

\* TryIncAllocatedResource checks from the leaf to the root, one queue at a
\* time, and adds on the way back; what does not fit gives the call up.
allocatedResFits(t) ==
  LET max == MaxResource[Now(t).q]
  IN  Check(t, "fits", IF max = NoLimit \/ Q(t).allocated + X(t) <= max THEN Rest(t)
                       ELSE DropWhile(Rest(t), {"fits", "inc", "allocate"}))

IncAllocatedResource(t) ==
  Count(t, "inc", [Q(t) EXCEPT !.allocated = @ + X(t)])

resourceFitsAllocated(t) ==
  Check(t, "has", IF X(t) <= Q(t).allocated THEN Rest(t)
                  ELSE DropWhile(Rest(t), {"has", "dec"}))

DecAllocatedResource(t) ==
  Count(t, "dec", [Q(t) EXCEPT !.allocated = @ - X(t)])

\* The child's lock is kept while the parent is updated: one step.
AddPreempting(a, v) ==
  [q \in Queues |-> IF Below(q, a) THEN [queue[q] EXCEPT !.preempting = @ + v] ELSE queue[q]]

NotRunnable(t) == Do("tryAllocate", [a |-> X(t), runnable |-> FALSE])

\* Mutant: the applications that hold placeholders are not counted.
RunningOnly(t) ==
  LET max == MaxRunning[Now(t).q]
  IN  Check(t, "can", IF max = 0 \/ Q(t).running + 1 <= max THEN Rest(t) ELSE NotRunnable(t))

canRunApp(t) ==
  LET max == MaxRunning[Now(t).q]
      ok == \/ max = 0
            \/ X(t) \in Q(t).allocating
            \/ Q(t).running + Cardinality(Q(t).allocating) + 1 <= max
  IN  Check(t, "can", IF ok THEN Rest(t) ELSE NotRunnable(t))

setAllocatingAccepted(t) ==
  Count(t, "allocating", [Q(t) EXCEPT !.allocating = @ \cup {X(t)}])

\* Capped at the maximum: "Combined with the decRunningApps guard ... this
\* guard should allow self-heal".
incRunningApps(t) ==
  LET max == MaxRunning[Now(t).q]
  IN  Count(t, "incRunning",
            [Q(t) EXCEPT !.allocating = @ \ {X(t)},
                         !.running = IF max > 0 /\ @ + 1 > max THEN max ELSE @ + 1])

decRunningApps(t) ==
  Count(t, "decRunning", [Q(t) EXCEPT !.running = IF @ > 0 THEN @ - 1 ELSE @])

\* The value for the parent is computed under the lock of the child and
\* applied under the lock of the parent.
ToParent(q, v) == IF q = Root THEN <<>> ELSE <<Step("prioQueue", Parent[q], [of |-> q, v |-> v])>>
ValueOf(q, its) == priorityValueByPolicy(q, Largest({its[i] : i \in DOMAIN its}))

SeeOverlap(t) ==
  LET others == UNION {{todo[u][i].op : i \in DOMAIN todo[u]} : u \in Threads \ {t}}
  IN  seen' = IF "prioQueue" \in others THEN seen \cup {"overlap"} ELSE seen

UpdateApplicationPriority(t) ==
  LET its == Set(Q(t).items, X(t).of, X(t).v)
      known == X(t).of \in Q(t).members
      value == IF known THEN ValueOf(Now(t).q, its) ELSE currentPriority(Now(t).q)
  IN  /\ Update(t, "prioApp", IF known THEN [Q(t) EXCEPT !.items = its] ELSE Q(t),
                ToParent(Now(t).q, value) \o Rest(t))
      /\ SeeOverlap(t)

UpdateQueuePriority(t) ==
  LET its == Set(Q(t).items, X(t).of, X(t).v)
  IN  /\ Update(t, "prioQueue", [Q(t) EXCEPT !.items = its],
                ToParent(Now(t).q, ValueOf(Now(t).q, its)) \o Rest(t))
      /\ UNCHANGED seen

QueueStep(t) ==
  \/ incPendingResource(t) \/ decPendingResource(t)
  \/ allocatedResFits(t) \/ IncAllocatedResource(t)
  \/ resourceFitsAllocated(t) \/ DecAllocatedResource(t)
  \/ canRunApp(t) \/ setAllocatingAccepted(t)
  \/ incRunningApps(t) \/ decRunningApps(t)
  \/ UpdateApplicationPriority(t) \/ UpdateQueuePriority(t)

-----------------------------------------------------------------------------
(* Application states as the queue sees them.  The lock of an application *)
(* is held from the first to the last step of the call.                    *)

Free(a) == lock[a] = None

unlock(t) ==
  /\ At(t, "unlock")
  /\ lock' = [lock EXCEPT ![Now(t).x] = None]
  /\ Continue(t, Rest(t))
  /\ UNCHANGED <<queue, env, app, ask, mapping, seen>>

\* The callbacks of the state machine that reach the queue: entering and
\* leaving Running.
Transition(a, new) ==
  CASE app[a] # "Running" /\ new = "Running" -> IncRunning(a)
    [] app[a] = "Running" /\ new # "Running" -> DecRunning(a)
    [] OTHER -> <<>>

\* CompleteApplication, once nothing is pending or allocated.
Completed(a, left) ==
  IF left = {} /\ app[a] \in {"Accepted", "Running"} THEN "Completing" ELSE app[a]

\* RunApplication, fired by an allocation.
Ran(a) == IF app[a] \in {"Accepted", "Running", "Completing"} THEN "Running" ELSE app[a]

-----------------------------------------------------------------------------
(* The scheduling goroutine.                                               *)

\* A leaf and an application with pending resource, by the filters of
\* sortQueues and sortApplications.
TryAllocate(a) ==
  /\ todo["sched"] = <<>>
  /\ a \in queue[leaf[a]].members
  /\ AsksOf(a, {"pending"}) # {}
  /\ \A q \in Queues : Below(q, a) => queue[q].pending > 0
  /\ Continue("sched", CanRun(a) \o Do("tryAllocate", [a |-> a, runnable |-> TRUE]))
  /\ UNCHANGED <<queue, env, app, ask, mapping, lock, seen>>

\* Application.tryAllocate: an Accepted application must be runnable; then,
\* under the application lock, one of its asks finds a node, or none does.
tryAllocate ==
  /\ At("sched", "tryAllocate")
  /\ LET a == Now("sched").x.a
     IN  \/ /\ app[a] = "Accepted" /\ ~Now("sched").x.runnable
            /\ Continue("sched", <<>>)
            /\ UNCHANGED lock
         \/ /\ app[a] # "Accepted" \/ Now("sched").x.runnable
            /\ Free(a)
            /\ IF AsksOf(a, {"pending"}) = {}
               THEN Continue("sched", <<>>) /\ UNCHANGED lock
               ELSE \E k \in AsksOf(a, {"pending"}) :
                      /\ lock' = [lock EXCEPT ![a] = "sched"]
                      /\ Continue("sched", TryInc(a, 1) \o Do("allocate", k) \o Do("unlock", a))
  /\ UNCHANGED <<queue, env, app, ask, mapping, seen>>

\* tryNode, once the queues have the allocation: allocateAsk takes it out of
\* the pending counts, then addAllocationInternal, then TryAllocate looks at
\* the state again.
allocateAsk ==
  /\ At("sched", "allocate")
  /\ LET k == Now("sched").x
         a == App[k]
         others == Largest({Priority[j] : j \in AsksOf(a, {"pending"}) \ {k}})
     IN  /\ ask' = [ask EXCEPT ![k] = "allocated"]
         /\ Continue("sched", NewPriority(a, askMaxPriority(a), others) \o DecPending(a, 1)
                              \o Do("added", k) \o Do("unlock", a) \o Do("accepted", a))
  /\ UNCHANGED <<queue, env, app, mapping, lock, seen>>

\* A placeholder moves the application only when it is the last one.
addAllocationInternal ==
  /\ At("sched", "added")
  /\ LET k == Now("sched").x
         a == App[k]
         all == {j \in Placeholders : App[j] = a}
         new == IF k \in Placeholders /\ ~(all \subseteq AsksOf(a, Live)) THEN app[a] ELSE Ran(a)
     IN  /\ app' = [app EXCEPT ![a] = new]
         /\ Continue("sched", Transition(a, new) \o Rest("sched"))
  /\ UNCHANGED <<queue, env, ask, mapping, lock, seen>>

stillAccepted ==
  /\ At("sched", "accepted")
  /\ LET a == Now("sched").x
     IN  Continue("sched", IF app[a] = "Accepted" THEN Allocating(a) ELSE <<>>)
  /\ UNCHANGED <<queue, env, app, ask, mapping, lock, seen>>

\* The AppQueueMapping: the leaf of an application is known while it has an entry.
AddAppQueueMapping(a) == mapping' = mapping \cup {a}
GetQueueByAppId(a) == IF a \in mapping THEN leaf[a] ELSE None
RemoveAppQueueMapping(a) == mapping' = mapping \ {a}

\* TryPreemption: a victim is chosen, marked, and its queue looked up by the
\* application, each at its own time.
chooseVictim(k) ==
  /\ todo["sched"] = <<>>
  /\ ask[k] = "allocated" /\ Free(App[k])
  /\ Continue("sched", Do("mark", k))
  /\ UNCHANGED <<queue, env, app, ask, mapping, lock, seen>>

MarkPreempted ==
  /\ At("sched", "mark")
  /\ LET k == Now("sched").x
     IN  /\ ask' = [ask EXCEPT ![k] = IF @ = "allocated" THEN "preempted" ELSE @]
         /\ Continue("sched", Do("preempt", k))
  /\ UNCHANGED <<queue, env, app, mapping, lock, seen>>

IncPreemptingResource ==
  /\ At("sched", "preempt")
  /\ LET a == App[Now("sched").x]
     IN  queue' = IF GetQueueByAppId(a) # None THEN AddPreempting(a, 1) ELSE queue
  /\ Continue("sched", <<>>)
  /\ UNCHANGED <<app, ask, mapping, lock, env, seen>>

Sched ==
  \/ \E a \in Apps : TryAllocate(a)
  \/ tryAllocate \/ allocateAsk \/ addAllocationInternal \/ stillAccepted
  \/ \E k \in Asks : chooseVictim(k)
  \/ MarkPreempted \/ IncPreemptingResource

-----------------------------------------------------------------------------
(* The goroutine of the RM events.                                         *)

Idle == todo["rm"] = <<>>

AddApplication(a) ==
  /\ Idle /\ app[a] = "Absent"
  /\ app' = [app EXCEPT ![a] = "New"]
  /\ queue' = [queue EXCEPT ![leaf[a]].members = @ \cup {a}]
  /\ AddAppQueueMapping(a)
  /\ UNCHANGED <<env, ask, lock, todo, seen>>

\* The application moves first, then the priority, then the pending counts.
AddAllocationAsk(k) ==
  /\ Idle /\ ask[k] = "none" /\ k \notin Recovered
  /\ LET a == App[k]
         new == CASE app[a] = "New" -> "Accepted"
                  [] app[a] = "Completing" -> "Running"
                  [] OTHER -> app[a]
         prio == Largest({askMaxPriority(a), Priority[k]})
     IN  /\ app[a] \in {"New", "Accepted", "Running", "Completing"} /\ Free(a)
         /\ lock' = [lock EXCEPT ![a] = "rm"]
         /\ ask' = [ask EXCEPT ![k] = "pending"]
         /\ app' = [app EXCEPT ![a] = new]
         /\ Continue("rm", Transition(a, new) \o NewPriority(a, askMaxPriority(a), prio)
                           \o IncPending(a, 1) \o Do("unlock", a))
         /\ seen' = IF app[a] = "Completing" THEN seen \cup {"bypass"} ELSE seen
  /\ UNCHANGED <<queue, env, mapping>>

\* RemoveAllocationAsk(key), for an ask that is pending.
RemoveAllocationAsk(k) ==
  /\ Idle /\ ask[k] = "pending"
  /\ LET a == App[k]
         others == AsksOf(a, {"pending"}) \ {k}
         new == Completed(a, others \cup AsksOf(a, Live))
     IN  /\ Free(a)
         /\ lock' = [lock EXCEPT ![a] = "rm"]
         /\ ask' = [ask EXCEPT ![k] = "gone"]
         /\ app' = [app EXCEPT ![a] = new]
         /\ Continue("rm", NewPriority(a, askMaxPriority(a), Largest({Priority[j] : j \in others}))
                           \o DecPending(a, 1) \o Transition(a, new) \o Do("unlock", a))
  /\ UNCHANGED <<queue, env, mapping, seen>>

\* removeAllocation: the application first, under its lock, then the queue.
\* A real allocation does not look at the placeholders that are left.
removeAllocation(k) ==
  /\ Idle /\ ask[k] \in Live
  /\ LET a == App[k]
         live == AsksOf(a, Live) \ {k}
         left == AsksOf(a, {"pending"})
                 \cup (IF k \in Placeholders THEN live ELSE live \ Placeholders)
         new == Completed(a, left)
     IN  /\ Free(a)
         /\ lock' = [lock EXCEPT ![a] = "rm"]
         /\ ask' = [ask EXCEPT ![k] = "gone"]
         /\ app' = [app EXCEPT ![a] = new]
         /\ Continue("rm", Transition(a, new) \o Do("unlock", a) \o Dec(a, 1)
                           \o (IF ask[k] = "preempted" THEN Do("unpreempt", [a |-> a, v |-> 1])
                               ELSE <<>>))
  /\ UNCHANGED <<queue, env, mapping, seen>>

DecPreemptingResource ==
  /\ At("rm", "unpreempt")
  /\ queue' = AddPreempting(Now("rm").x.a, 0 - Now("rm").x.v)
  /\ Continue("rm", Rest("rm"))
  /\ UNCHANGED <<app, ask, mapping, lock, env, seen>>

\* An allocation that the RM reports: the quotas are not looked at.
recoverAllocation(k) ==
  /\ Idle /\ ask[k] = "none" /\ k \in Recovered
  /\ app[App[k]] \in {"New", "Accepted", "Running", "Completing"}
  /\ Continue("rm", Inc(App[k], 1) \o Do("recover", k))
  /\ seen' = seen \cup {"bypass"}
  /\ UNCHANGED <<queue, env, app, ask, mapping, lock>>

AddAllocation ==
  /\ At("rm", "recover")
  /\ LET k == Now("rm").x
         a == App[k]
     IN  /\ Free(a)
         /\ lock' = [lock EXCEPT ![a] = "rm"]
         /\ ask' = [ask EXCEPT ![k] = "allocated"]
         /\ app' = [app EXCEPT ![a] = "Running"]
         /\ Continue("rm", Transition(a, "Running") \o Do("unlock", a))
  /\ UNCHANGED <<queue, env, mapping, seen>>

\* removeApplication: RemoveAllocationAsk("") under the application lock ...
removeApplication(a) ==
  /\ Idle /\ app[a] \in {"New", "Accepted", "Running", "Completing"}
  /\ IF AsksOf(a, {"pending"} \cup Live) = {}
     THEN /\ Continue("rm", Do("removeApp", a))
          /\ UNCHANGED <<app, ask, lock>>
     ELSE LET gone == AsksOf(a, {"pending"})
              new == Completed(a, AsksOf(a, Live))
          IN  /\ Free(a)
              /\ lock' = [lock EXCEPT ![a] = "rm"]
              /\ ask' = [k \in Asks |-> IF k \in gone THEN "gone" ELSE ask[k]]
              /\ app' = [app EXCEPT ![a] = new]
              /\ Continue("rm", <<Step("prioApp", leaf[a], [of |-> a, v |-> MinPriority])>>
                                \o DecPending(a, Cardinality(gone)) \o Transition(a, new)
                                \o Do("unlock", a) \o Do("removeApp", a))
  /\ UNCHANGED <<queue, env, mapping, seen>>

\* Mutant: the placeholders are not taken off the queue.
ForgetPlaceholders ==
  /\ At("rm", "removeApp")
  /\ LET a == Now("rm").x
     IN  /\ Free(a)
         /\ Continue("rm", Dec(a, Cardinality(AsksOf(a, Live) \ Placeholders))
                           \o Do("leaveQueue", a))
  /\ UNCHANGED <<queue, env, app, ask, mapping, lock, seen>>

\* ... then RemoveApplication of the queue takes what the application has
\* allocated off all counts ...
RemoveApplication ==
  /\ At("rm", "removeApp")
  /\ LET a == Now("rm").x
         real == AsksOf(a, Live) \ Placeholders
         ph == AsksOf(a, Live) \cap Placeholders
         marked == Cardinality(AsksOf(a, {"preempted"}))
     IN  /\ Free(a)
         /\ Continue("rm", Dec(a, Cardinality(real)) \o Do("placeholders", Cardinality(ph))
                           \o Dec(a, Cardinality(ph))
                           \o (IF marked > 0 THEN Do("unpreempt", [a |-> a, v |-> marked]) ELSE <<>>)
                           \o Do("leaveQueue", a))
  /\ UNCHANGED <<queue, env, app, ask, mapping, lock, seen>>

\* The second release is a call of its own: it is made whatever the first
\* one returned.
secondRelease ==
  /\ At("rm", "placeholders")
  /\ Continue("rm", Rest("rm"))
  /\ UNCHANGED <<queue, env, app, ask, mapping, lock, seen>>

Left(q, a) == [queue[q] EXCEPT !.members = @ \ {a}, !.allocating = @ \ {a}, !.items = Without(@, a)]

\* ... forgets it on the leaf, and only there ...
leaveQueue ==
  /\ At("rm", "leaveQueue")
  /\ LET a == Now("rm").x
         new == Left(leaf[a], a)
     IN  /\ queue' = [queue EXCEPT ![leaf[a]] = new]
         /\ Continue("rm", ToParent(leaf[a], ValueOf(leaf[a], new.items)) \o Do("removeAll", a))
  /\ SeeOverlap("rm")
  /\ UNCHANGED <<app, ask, mapping, lock, env>>

\* ... and RemoveAllAllocations completes the application.
RemoveAllAllocations ==
  /\ At("rm", "removeAll")
  /\ LET a == Now("rm").x
     IN  /\ Free(a)
         /\ RemoveAppQueueMapping(a)
         /\ lock' = [lock EXCEPT ![a] = "rm"]
         /\ ask' = [k \in Asks |-> IF App[k] = a /\ ask[k] \in Live THEN "gone" ELSE ask[k]]
         /\ app' = [app EXCEPT ![a] = "Removed"]
         /\ Continue("rm", Transition(a, "Removed") \o Do("unlock", a))
  /\ UNCHANGED <<queue, env, seen>>

RM ==
  \/ \E a \in Apps : AddApplication(a) \/ removeApplication(a)
  \/ \E k \in Asks : \/ AddAllocationAsk(k) \/ RemoveAllocationAsk(k)
                     \/ removeAllocation(k) \/ recoverAllocation(k)
  \/ DecPreemptingResource \/ AddAllocation
  \/ RemoveApplication \/ secondRelease \/ leaveQueue \/ RemoveAllAllocations

-----------------------------------------------------------------------------

Init ==
  /\ queue = [q \in Queues |-> [pending |-> 0, allocated |-> 0, preempting |-> 0, running |-> 0,
                                allocating |-> {}, members |-> {},
                                items |-> [c \in Children(q) |-> MinPriority]]]
  /\ env \in Environments
  /\ app = [a \in Apps |-> "Absent"]
  /\ ask = [k \in Asks |-> "none"]
  /\ mapping = {}
  /\ lock = [a \in Apps |-> None]
  /\ todo = [t \in Threads |-> <<>>]
  /\ seen = {}

Next == (\E t \in Threads : QueueStep(t) \/ unlock(t)) \/ Sched \/ RM

Spec == Init /\ [][Next]_vars

-----------------------------------------------------------------------------

Quiet == \A t \in Threads : todo[t] = <<>>

Under(q, S) == {k \in S : Below(q, App[k])}
UnderApps(q, S) == {a \in S : Below(q, a)}

\* Types.  A stored priority is within the limits of its type: adding an
\* offset saturates.
TypeOK ==
  /\ \A q \in Queues : /\ queue[q].allocated \in Nat /\ queue[q].running \in Nat
                       /\ queue[q].members \in SUBSET Apps
                       /\ \A i \in DOMAIN queue[q].items :
                            queue[q].items[i] \in MinPriority .. MaxPriority
  /\ env \in Environments
  /\ app \in [Apps -> {"Absent", "New", "Accepted", "Running", "Completing", "Removed"}]
  /\ ask \in [Asks -> {"none", "pending", "gone"} \cup Live]
  /\ lock \in [Apps -> Threads \cup {None}]
  /\ mapping \in SUBSET Apps
  /\ seen \in SUBSET {"overlap", "bypass"}

\* Once the goroutines are through with their walks, every queue counts
\* exactly the asks below it: what is pending and what is allocated on a
\* parent is the sum of its children, whatever the order in which the walks
\* of incPendingResource, TryIncAllocatedResource, RemoveApplication and the
\* others met on the queues of the path.
UsageExact ==
  Quiet => \A q \in Queues :
             /\ queue[q].pending = Cardinality(Under(q, {k \in Asks : ask[k] = "pending"}))
             /\ queue[q].allocated = Cardinality(Under(q, {k \in Asks : ask[k] \in Live}))

\* DecAllocatedResource never refuses a release ("released allocation is
\* larger than ... queue allocation"): a parent that an increase in flight has
\* not reached, or a decrease in flight has already left, always has room for
\* the releases that are due.
ReleaseNeverRefused ==
  \A t \in Threads : At(t, "has") => Now(t).x <= queue[Now(t).q].allocated

\* The scheduler never takes a queue over its quota, although the check and
\* the increase of TryIncAllocatedResource are separate critical sections:
\* what is over it was reported by the RM, which no quota stops.
WithinMax ==
  Quiet => \A q \in Queues :
             MaxResource[q] # NoLimit =>
               queue[q].allocated <= MaxResource[q]
                 + Cardinality(Under(q, {k \in Recovered : ask[k] \in Live}))

\* runningApps never counts more than what runs below the queue, and exactly
\* that without a maximum: so the counter is back at zero when nothing runs,
\* the "self-heal" that the guards of incRunningApps and decRunningApps are
\* for.
RunningCounted ==
  Quiet => \A q \in Queues :
             LET n == Cardinality(UnderApps(q, {a \in Apps : app[a] = "Running"}))
             IN  /\ queue[q].running <= n
                 /\ MaxRunning[q] = 0 => queue[q].running = n

\* No more applications run or hold placeholders below a queue than it may
\* run, as long as each one started through canRunApp (not by an allocation
\* the RM reported, nor by a new ask for a Completing application).
RunningWithin ==
  "bypass" \notin seen =>
    \A q \in Queues : MaxRunning[q] > 0 =>
      Cardinality(UnderApps(q, {a \in Apps :
        app[a] = "Running" \/ (app[a] = "Accepted" /\ AsksOf(a, Live) # {})})) <= MaxRunning[q]

\* The priority a leaf keeps for an application is the highest one it has
\* pending, and a parent keeps the value of each child, unless two updates
\* overlapped: the value is computed under the lock of the child and applied
\* later under the lock of the parent.
PriorityExact ==
  Quiet =>
    /\ \A a \in Apps : a \in queue[leaf[a]].members =>
         askMaxPriority(a) =
           (IF a \in DOMAIN queue[leaf[a]].items THEN queue[leaf[a]].items[a] ELSE MinPriority)
    /\ "overlap" \notin seen =>
         \A q \in Queues \ {Root} :
           queue[Parent[q]].items[q] = priorityValueByPolicy(q, currentPriority(q))

\* What the queues of a path count is what is below them: resources, and running
\* applications as far as the code counts them.
Counted == TypeOK /\ UsageExact /\ RunningCounted

\* Neither the quota nor the maximum of running applications of a queue is exceeded
\* by what was checked against it.
Bounded == WithinMax /\ RunningWithin

-----------------------------------------------------------------------------
(* Expected of the code by its comments, and not so: see the README.       *)

\* setAllocatingAccepted "tracks the application in accepted state that have
\* placeholders allocated": an entry that is left when the goroutines are
\* done belongs to an application that is still in its leaf queue.
AllocatingTracks ==
  Quiet => \A q \in Queues : \A a \in queue[q].allocating : a \in queue[leaf[a]].members

\* The preempting resource of a queue is that of the allocations below it
\* that are marked as preempted.
PreemptingExact ==
  Quiet => \A q \in Queues :
             queue[q].preempting = Cardinality(Under(q, {k \in Asks : ask[k] = "preempted"}))

=============================================================================
