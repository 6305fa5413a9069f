# Formal model of the YuniKorn scheduler core

TLA+ modules for the scheduling core of Apache YuniKorn (`src/pkg`), the TLC
instances that check them and TLAPS proofs about them. A module is written from
the Go code; where a comment in the code promises something the code does not
do, a violating run shows the behaviour and `PROJECT.json` quotes the comment, or
the section "Where the code differs" says how to get the counterexample.

## The system

The core keeps the state of a cluster in memory: partitions, each with a tree of
queues, nodes and applications. A resource manager (RM, the Kubernetes shim)
sends events; the core answers with allocations and releases.

| Part | State | Operations that change it | Called by |
|---|---|---|---|
| Application (`objects/application.go`, `application_state.go`) | state machine, asks, allocations, totals, two timers, placeholder data | add, remove, allocate, replace, roll back, time out | scheduler, RM handler, timers |
| Reservations (application, node, queue, partition) | key to node, node to keys, count per application and per partition | reserve, unreserve, expire, cancel | scheduler, RM handler, node handler |
| Partition (`partition.go`) | maps of applications and nodes, counters of allocations and placeholders | allocate, update, release, roll back, add and remove applications and nodes | all |
| Node (`objects/node.go`) | capacity, occupied, allocated, available | add, remove, replace, foreign allocations | partition |
| Queue tree (`objects/queue.go`) | allocated, pending, preempting, running and allocating applications, quota, priority, state | increment and decrement up the tree, drain, remove, update configuration | scheduler, RM handler, partition manager |
| Preemption (`objects/preemption.go`, `quota_preemptor.go`, `required_node_preemptor.go`) | victims, trigger flags | select and release victims | scheduler |
| User and group manager (`ugm/`) | trackers per user and group, limits per queue | increase, decrease, configure | applications, configuration |
| Cluster context, scheduler, partition manager (`context.go`, `scheduler.go`, `partition_manager.go`) | partitions, three event channels | dispatch, register, reconfigure, clean up | RM proxy |
| RM proxy (`rmproxy/`) | callbacks per RM | register, forward, notify | RM |
| Event system (`events/`) | ring buffer, streams, store | add, read a range, resize, subscribe | all |
| Placement, resources, configuration, sorting | none | pure functions | partition, queues |

What makes it hard:

- each object has its own lock; one operation takes several of them one after
  the other, and the scheduling cycle, the three event handlers, the timers and
  the callbacks started as goroutines run between any two of them;
- a timer that has expired cannot be stopped any more: its goroutine waits for
  the lock and then finds another state;
- a placeholder swap spans a scheduling cycle, a message to the RM and its
  answer;
- counters in queues, users and the partition are kept in step with the
  applications by separate calls.

`PROJECT.json` lists every place where this bites under `hazards`.

## Modules

| Module | Part |
|---|---|
| `ApplicationOps`, `Application` | life cycle and totals of one application |
| `Reservations`, `ReservationsProofs` | reservations in application, node, queue, partition |
| `Partition` | allocations of an application on nodes, in its queue and in the partition |
| `QueueUsage` | counts and priorities along the path of a queue |
| `Placement`, `QueueTree` | placement rules; the tree of queues while it changes |
| `QueueTracker`, `UserGroupManager` | usage and limits of users and groups |
| `Resources`, `ResourcesProofs` | resource arithmetic |
| `VictimSearch`, `VictimChoice`, `Preemption` | which allocations are preempted, and what happens meanwhile |
| `EventLog`, `RingBuffer`, `EventSystem` | event history, store, publisher and streams |
| `ClusterContext` | registration, event channels, locks, notifications |

Each `MC` module gives the constants of one of them their values. Most
specifications take a *scene* or *instance* in `Init` (which pods exist, what the
RM does, the configurations), so that one run covers several small worlds.

### ApplicationOps, Application

`ApplicationOps` has one operator per method of `Application` that runs with the
application lock held; it takes an application record and gives the next one.
The record has the fields of the struct: `requests`, `sorted` (sortedRequests),
`allocations`, the totals, the timers, and `obj`, the mutable fields of the
shared `Allocation` objects. `eventDesc` and `callbacks` are the state machine;
looplab/fsm is modelled by how the code uses it: an event without transition, or
with a transition to the same state, changes nothing and runs no callback.

A resource is one number and there is one task group. The release requests sent
to the RM are the set `rm`; `usage` is what the user tracker was told.

`Application` makes an action of each critical section. `removeAllocation` and
the recovery of a running pod are two critical sections each, with `rest` in
between. A timer that expires puts its state in `fired` (`phFired` for the
placeholder timer); its body runs later, whatever has happened to the timer
since. Nodes and queues have room or not, freely. The gang scheduling style is
chosen in `Init` from `GangStyles`, the size of the gang from `PlaceholderAsks`.

Constants say what the environment does: `Recovered` (pods that already run),
`Failable` (pods the shim may fail to bind), `Stoppable` (pods the RM ends by
itself), `ReleaseAll` (releases with an empty key), `LateAsks` (pods sent to an
application that has terminated). `MCApplication` chooses in `Init` the pods that are
`sent`; two of its properties are stated for the choices in which they hold.

### Reservations

One action for every call that touches a reservation. The goroutines are `sched`,
`rm` and `node`; `todo[t]` holds the calls goroutine `t` has still to make after the
critical section it has just left, so that any two goroutines interleave between
them. `appRes` and `nodeRes` change together, under the application lock;
`reservedApps` (the leaf queue) and `reservations` (the partition) change later.
An application may terminate at any moment: `cleanupAsks` drops its asks and leaves
its reservations, and the goroutine of the state callback then cuts the queue link
(`UnSetQueue`) and takes the application off the partition (`moveTerminatedApp`);
asks may still arrive in between. `leafQueue` says what is left of the link, and a
call on a nil queue sets `panic`. `MaxCount` bounds the counter: `tryNodes` reserves
only while it is lower. Without it the counter drifts without end when reservations
expire or are preempted. `MCReservations` chooses a `scene`: in "all" asks preempt,
expire and require a node, in "ends" an application terminates, in "plain" nothing of
that happens and the counts are exact. To keep the run small only "plain" has releases
without a key and the removal of a node nothing requires, and the other application
stays in "ends"; the proofs have no such bounds.

### Partition

Where an allocation is accounted for: `app` (its maps and the fields of its
allocation objects), `node` (allocations and usage), `queue`, and the two counters
of the partition. The goroutines are `sched`, `rm` and `node`, with `todo` as in
Reservations. Calls are merged in one step where nothing reads what lies between
them; a pointer that is looked up in one step and used in the next stays two steps
(`GetNode`, `GetNodeIterator`, `allocate`). `Locked` is the application lock the
scheduling cycle holds from the choice of a node to the update of the application.

`fresh`, `live`, `bound` and `swaps` are the RM: pods it has not sent, pods that
exist, the node it was told to run each of them on, and the placeholders it was
asked to release. The shim is assumed to refuse for an allocation every node it
refuses for a reservation. The life cycle of the application and its timers are
left to module Application. A scene is `serial` when one event is handled after the
other; otherwise all goroutines interleave. `orphans` remembers the placeholders whose
swap lost the node of the real pod.

### QueueUsage

Pending, allocated and preempting resource, running and "allocating" applications
and priorities of every queue. A call walks the path of a leaf one queue lock at a
time: `todo[t]` is the rest of the walk of goroutine `t`, one step per critical
section, upwards for the check of `TryIncAllocatedResource` and downwards for the
increase, as the code has it. Applications are reduced to the calls they make on
their queue. `seen` remembers that two priority updates overlapped and that an
application ran without `canRunApp`.

### Placement, QueueTree

`Placement` has the rules (provided, user, fixed, tag, recovery), their parent
rules, filters and the manager's chain as operators on paths; a name is a model
value, and what text tests decide (`RootLike`, `Invalid`) is a set. `QueueTree` adds
an application under the partition lock in the steps of `AddApplication`, applies
configurations, with their access lists, removes the partition and runs the cleaner,
which takes no partition lock. A queue object is a path and a generation, so that a
pointer to a queue that has left the tree differs from its successor. The placement of
an application is one step, although the code takes and releases a lock for every queue
it looks at; what lies between the placement and the addition is modelled. `call`
remembers whether the user had access at some moment of the call, and whether a reload
took place meanwhile.

### QueueTracker, UserGroupManager

`QueueTracker` has the operations on the tree of one user or group, `UserGroupManager`
the calls of the scheduler, the RM goroutine and a reload, step by step between the
locks of the manager and of the trackers. Trackers are objects in `heap`; `map` is
what the manager finds under a name. Wild cards, headroom and the reset of limits follow
the code; `sure` says that nothing the scheduler checked has been
changed by a reload or a release since.

### Resources, VictimSearch, VictimChoice, Preemption

`Resources` has the sparse resources with nil, saturating arithmetic, the various
comparisons and fits. `VictimSearch` walks the tree from the preemption fence to the
leaves and computes on snapshots; `VictimChoice` picks the victims for an ask
(both passes, the node, the additional victims), for a required node and for a quota.
The answer of the shim's predicate is free. `Preemption` runs the three preemptors
step by step beside releases, replacements, recoveries and changes of the
configuration. The order in which queues, leaves and nodes are visited, and which of
the equally good nodes is taken, are free choices. Allocations are sorted by creation
time last, and those of a scene all differ in it, so the sorts meet no ties. The share
of a leaf in an excess (`ChildShare`) is an exact division; the code computes it in
float64, which gives the same result for all quantities up to 21, more than the scenes
have.

### EventLog, RingBuffer, EventSystem

`EventLog` is what a reader of the history may rely on: the newest events, oldest
first, under the identifiers they got. `RingBuffer` has the positions, the wrapped
head and the resize offset of the code, on unsigned words. `EventSystem` extends it
with the goroutines around it. The callback of the RM is registered at any moment
after the publisher has started (`RegisterSchedulerPlugin`); until then the publisher
collects events and pushes them to nobody. `ImplementsLog` is the refinement: `held`, `first` and
`size` are computed from the buffer, and every step of the event system is a step of
the log or leaves it alone.

### ClusterContext

The context lock, the proxy lock, the three event channels and the channel to the
RM, with one record `thr[t]` for every goroutine. Requests are sent by RM threads in
the order the scene gives. Partitions are objects with a number, with the sets of
applications, nodes, asks and allocations in them, the swaps of placeholders and the
other allocations the RM was asked to stop. Replacing a placeholder is told as a
release first; the real pod is told once the RM has confirmed it, or once the node of
the placeholder has gone. Time-outs and preemption announce a release from the
scheduling loop or from a goroutine of their own (`notifyRMAllocationReleased`); the
allocation stays until the RM confirms. The pods an RM event confirms are told in one
message, the code sends one each; placeholder asks that time out before they are
allocated are left to module Application. An event that does not fit its channel is
dropped (`dropped`), as `enqueueAndCheckFull` does.

## Runs

Deadlock checks are off: a scene that has been played to its end, an application
that has expired and a service that was stopped have nothing left to do. All runs
are exhaustive for their instance. A property that joins several, such as `Totals`,
is the conjunction of the definitions just above it in its module, `TypeOK` included.

| Run | Instance | Shows |
|---|---|---|
| Application | two batch pods; two placeholders (one recovered) with two real pods, one too large; a placeholder, its real pod and a pod outside the group, with both styles and all inputs | `Totals` (pending, allocated, and without releases of everything and late asks what the user tracker knows), `SwapInFlight`, `PendingIsScheduled` |
| ApplicationBatch | two batch pods, all stoppable, preemptable and failable | `NoForgottenPod`, `EndsClean` (no nil pointer, a terminated application holds nothing), `CompletingIsLeft` |
| Reservations | two applications, two nodes, asks that preempt, require a node, expire; an application that terminates while its ask comes and reserves | `Symmetric`, `RequiredNodeOnly`, `ReservedIsRequest` (only in a terminated application a reservation outlives its ask), `Covered` (no counter is too low); without those `UndisturbedExact` (counts are exact, no ask reserves twice) |
| Partition | two nodes; serially: two placeholders, a smaller real pod, a pod outside the group, both nodes may leave; interleaved: one placeholder, its real pod, another pod, one node may leave | serially `Accounted` (node and queue), `Counted` (counters), `PanicOnlyOrphan` (a nil pointer only when the real pod of a swap lost its node); interleaved `NeverOverspent` (node and quota) |
| QueueUsage | root, parent with a quota, two leaves; two applications, three asks; priorities at the limits | `Counted` (usage and running applications), `ReleaseNeverRefused`, `Bounded` (quota and running limit), `PriorityExact` |
| QueueTree | seven scenes of up to three configurations and two applications | `TreeAsConfigured`, `PlacedAllowed` (leaf, access and state of the queue an application joins), `QueuesInUseStay`, `CleanedUp` |
| UserGroupManager | limits of a user, of a group, of wild cards, each reloaded once, four calls | `UsageTracked`, `LimitsKept`, `WithinLimits` |
| Preemption | seven scenes: priorities and fences, guarantees of two types on two nodes, a required node, quotas of a leaf, of a parent and of a parent with two types, a quota beside an ask | `VictimsJustified` (priority and guarantee), `NodeFits`, `MarkedIsNotified`, `QuotaStopsAtMax`, `ArmedHasLimit` |
| Events | eight instances: up to five events in a buffer of two or three, resizes, overlapping reloads, a callback that is registered late, one or two streams | `StreamsExact` (delivery and limiter), `PushedOnce`, `TailQueryExact`, `ImplementsLog`, `NobodyWaits` (reloads and removed streams end) |
| Context | scenes with one or two RM threads: work, swaps of a placeholder on two nodes, announced releases, reloads that fail or not, registering again, full channels, stop | `PartitionsExact`, `KnownIsAccepted`, `Synced`, `ApplicationAnswered` |
| PreemptionPriority (violation) | a priority offset on the queue above ask and victim | a victim of a higher priority is taken |
| ContextRegister (violation) | a registered RM registers again | the registration never returns |

Bounds. Two pods let a rollback, a release and a timer overlap on different pods,
and a pod come back to an application that is completing; two placeholders
distinguish the last one going from one of several; one oversized request exercises
the cancel path. Two keys in two applications on two nodes are the smallest
instance in which one ask cancels the reservation of another, moves its own, or
loses its node or application while the other is served; in the scene "ends" one ask
sent at any moment is enough to reserve between the end of its application and the cut
of the queue link, while the other application is served; `MaxCount` 2 is one more
than an exact count would need. In Partition two nodes, of which one does not fit
everything, give swaps on the same and on another node. A path of three queues
(QueueUsage, QueueTree, UserGroupManager) has a queue between leaf and root, and two
leaves below it make walks meet at different places. `MaxGen` lets a path be created
three times: removed and created again while a third party still holds the first
object. `MaxLive` lets a tracker be replaced twice. A buffer of two with five events
wraps more than once before and after a resize. With four
events a stream may be removed while its forwarder holds one of them. The size
of the store, which only the publisher empties, changes in the instance with it. Channels of one overflow, channels
of eight do not. `Half` is 128 in place of 2^63: sums of the scenes do not come near
it, and the proofs cover every width.

Fairness. Application: a timer that is armed expires, a goroutine that waits for the
lock gets it, the RM answers a release request, the RM handler finishes its event. Go's
runtime timers and mutexes give the first two, the RM protocol the third, and the
handler is a loop without blocking calls. EventSystem: every goroutine of the
system and every stream request goes on when it can; the forwarder, in whose `select`
the stop signal competes with events, takes the signal if it is offered again and
again (Go chooses among the ready cases at random). QueueTree: the cleaner runs
periodically. ClusterContext: some goroutine that can work does. It is enough, since
nothing in a scene works for ever, and it is the weakest form. Nowhere is the
scheduler assumed to place a pod or the RM to send anything.

## Where the code differs

Two violating runs are part of the project:

- **ContextRegister.** `removePartitionsByRMID` stops the partition manager with the
  context lock held; `Stop` removes the partition, which takes the same lock. An RM
  that registers a second time, or a reload that drops a partition
  (`updateSchedulerConfig`), hangs, and with it everything that needs the context.
- **PreemptionPriority.** The priority of an ask that `findPreemptionFenceRoot` stores
  for a queue has the offset of that queue added; the children of the queue are
  compared with it although their priorities have not. An offset on the queue above
  both lets an ask preempt an allocation of a higher priority.

The following were met while modelling and followed in the code. Where a definition
is named, putting it into the cfg of the run as INVARIANT or PROPERTY gives the
counterexample; it stands in its module under "Expected of the code by its comments,
and not so".

Application and reservations:
- A gang whose last real pod ends while a placeholder is being swapped completes,
  and the confirmed pod is added to it afterwards (`TerminatedHoldsNothing`, run
  Application; application.go:2122). A placeholder timeout forgets the pod of a swap
  in flight (`NoForgottenPod`, run Application).
- A placeholder timer that has fired and waits for the lock releases the real pods
  of an application that is running by then (`RunningContinues`, application.go:410).
- A recovered pod that is rolled back is never scheduled, and a placeholder that is
  rolled back is taken off the wrong total (recovered pods or placeholders in
  `Failable`). An event between `UnSetQueue` and the removal from the map finds no
  queue (`LateAsks`); a release of everything clears the timer of Completing and
  leaves the user tracker too high (`ReleaseAll`).
- An expired reservation stays in the count of the partition (`CountExact`, run
  Reservations; application.go:1571). Cancelled reservations are lost from the count
  when the application has gone; preemption gives a reserved ask a second node, and
  moving the reservation off a node that has just gone dereferences nil (`NoPanic`).
- Reservations outlive an application that ends with one: `cleanupAsks` drops the asks
  only (application.go:2334). A gang of the hard style whose placeholders time out is
  Failing until the last of them is released, and an ask may reserve meanwhile. The
  node then stays reserved and the leaf keeps its entry, at which `TryReservedAllocate`
  returns without looking at the other applications of the leaf (queue.go:1869);
  removing the node or cancelling the reservation calls `UnReserve` on a nil queue
  (`NoPanic` in the scene "ends").

Partition:
- When the node of a real pod that waits for its placeholder on another node is
  removed, the confirmation of the placeholder dereferences nil (`~panic`;
  partition.go:1596). Removing the application leaves such a pod on its node.
- A queue over its quota (`queueMax` 3 with b1 recovered) refuses the decrease when
  the removal of a node confirms a swap to a smaller pod (`QueueExact`,
  partition.go:740).
- Interleaved, the exact properties do not hold. A pod stopped between `tryNode` and
  `allocate` stays charged to node and queue; a stop that finds its node gone leaves
  the queue charged; an allocation made on a node whose removal has already listed
  its allocations is made pending again and stays in application and queue; removing
  the application while one of its nodes is removed may decrease the queue twice, so
  `QueueCovers` is stated for a registered application. An RM placement of a pending
  ask may overwrite the node the scheduler has just chosen (partition.go:1317).
- The counter of placeholders is only a bound: removing the application, rolling a
  placeholder back and confirming a swap by the removal of a node do not decrease it.

Queues and placement:
- The parents of a leaf keep the slot of an application that is removed while it
  holds placeholders (`AllocatingTracks`, run QueueUsage).
- A victim that stops after it is chosen and before its queue is told is still added to
  the preempting resource of the queue, which then keeps it (`PreemptingExact`,
  preemption.go:679-681).
- The cleaner removes an empty dynamic queue between its lookup by `AddApplication`
  and the addition of the application (`AppsInTree`, run QueueTree; partition.go:344),
  and `AddApplication` does not look at the state of the queue again (queue.go:790).
  A queue the cleaner has decided on may also be one a reload has just configured.
- A reload between the placement and the addition may take the access away or drain the
  queue. Access to a queue that exists is not looked at again, access to one that has to
  be created is, under the partition lock (`PlacedAllowed` without its case for a reload;
  partition.go:337).
- The root can be removed by the cleaner when the partition goes (`RootKept`); a path
  whose first part is not the root ends the walk up in a nil queue (`WalkUpEnds`); an
  application may ask for the recovery queue by name (`RecoveryOnlyForced`).

Users and groups:
- `Headroom`, `CanRunApp` and `IncreaseTrackedResource` look a user tracker up twice
  and find it gone the second time (`TrackerCreated`, run UserGroupManager;
  manager.go:232).
- A reload sets limits first and then unlinks idle trackers below a queue that lost
  its limit, limits just set included (`LimitsApplied`, manager.go:511).

Preemption:
- A parent queue whose usage has dropped to its maximum between the trigger and the
  goroutine of quota preemption meets a nil resource (`QuotaSurvives`, with
  `Scenes <- MCQuotaParent`; quota_preemptor.go:198).
- Quota preemption may take an originator before other pods (`OptedInFirst`); marks of
  a failed attempt for an ask also erase marks of quota preemption.
- With several resource types a leaf whose guarantee does not name a type gets a share
  without that type, and its victims are not limited in it: more than the excess is
  preempted (`QuotaStopsAtMax` without `Reaches`; quota_preemptor.go:174, 197).
- `strings.HasPrefix` on queue paths takes root.ab for a queue below root.a
  (preemption.go:815). With two resource types `FinalVictims` may stop before the ask
  fits, so `NodeFits` is stated for one. A change of maximum and delay together may
  leave the start of a quota preemption as it was.

Events:
- Events published between the registration of a stream and the reading of its
  history are delivered twice when the history is shorter than they are (`NoDoubling`,
  run Events; event_streaming.go:124).
- A query with a small count from an identifier stored after the head of a full buffer
  returns other events (`QueryExact`, run Events).
- Of two overlapping reloads the older capacities may be applied last.
- The publisher starts before the RM registers its callback. What it collects before
  that is discarded (event_publisher.go:67): the events of the creation of partitions
  and queues may never reach the shim, although streams and queries have them.

Cluster context:
- A release may overtake the notification of its allocation (`crossed`): the RM is
  left with a pod that no longer exists in the core; `Synced` allows for it.
- An update of the configuration that fails half way leaves the settings of the
  partitions it reached, and going back to the stored configuration is skipped, as
  its checksum has not changed. A registration that fails leaves partitions behind,
  and the next one is refused.
- The RM hears of a release while the partition still holds the allocation: a swap, a
  time-out and a preemption are requests to stop the pod, which the RM confirms.
  `Synced` allows for a pod it was asked to stop. A swap whose real pod has lost its
  node dies on the confirmation, as in Partition.
- Removing a partition does not tell the RM of the allocations released. Stopping a
  partition manager twice closes a closed channel.

## Proofs

`ReservationsProofs` proves, for any finite set of keys and any sets of
applications and nodes: `TypeOK`, `Symmetric`, `NodeExclusive`,
`ReservedIsRequest`, `RequiredNodeOnly` and `NothingToCancel` are invariants of
`Spec`, in which applications terminate at any moment. The only assumption is `ReservationsAssumption`, which gives the constants
their types.

The inductive invariant is `IInv == TypeOK /\ MapsOK /\ OpsOK`. `MapsOK` is the
conjunction of the four invariants on `appRes`, `nodeRes`, `requests` and `terminated`:
they need each other, as the check in `Node.Reserve` reads the node's map while the removals
read the application's. `OpsOK` says that no call still to be made would reserve
for an ask a node other than the one it requires; without it `Application.Reserve`,
which does not look at the required node, would break `RequiredNodeOnly`. The
critical sections that change the maps are two, reserving one ask and unreserving a
set of asks; there is one lemma for each, and every action is shown to be one of
them or to leave the maps alone. The end of an application drops asks without touching
the maps, and is what the case of `terminated` is for. `NothingToCancel` follows from
`MapsOK`.

`NodeExclusive` and `NothingToCancel` are guarded twice in the code (once when a
node is chosen, once in `Node.Reserve`).

`ResourcesProofs` proves for integers of every width (`HalfAssumption`: it is
positive) that `addVal` finds every overflow and returns the quantity closest to the
sum (`AddSaturates`), that `subVal` does so for the difference unless it subtracts the
smallest quantity, which has no negative (`SubSaturates`), that adding resources does
it type by type (`AddOfResources`), and that fitting in the merged maximum of two
queues is fitting in both (`MinFitsBoth`). The argument is a case split on the true
sum: within range, above, below; two's complement is off by one period in the last
two (`WrappedNear`).

Only model-checked: the counters of Reservations, all other modules, the refinement
of `EventLog`, and all liveness, which is out of reach of the prover.

## Not modelled

- Resizing of allocations, foreign allocations, changes of the capacity and of the
  schedulable flag of a node: sequential updates of one object.
- The order in which queues, applications, asks and nodes are tried: the models allow
  every order, so what they show holds for each sorting policy; the policies
  themselves are not checked.
- More than one task group per application; the shim's predicates (their answers
  are free); text: unit parsing, YAML, names with dots, ACL syntax.
- Configuration validation, which runs before anything changes; health checks and
  usage monitors, which only read; security lookups, metrics, logging, the lock
  wrappers, the REST handlers other than event streaming, and the commands.
