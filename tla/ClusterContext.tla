--------------------------- MODULE ClusterContext ---------------------------
(***************************************************************************)
(* The goroutines around the partitions and the locks and channels between *)
(* them: threads of the RM call the RMProxy, which passes their requests   *)
(* on through three channels of the Scheduler; a goroutine per channel     *)
(* handles them; the scheduling loop allocates; the proxy goroutine tells  *)
(* the RM what happened, and whoever told it of an allocation waits for    *)
(* that.  The context lock guards the partitions, the proxy lock is held   *)
(* for as long as a registration takes.                                    *)
(*                                                                         *)
(* A partition that is created again is a new object with a new number.    *)
(* What is in a partition is reduced to its applications, nodes, asks,     *)
(* allocations, the placeholders being replaced, each with the ask that    *)
(* replaces it, and the other allocations the RM is asked to stop (see     *)
(* Partition for what its calls really do).  A scene has                   *)
(*   conf[c]    the partitions of a configuration in order, each valid or  *)
(*              not for newPartitionContext;                               *)
(*   home[x]    the partition of an application or node;                   *)
(*   app[k]     the application of the pod k, node[k] the node it is on    *)
(*              already, or "", ph the pods that are placeholders;         *)
(*   calls[r]   the calls a thread r of the RM makes, in order;            *)
(*   size       the capacity of the channels;                              *)
(*   stops      the service is stopped;                                    *)
(*   announces  placeholders time out, allocations are preempted.          *)
(***************************************************************************)
EXTENDS Integers, Sequences, FiniteSets, SequencesExt, TLC

CONSTANTS None, Scenes

VARIABLES
  Sc,          \* the scene
  partitions,  \* ClusterContext.partitions: from names to partition objects
  part,        \* the partition objects, by number
  closed,      \* those whose manager was stopped
  stored,      \* configs.ConfigContext
  failed,      \* an update of the configuration has failed
  ccLock,      \* the goroutine that holds the context lock
  rmLock,      \* the thread that holds the proxy lock
  callback,    \* RMProxy.rmIDToCallback is set
  chan,        \* the pending event channels
  rmq,         \* RMProxy.pendingRMEvents
  thr,         \* where each goroutine is
  told,        \* what the RM knows: applications and nodes accepted, pods that run,
               \* the swaps and stops it was asked for
  on,          \* the node of each pod, or ""
  sure,        \* the pods sent when the RM knew their application and node
  refused,     \* the pods that were rejected
  gone,        \* what was removed
  crossed,     \* the pods whose release was told before their allocation
  dropped,     \* an event was dropped
  down         \* Scheduler.stop is closed

dataVars == <<part, closed, partitions>>
lockVars == <<ccLock, rmLock>>
confVars == <<stored, failed>>
history == <<sure, refused, gone, crossed>>
vars == <<Sc, dataVars, confVars, lockVars, callback, chan, rmq, thr, told, on, history, dropped, down>>

Callers == DOMAIN Sc.calls
Channels == {"alloc", "infra", "node"}
Threads == Channels \cup {"sched", "app", "proxy", "stop"} \cup Callers
Idle == [pc |-> "idle"]
Empty == [apps |-> {}, nodes |-> {}, asks |-> {}, allocs |-> {}, swaps |-> {}, stops |-> {}]

Init ==
  /\ Sc \in Scenes
  /\ partitions = <<>> /\ part = <<>> /\ closed = {} /\ stored = None /\ failed = FALSE
  /\ ccLock = None /\ rmLock = None /\ callback = FALSE
  /\ chan = [c \in Channels |-> <<>>] /\ rmq = <<>>
  /\ thr = [t \in Threads |-> IF t \in Callers THEN [pc |-> "idle", at |-> 1] ELSE Idle]
  /\ told = Empty /\ on = Sc.node
  /\ sure = {} /\ refused = {} /\ gone = {} /\ crossed = {} /\ dropped = FALSE /\ down = FALSE

Go(t, r) == thr' = [thr EXCEPT ![t] = r]

\* enqueueAndCheckFull: an event that finds the channel full is dropped.
IsFull(queue) == Len(queue) >= Sc.size
Enqueued(queue, ev) == IF IsFull(queue) THEN queue ELSE Append(queue, ev)

-----------------------------------------------------------------------------
(* RMProxy: the calls of the RM                                            *)

Call(r) == Sc.calls[r][thr[r].at]
Ready(r, op) == thr[r].pc = "idle" /\ thr[r].at <= Len(Sc.calls[r]) /\ Call(r).op = op
Returned(r) == [pc |-> "idle", at |-> thr[r].at + 1]
Send(c, ev) ==
  /\ chan' = [chan EXCEPT ![c] = Enqueued(@, ev)]
  /\ dropped' = (dropped \/ IsFull(chan[c]))

\* An RM that is known is cleaned up first.
RegisterResourceManager(r) ==
  /\ Ready(r, "register") /\ rmLock = None
  /\ rmLock' = r
  /\ IF callback THEN Send("infra", [op |-> "remove", x |-> Call(r).x, from |-> r]) ELSE UNCHANGED <<chan, dropped>>
  /\ Go(r, [pc |-> IF callback THEN "removing" ELSE "clean", at |-> thr[r].at])
  /\ UNCHANGED <<Sc, dataVars, confVars, ccLock, callback, rmq, told, on, history, down>>

sendRegistration(r) ==
  /\ thr[r].pc = "clean"
  /\ Send("infra", [op |-> "register", x |-> Call(r).x, from |-> r])
  /\ Go(r, [pc |-> "registering", at |-> thr[r].at])
  /\ UNCHANGED <<Sc, dataVars, confVars, lockVars, callback, rmq, told, on, history, down>>

registered(r) ==
  /\ thr[r].pc = "answered"
  /\ callback' = (callback \/ thr[r].ok)
  /\ rmLock' = None
  /\ Go(r, Returned(r))
  /\ UNCHANGED <<Sc, dataVars, confVars, ccLock, chan, rmq, told, on, history, dropped, down>>

UpdateConfiguration(r) ==
  /\ Ready(r, "config")
  /\ Send("infra", [op |-> "config", x |-> Call(r).x, from |-> r])
  /\ Go(r, [pc |-> "updating", at |-> thr[r].at])
  /\ UNCHANGED <<Sc, dataVars, confVars, lockVars, callback, rmq, told, on, history, down>>

\* UpdateAllocation, UpdateApplication and UpdateNode: refused before the
\* registration, passed on after it.  The RM confirms the stop of a pod that it
\* was asked for, as "replaced" or as "confirm" (time-out or preemption).
Update(r) ==
  LET c == Call(r)
      to == IF c.op \in {"create", "decommission"} THEN "node" ELSE "alloc"
      known == c.op = "pod" /\ Sc.app[c.x] \in told.apps /\ Sc.node[c.x] \in told.nodes \cup {""}
  IN  /\ \E op \in {"app", "removeApp", "pod", "release", "replaced", "confirm", "create", "decommission"} : Ready(r, op)
      /\ c.op = "replaced" => \E s \in told.swaps : s[2] = c.x
      /\ c.op = "confirm" => c.x \in told.stops
      /\ rmLock = None
      /\ IF callback THEN Send(to, [op |-> c.op, x |-> c.x, from |-> r]) ELSE UNCHANGED <<chan, dropped>>
      /\ sure' = IF callback /\ known THEN sure \cup {c.x} ELSE sure
      /\ Go(r, Returned(r))
      /\ UNCHANGED <<Sc, dataVars, confVars, lockVars, callback, rmq, told, on, refused, gone, crossed, down>>

-----------------------------------------------------------------------------
(* RMProxy.handleRMEvents                                                  *)

\* Mutant: nobody is told that the event was handled.
NoReply ==
  LET ev == Head(rmq)
  IN  /\ thr["proxy"].pc = "idle" /\ rmq # <<>> /\ rmLock = None
      /\ rmq' = Tail(rmq)
      /\ told' = IF callback THEN [f \in DOMAIN told |-> (told[f] \cup ev.news[f]) \ ev.over[f]] ELSE told
      /\ UNCHANGED <<Sc, dataVars, confVars, lockVars, callback, chan, thr, on, history, dropped, down>>

\* An event has what is new, what is over, and who waits for the answer, or None.
handleRMEvents ==
  LET ev == Head(rmq)
  IN  /\ thr["proxy"].pc = "idle" /\ rmq # <<>> /\ rmLock = None
      /\ rmq' = Tail(rmq)
      /\ told' = IF callback THEN [f \in DOMAIN told |-> (told[f] \cup ev.news[f]) \ ev.over[f]] ELSE told
      /\ IF ev.waiter = None THEN UNCHANGED thr ELSE Go(ev.waiter, thr[ev.waiter].next)
      /\ UNCHANGED <<Sc, dataVars, confVars, lockVars, callback, chan, on, history, dropped, down>>

\* The goroutine t sends its event to the proxy and, if it is about
\* allocations, waits until the RM has it.
HandleEvent(t) ==
  LET me == thr[t]
      sync == me.news.allocs \cup me.over.allocs # {}
      coming(r) == IF r.pc = "tell" THEN r.news.allocs ELSE {}
      untold == UNION {coming(thr[u]) \cup IF thr[u].pc \in {"tell", "wait"} THEN coming(thr[u].next) ELSE {} : u \in DOMAIN thr}
  IN  /\ me.pc = "tell"
      /\ rmq' = Enqueued(rmq, [news |-> me.news, over |-> me.over, waiter |-> IF sync THEN t ELSE None])
      /\ dropped' = (dropped \/ IsFull(rmq))
      /\ crossed' = crossed \cup (me.over.allocs \cap untold)
      /\ Go(t, IF sync THEN [pc |-> "wait", next |-> me.next] ELSE me.next)
      /\ UNCHANGED <<Sc, dataVars, confVars, lockVars, callback, chan, told, on, sure, refused, gone, down>>

Tell(news, over, next) == [pc |-> "tell", news |-> news, over |-> over, next |-> next]

-----------------------------------------------------------------------------
(* Scheduler: a goroutine per channel                                      *)

Take(c) ==
  /\ thr[c].pc = "idle" /\ chan[c] # <<>>
  /\ chan' = [chan EXCEPT ![c] = Tail(@)]
  /\ Go(c, [pc |-> "took", ev |-> Head(chan[c])])
  /\ UNCHANGED <<Sc, dataVars, confVars, lockVars, callback, rmq, told, on, history, dropped, down>>

\* A goroutine that sees the closed stop channel ends, whatever is pending.
Exit(t) ==
  /\ down /\ thr[t].pc = "idle"
  /\ Go(t, [pc |-> "exit"])
  /\ UNCHANGED <<Sc, dataVars, confVars, lockVars, callback, chan, rmq, told, on, history, dropped, down>>

GetPartition(c) ==
  LET ev == thr[c].ev
      name == Sc.home[IF ev.op \in {"pod", "release", "replaced", "confirm"} THEN Sc.app[ev.x] ELSE ev.x]
  IN  /\ thr[c].pc = "took" /\ ccLock = None
      /\ Go(c, [pc |-> "at", ev |-> ev, p |-> IF name \in DOMAIN partitions THEN partitions[name] ELSE 0])
      /\ UNCHANGED <<Sc, dataVars, confVars, lockVars, callback, chan, rmq, told, on, history, dropped, down>>

At(c, op) == thr[c].pc = "at" /\ thr[c].ev.op = op
With(f, x) == [Empty EXCEPT ![f] = {x}]
Runs(ks) == [Empty EXCEPT !.allocs = ks]

\* Mutant: the error of AddApplication is not looked at.
AcceptedAnyway ==
  LET x == thr["alloc"].ev.x
      p == thr["alloc"].p
  IN  /\ At("alloc", "app") /\ p # 0
      /\ \E ok \in BOOLEAN : part' = IF ok THEN [part EXCEPT ![p].apps = @ \cup {x}] ELSE part
      /\ Go("alloc", Tell(With("apps", x), Empty, Idle))
      /\ UNCHANGED <<Sc, closed, partitions, confVars, lockVars, callback, chan, rmq, told, on, history, dropped, down>>

\* handleRMUpdateApplicationEvent, a new application: rejected without its
\* partition, by the user or the placement (either may happen), or as a
\* duplicate.
addApplication ==
  LET x == thr["alloc"].ev.x
      p == thr["alloc"].p
  IN  /\ At("alloc", "app")
      /\ \E ok \in BOOLEAN :
           /\ ok => p # 0 /\ x \notin part[p].apps
           /\ part' = IF ok THEN [part EXCEPT ![p].apps = @ \cup {x}] ELSE part
           /\ Go("alloc", Tell(IF ok THEN With("apps", x) ELSE Empty, Empty, Idle))
           /\ refused' = IF ok THEN refused ELSE refused \cup {x}
      /\ UNCHANGED <<Sc, closed, partitions, confVars, lockVars, callback, chan, rmq, told, on, sure, gone, crossed, dropped, down>>

Pods == DOMAIN Sc.app

\* Mutant: only what was the only allocation is told.
ToldOfOne(released) == IF Cardinality(released) = 1 THEN released ELSE {}

\* The RM is told of the exact released allocations.
Released(released) == released

\* The partition p has become r: the RM is told of what was released, then of
\* the allocations that are confirmed by it.
TakeOut(c, p, r, xs, released, confirmed) ==
  LET then == IF confirmed = {} THEN Idle ELSE Tell(Runs(confirmed), Empty, Idle)
  IN  /\ part' = [part EXCEPT ![p] = r]
      /\ gone' = gone \cup xs
      /\ Go(c, IF released = {} THEN then ELSE Tell(Empty, Runs(Released(released)), then))
      /\ UNCHANGED <<Sc, closed, partitions, confVars, lockVars, callback, chan, rmq, told, on, sure, refused, crossed, dropped, down>>

removeApplication ==
  LET x == thr["alloc"].ev.x
      p == thr["alloc"].p
      pods == {k \in Pods : Sc.app[k] = x}
      r == [part[p] EXCEPT !.apps = @ \ {x}, !.asks = @ \ pods, !.allocs = @ \ pods, !.stops = @ \ pods,
                           !.swaps = {s \in @ : s[1] \notin pods}]
  IN  At("alloc", "removeApp") /\ p # 0 /\ TakeOut("alloc", p, r, {x}, part[p].allocs \cap pods, {})

Without(p, x) == [part[p] EXCEPT !.asks = @ \ {x}, !.allocs = @ \ {x}, !.stops = @ \ {x}]

\* The RM stops a pod, or confirms that it has stopped one it was asked to stop.
processAllocationReleases ==
  LET x == thr["alloc"].ev.x
      p == thr["alloc"].p
  IN  /\ At("alloc", "release") \/ At("alloc", "confirm")
      /\ p # 0
      /\ TakeOut("alloc", p, Without(p, x), {x}, IF At("alloc", "release") THEN part[p].allocs \cap {x} ELSE {}, {})

\* The RM has stopped a placeholder that is replaced: the pod that takes its
\* place is confirmed.  Without one (its node is gone) nil is dereferenced.
replacePlaceholder ==
  LET h == thr["alloc"].ev.x
      p == thr["alloc"].p
      swaps == {s \in part[p].swaps : s[2] = h}
      real == {s[1] : s \in swaps}
      r == [Without(p, h) EXCEPT !.asks = @ \ real, !.allocs = @ \cup real, !.swaps = @ \ swaps]
  IN  /\ At("alloc", "replaced") /\ p # 0
      /\ IF h \in part[p].allocs /\ swaps = {}
         THEN /\ Go("alloc", [pc |-> "panic"])
              /\ UNCHANGED <<Sc, dataVars, confVars, lockVars, callback, chan, rmq, told, on, history, dropped, down>>
         ELSE IF h \in part[p].allocs THEN TakeOut("alloc", p, r, {h}, {}, real)
         ELSE TakeOut("alloc", p, Without(p, h), {h}, {}, {})

\* updateNode with the action DECOMISSION.  A placeholder that is replaced by a
\* pod on another node is gone, which confirms that pod; a pod that waits on this
\* node, or whose placeholder goes with it, is asked for again.
removeNode ==
  LET n == thr["node"].ev.x
      p == thr["node"].p
      here == {k \in part[p].allocs : on[k] = n}
      confirmed == {s \in part[p].swaps : s[2] \in here /\ on[s[1]] # n}
      undone == {s \in part[p].swaps : on[s[1]] = n /\ (s[2] \in here \/ on[s[2]] # n)}
      real == {s[1] : s \in confirmed}
      r == [part[p] EXCEPT !.nodes = @ \ {n}, !.asks = @ \ real, !.allocs = (@ \ here) \cup real, !.stops = @ \ here,
                           !.swaps = @ \ (confirmed \cup undone)]
  IN  At("node", "decommission") /\ p # 0 /\ n \in part[p].nodes /\ TakeOut("node", p, r, {n}, here, real)

\* Nothing to do: no partition, or no such node.
Skip(c) ==
  LET ev == thr[c].ev
      p == thr[c].p
  IN  /\ thr[c].pc = "at"
      /\ \/ ev.op \in {"removeApp", "release", "replaced", "confirm"} /\ p = 0
         \/ ev.op = "decommission" /\ (p = 0 \/ ev.x \notin part[p].nodes)
      /\ Go(c, Idle)
      /\ UNCHANGED <<Sc, dataVars, confVars, lockVars, callback, chan, rmq, told, on, history, dropped, down>>

\* processNodes with the action CREATE
addNode ==
  LET n == thr["node"].ev.x
      p == thr["node"].p
      ok == p # 0 /\ n \notin part[p].nodes
  IN  /\ At("node", "create")
      /\ part' = IF ok THEN [part EXCEPT ![p].nodes = @ \cup {n}] ELSE part
      /\ Go("node", Tell(IF ok THEN With("nodes", n) ELSE Empty, Empty, Idle))
      /\ UNCHANGED <<Sc, closed, partitions, confVars, lockVars, callback, chan, rmq, told, on, history, dropped, down>>

\* A pod without a node is an ask, one with a node is allocated at once; it is
\* rejected without its partition, application or node.
processAllocations ==
  LET k == thr["alloc"].ev.x
      p == thr["alloc"].p
      ok == p # 0 /\ Sc.app[k] \in part[p].apps /\ Sc.node[k] \in part[p].nodes \cup {""}
      f == IF Sc.node[k] = "" THEN "asks" ELSE "allocs"
  IN  /\ At("alloc", "pod")
      /\ part' = IF ok THEN [part EXCEPT ![p][f] = @ \cup {k}] ELSE part
      /\ refused' = IF ok THEN refused ELSE refused \cup {k}
      /\ Go("alloc", IF ok /\ f = "asks" THEN Idle ELSE Tell(IF ok THEN Runs({k}) ELSE Empty, Empty, Idle))
      /\ UNCHANGED <<Sc, closed, partitions, confVars, lockVars, callback, chan, rmq, told, on, sure, gone, crossed, dropped, down>>

-----------------------------------------------------------------------------
(* ClusterContext.schedule                                                 *)

Replacing(i) == {s[1] : s \in part[i].swaps}
Replaced(i) == {s[2] : s \in part[i].swaps}
Pending(i) == part[i].asks \ Replacing(i)

\* One cycle walks over a copy of the partitions.
GetPartitionMapClone ==
  /\ thr["sched"].pc = "idle" /\ ccLock = None
  /\ \E i \in Range(partitions) : Pending(i) # {}
  /\ Go("sched", [pc |-> "walk", todo |-> Range(partitions)])
  /\ UNCHANGED <<Sc, dataVars, confVars, lockVars, callback, chan, rmq, told, on, history, dropped, down>>

\* Some ask gets some node, or none does.  An ask of an application with
\* placeholders (all of one task group) replaces one of them: the RM is to stop
\* that, the pod itself is not told before it has.
schedule ==
  LET todo == thr["sched"].todo
      Rest(i) == IF todo = {i} THEN Idle ELSE [pc |-> "walk", todo |-> todo \ {i}]
      placeholders(i, k) == {h \in part[i].allocs \cap Sc.ph : Sc.app[h] = Sc.app[k]}
  IN  /\ thr["sched"].pc = "walk"
      /\ \E i \in todo :
           \/ /\ \/ Pending(i) = {} \/ part[i].nodes = {}
                 \/ \E k \in Pending(i) : placeholders(i, k) # {}
              /\ Go("sched", Rest(i))
              /\ UNCHANGED <<part, on>>
           \/ \E k \in Pending(i), n \in part[i].nodes :
                /\ on' = [on EXCEPT ![k] = n]
                /\ \/ /\ placeholders(i, k) = {}
                      /\ part' = [part EXCEPT ![i].asks = @ \ {k}, ![i].allocs = @ \cup {k}]
                      /\ Go("sched", Tell(Runs({k}), Empty, Rest(i)))
                   \/ \E h \in placeholders(i, k) \ (part[i].stops \cup Replaced(i)) :
                        /\ part' = [part EXCEPT ![i].swaps = @ \cup {<<k, h>>}]
                        /\ Go("sched", Tell(With("swaps", <<k, h>>), Runs({h}), Rest(i)))
      /\ UNCHANGED <<Sc, closed, partitions, confVars, lockVars, callback, chan, rmq, told, history, dropped, down>>

\* Application.notifyRMAllocationReleased: a placeholder times out, or an
\* allocation is preempted by the scheduling loop or by a goroutine for a quota.
\* It stays until the RM confirms.
notifyRMAllocationReleased(t) ==
  /\ Sc.announces /\ thr[t].pc = IF t = "sched" THEN "walk" ELSE "idle"
  /\ \E i \in DOMAIN part : \E k \in part[i].allocs \ (part[i].stops \cup Replaced(i)) :
       /\ part' = [part EXCEPT ![i].stops = @ \cup {k}]
       /\ Go(t, Tell(With("stops", k), Runs({k}), thr[t]))
  /\ UNCHANGED <<Sc, closed, partitions, confVars, lockVars, callback, chan, rmq, told, on, history, dropped, down>>

-----------------------------------------------------------------------------
(* The infra goroutine: registration, configuration and removal under the  *)
(* context lock                                                            *)

Lock ==
  /\ thr["infra"].pc = "took" /\ ccLock = None
  /\ ccLock' = "infra"
  /\ Go("infra", [thr["infra"] EXCEPT !.pc = "locked"])
  /\ UNCHANGED <<Sc, dataVars, confVars, rmLock, callback, chan, rmq, told, on, history, dropped, down>>

\* The answer to the waiting thread r.
Answered(r, ok) ==
  CASE thr[r].pc = "removing" -> [thr[r] EXCEPT !.pc = "clean"]
    [] thr[r].pc = "registering" -> [pc |-> "answered", at |-> thr[r].at, ok |-> ok]
    [] OTHER -> Returned(r)

\* Sends the result and returns, which unlocks the context.
Answer(ok) ==
  LET r == thr["infra"].ev.from
  IN  ccLock' = None /\ thr' = [thr EXCEPT !["infra"] = Idle, ![r] = Answered(r, ok)]

Locked(op) == thr["infra"].pc = "locked" /\ thr["infra"].ev.op = op
Partition(name, c) == [name |-> name, conf |-> c] @@ Empty

\* The numbers of the new partitions.
Numbers(fresh) == [name \in ToSet(fresh) |-> Len(part) + CHOOSE i \in DOMAIN fresh : fresh[i] = name]

\* Mutant: a partition that exists is not updated.
CreatedOnly(c) ==
  LET list == Sc.conf[c]
      fresh == SetToSeq({list[i].name : i \in DOMAIN list} \ DOMAIN partitions)
  IN  [ok |-> TRUE,
       part |-> part \o [i \in DOMAIN fresh |-> Partition(fresh[i], c)],
       partitions |-> partitions @@ Numbers(fresh),
       left |-> {}]

\* The partitions of the configuration c are updated or created in order, up
\* to the first one that is not valid.
Updated(c) ==
  LET list == Sc.conf[c]
      bad == {i \in DOMAIN list : ~list[i].ok}
      done == {list[i].name : i \in {i \in DOMAIN list : \A j \in bad : i < j}}
      fresh == SetToSeq(done \ DOMAIN partitions)
  IN  [ok |-> bad = {},
       part |-> [i \in 1 .. Len(part) + Len(fresh) |->
                   IF i > Len(part) THEN Partition(fresh[i - Len(part)], c)
                   ELSE IF \E name \in done \cap DOMAIN partitions : partitions[name] = i THEN [part[i] EXCEPT !.conf = c]
                   ELSE part[i]],
       partitions |-> partitions @@ Numbers(fresh),
       left |-> IF bad = {} THEN {partitions[name] : name \in DOMAIN partitions \ done} ELSE {}]

\* updateSchedulerConfig: what is not in the configuration is stopped; an
\* error ends the event.
updateSchedulerConfig ==
  LET ev == thr["infra"].ev
      Carry(u) ==
        /\ part' = u.part /\ partitions' = u.partitions /\ failed' = ~u.ok
        /\ IF u.ok THEN Go("infra", [pc |-> "stopping", ev |-> ev, todo |-> u.left]) /\ UNCHANGED ccLock
           ELSE Answer(FALSE)
  IN  /\ Carry(Updated(ev.x))
      /\ UNCHANGED <<Sc, closed, stored, rmLock, callback, chan, rmq, told, on, history, dropped, down>>

\* An event that changes nothing; a configuration that does not load has no partitions.
Refuse(ok) ==
  /\ Answer(ok)
  /\ UNCHANGED <<Sc, dataVars, confVars, rmLock, callback, chan, rmq, told, on, history, dropped, down>>

processRMRegistrationEvent ==
  /\ Locked("register")
  /\ IF DOMAIN partitions # {} \/ Sc.conf[thr["infra"].ev.x] = <<>> THEN Refuse(FALSE) ELSE updateSchedulerConfig

processRMConfigUpdateEvent ==
  LET c == thr["infra"].ev.x
  IN  /\ Locked("config")
      /\ IF DOMAIN partitions = {} \/ Sc.conf[c] = <<>> THEN Refuse(FALSE)
         ELSE IF c = stored THEN Refuse(TRUE) ELSE updateSchedulerConfig

removePartitionsByRMID ==
  /\ Locked("remove")
  /\ Go("infra", [pc |-> "stopping", ev |-> thr["infra"].ev, todo |-> Range(partitions)])
  /\ UNCHANGED <<Sc, dataVars, confVars, lockVars, callback, chan, rmq, told, on, history, dropped, down>>

\* The last steps of the events: the configuration is stored, the answer sent.
finish ==
  LET ev == thr["infra"].ev
  IN  /\ thr["infra"].pc = "stopping" /\ thr["infra"].todo = {}
      /\ stored' = IF ev.op = "remove" THEN stored ELSE ev.x
      /\ Answer(TRUE)
      /\ UNCHANGED <<Sc, dataVars, failed, rmLock, callback, chan, rmq, told, on, history, dropped, down>>

-----------------------------------------------------------------------------
(* partitionManager.Stop, and the stop of the service                      *)

\* Closes the channels of the cleaners (twice is a panic) and removes all
\* applications and nodes.  What that releases is not told to anyone.
Stop(t) ==
  /\ thr[t].pc = "stopping"
  /\ \E i \in thr[t].todo :
       IF i \in closed
       THEN Go(t, [pc |-> "panic"]) /\ UNCHANGED <<part, closed, gone>>
       ELSE /\ closed' = closed \cup {i}
            /\ part' = [part EXCEPT ![i] = Partition(@.name, @.conf)]
            /\ gone' = gone \cup part[i].apps \cup part[i].nodes \cup {part[i].name}
            /\ Go(t, [pc |-> "unlink", todo |-> thr[t].todo \ {i}, i |-> i] @@ thr[t])
  /\ UNCHANGED <<Sc, partitions, confVars, lockVars, callback, chan, rmq, told, on, sure, refused, crossed, dropped, down>>

\* The last step of remove takes the context lock, whoever holds it.
removePartition(t) ==
  /\ thr[t].pc = "unlink" /\ ccLock = None
  /\ partitions' = [name \in DOMAIN partitions \ {part[thr[t].i].name} |-> partitions[name]]
  /\ Go(t, [thr[t] EXCEPT !.pc = "stopping"])
  /\ UNCHANGED <<Sc, part, closed, confVars, lockVars, callback, chan, rmq, told, on, history, dropped, down>>

StopService ==
  /\ Sc.stops /\ thr["stop"].pc = "idle" /\ ccLock = None
  /\ Go("stop", [pc |-> "stopping", todo |-> Range(partitions)])
  /\ UNCHANGED <<Sc, dataVars, confVars, lockVars, callback, chan, rmq, told, on, history, dropped, down>>

stopped ==
  /\ thr["stop"].pc = "stopping" /\ thr["stop"].todo = {}
  /\ down' = TRUE
  /\ Go("stop", [pc |-> "exit"])
  /\ UNCHANGED <<Sc, dataVars, confVars, lockVars, callback, chan, rmq, told, on, history, dropped>>

-----------------------------------------------------------------------------
Called(r) == RegisterResourceManager(r) \/ UpdateConfiguration(r) \/ Update(r)
Returning(r) == sendRegistration(r) \/ registered(r)
Handling ==
  \/ addApplication \/ removeApplication \/ processAllocations \/ processAllocationReleases \/ replacePlaceholder
  \/ addNode \/ removeNode
  \/ \E c \in {"alloc", "node"} : GetPartition(c) \/ Skip(c)
Infra ==
  \/ Lock \/ processRMRegistrationEvent \/ processRMConfigUpdateEvent \/ removePartitionsByRMID
  \/ finish \/ Stop("infra") \/ removePartition("infra")
Stopping == StopService \/ Stop("stop") \/ removePartition("stop") \/ stopped
Ending == \E t \in Channels \cup {"sched", "proxy"} : Exit(t)

Panicked == \E t \in DOMAIN thr : thr[t].pc = "panic"

Next ==
  /\ ~Panicked
  /\ \/ \E r \in Callers : Called(r) \/ Returning(r)
     \/ handleRMEvents \/ \E t \in {"alloc", "node", "sched", "app"} : HandleEvent(t)
     \/ \E c \in Channels : Take(c)
     \/ Handling \/ Infra \/ Stopping \/ Ending
     \/ GetPartitionMapClone \/ schedule \/ \E t \in {"sched", "app"} : notifyRMAllocationReleased(t)

\* A goroutine that has something to do does it; one fairness condition is
\* enough, as all of them together have only finitely much to do.  A call of
\* the RM is made or not, the service is stopped or not, and the scheduling
\* loop may find nothing for ever.
Working ==
  /\ ~Panicked
  /\ \/ \E r \in Callers : Returning(r)
     \/ handleRMEvents \/ \E t \in {"alloc", "node", "sched", "app"} : HandleEvent(t)
     \/ \E c \in Channels : Take(c)
     \/ Handling \/ Infra

Spec == Init /\ [][Next]_vars /\ WF_vars(Working)

-----------------------------------------------------------------------------
TypeOK ==
  /\ Range(partitions) \subseteq DOMAIN part /\ closed \subseteq DOMAIN part
  /\ \A name \in DOMAIN partitions : part[partitions[name]].name = name
  /\ stored \in DOMAIN Sc.conf \cup {None}
  /\ ccLock \in {None, "infra"} /\ rmLock \in Callers \cup {None}
  /\ \A k \in Pods : on[k] \in DOMAIN Sc.home \cup {""}
  /\ told.apps \cup told.nodes \subseteq DOMAIN Sc.home /\ told.allocs \subseteq Pods

\* Configuration (context.go, processRMRegistrationEvent and
\* processRMConfigUpdateEvent): unless an update failed halfway or the service
\* is stopped, the partitions are those of the stored configuration, with its
\* settings, whenever the context is not locked.
ConfigApplied ==
  (ccLock = None /\ ~failed /\ stored # None /\ thr["stop"].pc = "idle") =>
    /\ DOMAIN partitions = {Sc.conf[stored][i].name : i \in DOMAIN Sc.conf[stored]}
    /\ \A name \in DOMAIN partitions : part[partitions[name]].conf = stored

\* Two channels (scheduler.go, HandleEvent): a pod that the RM sends after it
\* heard that application and node are accepted is not rejected, although
\* nodes and pods take different ways, unless one of them was removed.
KnownIsAccepted ==
  \A k \in sure \cap refused : {Sc.app[k], Sc.node[k], Sc.home[Sc.app[k]]} \cap gone # {}

Quiet == rmq = <<>> /\ \A t \in DOMAIN thr : thr[t].pc = "idle"

\* Notifications (context.go, notifyRMNewAllocation and
\* notifyRMAllocationReleased): once nothing is on its way, the RM knows the
\* allocations of the partitions exactly, except for a pod that it was asked to
\* stop and has not confirmed, and for one whose release overtook its
\* allocation; nothing may have been dropped or stopped.
Synced ==
  (Quiet /\ ~dropped /\ closed = {}) =>
    LET held == UNION {part[i].allocs : i \in DOMAIN part}
        asked == told.stops \cup {s[2] : s \in told.swaps}
    IN  held \ told.allocs \subseteq asked /\ told.allocs \ held \subseteq crossed

Jammed == ccLock = "infra" /\ thr["infra"].pc = "unlink"

\* Progress (scheduler.go, handleAllocEvent; rmproxy.go, handleRMEvents): an
\* application that was sent is accepted, as the RM hears, or rejected, unless
\* an event was dropped, the service is stopped or the context is stuck in the
\* removal of a partition.
ApplicationAnswered ==
  \A a \in {"a", "b"} :
    (\E i \in DOMAIN chan["alloc"] : chan["alloc"][i].op = "app" /\ chan["alloc"][i].x = a)
      ~> (a \in told.apps \cup refused \/ dropped \/ down \/ Jammed \/ Panicked)


\* Partition objects, locks and channels fit together, and the partitions are those
\* of the configuration that was applied.
PartitionsExact == TypeOK /\ ConfigApplied
=============================================================================
