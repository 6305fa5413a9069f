------------------------------ MODULE Application ------------------------------
(***************************************************************************)
(* One application from submission to expiry: the scheduler, the handler   *)
(* of RM events and the two timers call its methods in any order.  Every   *)
(* action is one critical section under the application lock.  Nodes and   *)
(* queues answer freely (they have room or not); the partition's own       *)
(* book-keeping is the subject of module Partition.                        *)
(***************************************************************************)
EXTENDS ApplicationOps, FiniteSetsExt

CONSTANTS
  Recovered,       \* keys the RM may report as already running
  Failable,        \* keys whose pod the shim may fail to bind
  Stoppable,       \* keys the RM may stop by itself
  ReleaseAll,      \* whether the RM sends releases with an empty key
  LateAsks         \* whether the RM sends pods of an application that has
                   \* terminated and is not yet taken off the partition's list

VARIABLES
  app,             \* the application record
  registered,      \* pc.applications holds the application
  fresh,           \* keys the RM has not sent yet
  live,            \* keys whose pod exists in the RM
  rest,            \* what the RM handler still has to do for the current event
  fired,           \* state timer callbacks waiting for the application lock
  phFired          \* a placeholder timer callback waiting for the lock

vars == <<app, registered, fresh, live, rest, fired, phFired>>

\* Between two critical sections of one event the handler holds <<"ask", k>>
\* (ask k is to be removed), <<"ask", None>> (all asks: the empty key) or
\* <<"alloc", k>> (allocation k is to be added).
Idle == <<"idle", None>>
Rest == {Idle} \cup ({"ask"} \X (Keys \cup {None})) \cup ({"alloc"} \X Keys)

Init ==
  /\ app \in {NewApplication(style, ask) : style \in GangStyles, ask \in PlaceholderAsks}
  /\ registered = FALSE
  /\ fresh = Keys /\ live = {}
  /\ rest = Idle
  /\ fired = {} /\ phFired = FALSE

Alive == app.panic = "no"

\* The handler of RM events is one goroutine: it starts on the next event when
\* it is done with the previous one, and it looks the application up first.
Handler == Alive /\ rest = Idle

-----------------------------------------------------------------------------
(* The RM submits the application, its asks and its running pods *)

AddApplication ==
  /\ Handler /\ ~registered /\ app = NewApplication(app.style, app.placeholderAsk)
  /\ registered' = TRUE
  /\ UNCHANGED <<app, fresh, live, rest, fired, phFired>>

AddRejectedApplication ==
  /\ Handler /\ ~registered /\ app = NewApplication(app.style, app.placeholderAsk)
  /\ app' = HandleApplicationEvent(app, "Reject")
  /\ UNCHANGED <<registered, fresh, live, rest, fired, phFired>>

\* The RM may send a pod as long as it thinks the application is there.
Accepting == Handler /\ registered /\ (LateAsks \/ app.state \notin Terminated)

UpdateAllocationAsk(k) ==
  /\ Accepting /\ k \in fresh
  /\ app' = AddAllocationAsk(app, k)
  /\ fresh' = fresh \ {k} /\ live' = live \cup {k}
  /\ UNCHANGED <<registered, rest, fired, phFired>>

\* A pod that already runs: the ask and the allocation are added under the lock
\* one after the other.  A nil queue is dereferenced for its metrics.
UpdateAllocationRecovered(k, n) ==
  /\ Accepting /\ k \in fresh \cap Recovered
  /\ LET a == [app EXCEPT !.obj[k].allocated = TRUE, !.obj[k].node = n]
     IN  app' = IF app.queue THEN RecoverAllocationAsk(a, k)
                ELSE [a EXCEPT !.panic = "queue"]
  /\ rest' = <<"alloc", k>>
  /\ fresh' = fresh \ {k} /\ live' = live \cup {k}
  /\ UNCHANGED <<registered, fired, phFired>>

AddAllocation ==
  /\ Alive /\ rest[1] = "alloc"
  /\ app' = addAllocationInternal(app, rest[2], FALSE)
  /\ rest' = Idle
  /\ UNCHANGED <<registered, fresh, live, fired, phFired>>

-----------------------------------------------------------------------------
(* The scheduler: one request of the application at a time *)

Scheduling == Alive /\ app.queue /\ registered

pendingRequests == {k \in app.sorted : ~app.obj[k].allocated}

\* Some node takes the request.  The node ID is set afterwards, outside the
\* application lock, by PartitionContext.allocate.
TryAllocate(k) ==
  /\ Scheduling /\ k \in pendingRequests /\ ~canReplace(app, k)
  /\ app' = addAllocationInternal(allocateAsk(app, k), k, FALSE)
  /\ UNCHANGED <<registered, fresh, live, rest, fired, phFired>>

\* A placeholder too small for the request is given back to the RM.
CancelPlaceholders(k) ==
  LET small == {p \in replaceable(app) : Res[p] < Res[k]}
  IN  /\ Scheduling /\ k \in pendingRequests \cap (Gang \ Placeholders)
      /\ small # {}
      /\ app' = releaseTimedOut(app, small)
      /\ UNCHANGED <<registered, fresh, live, rest, fired, phFired>>

\* The real allocation goes to the placeholder's node, or to any other node
\* with room.
TryPlaceholderAllocate(k, p, n) ==
  /\ Scheduling /\ k \in pendingRequests \cap (Gang \ Placeholders)
  /\ p \in replaceable(app) /\ Res[p] >= Res[k]
  /\ app' = [linkReplacement(app, k, p, n) EXCEPT !.rm = @ \cup {<<"REPLACED", p>>}]
  /\ UNCHANGED <<registered, fresh, live, rest, fired, phFired>>

\* Any of the preemptors picks k as a victim.
Preempt(k) ==
  /\ Alive /\ k \in app.allocations
  /\ ~app.obj[k].released /\ ~app.obj[k].preempted
  /\ app' = [app EXCEPT !.obj[k].preempted = TRUE,
                        !.rm = @ \cup {<<"PREEMPTED", k>>}]
  /\ UNCHANGED <<registered, fresh, live, rest, fired, phFired>>

-----------------------------------------------------------------------------
(* Releases from the RM: removeAllocation first removes the allocation and, *)
(* in a second critical section, the ask.                                   *)

\* The pod of key k is gone and the RM says so, unasked or as a confirmation.
\* A confirmed TIMEOUT leaves the ask alone.
removeAllocation(type, k) ==
  /\ Handler
  /\ live' = live \ {k}
  /\ app' = LET a == [app EXCEPT !.rm = @ \ {<<type, k>>}]
            IN  CASE ~registered -> a
                  [] registered /\ type = "REPLACED" -> ReplaceAllocation(a, k)
                  [] OTHER -> removeAllocationInternal(a, k, type)
  /\ rest' = IF registered /\ type # "TIMEOUT" THEN <<"ask", k>> ELSE Idle
  /\ UNCHANGED <<registered, fresh, fired, phFired>>

StopPod(k) == k \in live \cap Stoppable /\ removeAllocation("STOPPED_BY_RM", k)

ConfirmRelease(type, k) ==
  /\ <<type, k>> \in app.rm /\ k \in live
  /\ removeAllocation(type, k)

\* The pod had already gone when the RM got the release request.
IgnoreRelease(type, k) ==
  /\ Alive /\ <<type, k>> \in app.rm /\ k \notin live
  /\ app' = [app EXCEPT !.rm = @ \ {<<type, k>>}]
  /\ UNCHANGED <<registered, fresh, live, rest, fired, phFired>>

StopAllPods ==
  /\ Handler /\ ReleaseAll /\ registered /\ live # {}
  /\ live' = {}
  /\ app' = RemoveAllAllocations(app)
  /\ rest' = <<"ask", None>>
  /\ UNCHANGED <<registered, fresh, fired, phFired>>

RemoveAllocationAsk ==
  /\ Alive /\ rest[1] = "ask"
  /\ app' = IF rest[2] = None THEN removeAllAsks(app) ELSE removeAsk(app, rest[2])
  /\ rest' = Idle
  /\ UNCHANGED <<registered, fresh, live, fired, phFired>>

rollbackAllocation(k) ==
  /\ Handler /\ registered /\ k \in live \cap Failable
  /\ canRollback(app, k)
  /\ app' = RollbackAllocation(app, k)
  /\ UNCHANGED <<registered, fresh, live, rest, fired, phFired>>

-----------------------------------------------------------------------------
(* Timers.  An expired timer starts a goroutine that waits for the lock; a  *)
(* Stop() that comes after that has no effect on it.                        *)

StateTimerExpires ==
  /\ Alive /\ app.stateTimer # NoTimer /\ app.stateTimer \notin fired
  /\ fired' = fired \cup {app.stateTimer}
  /\ UNCHANGED <<app, registered, fresh, live, rest, phFired>>

StateTimerRuns(s) ==
  /\ Alive /\ s \in fired
  /\ fired' = fired \ {s}
  /\ app' = timeoutStateTimer(app, s)
  /\ UNCHANGED <<registered, fresh, live, rest, phFired>>

PlaceholderTimerExpires ==
  /\ Alive /\ app.phTimer /\ ~phFired
  /\ phFired' = TRUE
  /\ UNCHANGED <<app, registered, fresh, live, rest, fired>>

PlaceholderTimerRuns ==
  /\ Alive /\ phFired
  /\ phFired' = FALSE
  /\ app' = timeoutPlaceholderProcessing(app)
  /\ UNCHANGED <<registered, fresh, live, rest, fired>>

\* moveTerminatedApp, started as a goroutine by the terminated callback:
\* the queue link goes first, the application map entry later.
UnSetQueue ==
  /\ Alive /\ app.terminated /\ registered /\ app.queue
  /\ app' = [app EXCEPT !.queue = FALSE]
  /\ UNCHANGED <<registered, fresh, live, rest, fired, phFired>>

moveTerminatedApp ==
  /\ Alive /\ app.terminated /\ registered /\ ~app.queue
  /\ registered' = FALSE
  /\ app' = [app EXCEPT !.terminated = FALSE]
  /\ UNCHANGED <<fresh, live, rest, fired, phFired>>

-----------------------------------------------------------------------------
ConfirmReleases ==
  \E type \in TerminationTypes, k \in Keys :
    ConfirmRelease(type, k) \/ IgnoreRelease(type, k)

Next ==
  \/ AddApplication \/ AddRejectedApplication
  \/ \E k \in Keys : \/ UpdateAllocationAsk(k) \/ TryAllocate(k) \/ CancelPlaceholders(k)
                     \/ Preempt(k) \/ StopPod(k) \/ rollbackAllocation(k)
  \/ \E k \in Keys, n \in Nodes :
       \/ UpdateAllocationRecovered(k, n)
       \/ \E p \in Placeholders : TryPlaceholderAllocate(k, p, n)
  \/ ConfirmReleases \/ StopAllPods \/ RemoveAllocationAsk \/ AddAllocation
  \/ StateTimerExpires \/ \E s \in AppStates : StateTimerRuns(s)
  \/ PlaceholderTimerExpires \/ PlaceholderTimerRuns
  \/ UnSetQueue \/ moveTerminatedApp

Spec == Init /\ [][Next]_vars

\* Timers expire, waiting goroutines get the lock, the RM answers the releases
\* it is asked for and the RM handler finishes what it began.
Fairness ==
  /\ WF_vars(StateTimerExpires) /\ WF_vars(\E s \in AppStates : StateTimerRuns(s))
  /\ WF_vars(PlaceholderTimerExpires) /\ WF_vars(PlaceholderTimerRuns)
  /\ WF_vars(RemoveAllocationAsk \/ AddAllocation)
  /\ WF_vars(ConfirmReleases)
  /\ WF_vars(UnSetQueue \/ moveTerminatedApp)

FairSpec == Spec /\ Fairness

-----------------------------------------------------------------------------
(* Properties *)

\* The type of every field; in particular no resource total of the application
\* ever goes below zero.
TypeOK ==
  /\ app \in ApplicationRecord
  /\ registered \in BOOLEAN /\ phFired \in BOOLEAN
  /\ fresh \subseteq Keys /\ live \subseteq Keys \ fresh
  /\ rest \in Rest
  /\ fired \subseteq AppStates

total(S) == MapThenSumSet(LAMBDA k : Res[k], S)

open == {k \in app.requests : ~app.obj[k].allocated}

\* The pending resource of a live application is the sum of its unallocated
\* asks, whichever way asks are added, allocated, rolled back and removed.
PendingTotal ==
  (Alive /\ app.state \notin Terminated) => app.pending = total(open)

\* allocatedResource and allocatedPlaceholder are the sums over the real and the
\* placeholder allocations the application holds.
AllocatedTotals ==
  /\ app.allocated = total(app.allocations \ Placeholders)
  /\ app.placeholder = total(app.allocations \cap Placeholders)

\* The usage the user tracker was told of is what the application has allocated.
UsageTotal == app.usage = app.allocated + app.placeholder

\* A real request that is marked allocated and is not an allocation yet is being
\* swapped with a placeholder: the placeholder is still held, points back at the
\* request, and its release is under way, so the swap can still be confirmed.
ReplacementInFlight ==
  \A k \in app.requests \ (app.allocations \cup Placeholders) :
    (Alive /\ app.obj[k].allocated /\ rest \notin {"ask", "alloc"} \X {k, None}) =>
      LET p == app.obj[k].release
      IN  /\ p \in app.allocations /\ app.obj[p].release = k
          /\ <<"REPLACED", p>> \in app.rm

\* An ask that waits for resources is in the list the scheduler walks over
\* (application.go:874: a failed bind makes the task schedulable again).
PendingIsScheduled == Alive => open \subseteq app.sorted

\* A pod the RM has submitted and not ended is an ask or an allocation of the
\* application, or about to replace an allocation, or the RM is being asked to
\* release it, until the application terminates: no pod waits for nobody.
NoForgottenPod ==
  (Alive /\ app.state \notin Terminated) =>
    \A k \in live : \/ k \in app.requests \cup app.allocations
                    \/ \E p \in app.allocations : app.obj[p].release = k
                    \/ \E type \in TerminationTypes : <<type, k>> \in app.rm

\* When the resource trackers are zero and the application is completed nothing
\* comes in later (application.go:2121): a terminated application holds no
\* allocation.
TerminatedHoldsNothing ==
  (Alive /\ app.state \in {"Completed", "Failed"}) => app.allocations = {}

\* No handler, scheduler or timer dereferences a nil pointer.
NoPanic == Alive

\* The Completing state is left: it has a timer, and the application completes
\* when its last placeholder goes (application.go:312).
CompletingIsLeft == app.state = "Completing" ~> app.state # "Completing"

-----------------------------------------------------------------------------
(* Expected of the code by its comments, and not so: see the README.       *)

\* The placeholder timeout of an application that is running leaves it running
\* with all its real allocations (application.go:406).
RunningContinues ==
  [][PlaceholderTimerRuns /\ app.state = "Running" =>
       /\ app'.state = "Running"
       /\ \A k \in app.allocations \ Placeholders : <<"TIMEOUT", k>> \notin app'.rm]_vars
=============================================================================
