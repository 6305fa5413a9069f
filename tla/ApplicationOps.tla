---------------------------- MODULE ApplicationOps ----------------------------
(***************************************************************************)
(* The methods of objects.Application (application.go) and its state       *)
(* machine (application_state.go) as operators from one application record *)
(* to the next.  Every operator is the body of a method that runs with the *)
(* application lock held, so each is one indivisible change; the modules   *)
(* that use them decide how calls interleave.                              *)
(*                                                                         *)
(* A resource is one natural number.  An allocation object (allocation.go) *)
(* is shared by pointer between application and node: its mutable fields   *)
(* are obj[k].  One task group stands for all: Gang is the set of keys     *)
(* that carry it, Placeholders the placeholders in it.                     *)
(***************************************************************************)
EXTENDS Integers, FiniteSets

CONSTANTS
  Keys,            \* allocation keys the RM may use for this application
  Nodes,           \* node IDs
  None,            \* the empty key, the empty node ID
  Placeholders,    \* keys of placeholder allocations
  Gang,            \* keys that belong to the task group
  Res,             \* the resource each key asks for
  PlaceholderAsks, \* totals of the task group's placeholders it may be submitted with
  GangStyles       \* the gang scheduling styles it may be submitted with

ASSUME AppAssumption ==
  /\ Placeholders \subseteq Gang /\ Gang \subseteq Keys
  /\ None \notin Keys \cup Nodes
  /\ Res \in [Keys -> Nat \ {0}]
  /\ PlaceholderAsks \subseteq Nat
  /\ GangStyles \subseteq {"Soft", "Hard"}

AppStates == {"New", "Accepted", "Running", "Rejected", "Completing",
              "Completed", "Failing", "Failed", "Expired", "Resuming"}

\* States in which only the expiry timer is left to run.
Terminated == {"Completed", "Failed", "Rejected", "Expired"}

TerminationTypes == {"STOPPED_BY_RM", "TIMEOUT", "PREEMPTED", "REPLACED"}

NoTimer == "none"

\* A new Allocation object: pending, not bound, not linked.
NewAllocation ==
  [node |-> None, allocated |-> FALSE, released |-> FALSE,
   preempted |-> FALSE, release |-> None]

\* stateTimer is the state the armed timer belongs to; rm collects the release
\* requests sent to the RM; terminated says the terminated callback goroutine
\* was started and has not run; queue is FALSE once sa.queue is nil; panic names
\* the nil pointer the process died on.
NewApplication(style, ask) ==
  [state |-> "New", style |-> style, placeholderAsk |-> ask,
   requests |-> {}, sorted |-> {}, allocations |-> {},
   obj |-> [k \in Keys |-> NewAllocation],
   pending |-> 0, allocated |-> 0, placeholder |-> 0, usage |-> 0,
   phCount |-> 0, phReplaced |-> 0, phTimedOut |-> 0,
   stateTimer |-> NoTimer, phTimer |-> FALSE,
   rm |-> {}, terminated |-> FALSE, queue |-> TRUE, panic |-> "no"]

AllocationObject ==
  [node : Nodes \cup {None}, allocated : BOOLEAN, released : BOOLEAN,
   preempted : BOOLEAN, release : Keys \cup {None}]

ApplicationRecord ==
  [state : AppStates, style : GangStyles, placeholderAsk : PlaceholderAsks,
   requests : SUBSET Keys, sorted : SUBSET Keys,
   allocations : SUBSET Keys, obj : [Keys -> AllocationObject],
   pending : Nat, allocated : Nat, placeholder : Nat, usage : Nat,
   phCount : Nat, phReplaced : Nat, phTimedOut : Nat,
   stateTimer : AppStates \cup {NoTimer}, phTimer : BOOLEAN,
   rm : SUBSET (TerminationTypes \X Keys), terminated : BOOLEAN,
   queue : BOOLEAN, panic : {"no", "queue", "taskgroup"}]

-----------------------------------------------------------------------------
(* The application state machine *)

\* <<event, source, destination>>
eventDesc ==
       {<<"Reject", "New", "Rejected">>}
  \cup {<<"Run", s, "Accepted">> : s \in {"New", "Resuming"}}
  \cup {<<"Run", s, "Running">> : s \in {"Accepted", "Running", "Completing"}}
  \cup {<<"Complete", s, "Completing">> : s \in {"Accepted", "Running"}}
  \cup {<<"Complete", "Completing", "Completed">>}
  \cup {<<"Fail", s, "Failing">> : s \in {"New", "Accepted", "Running"}}
  \cup {<<"Fail", "Failing", "Failed">>}
  \cup {<<"Resume", s, "Resuming">> : s \in {"New", "Accepted"}}
  \cup {<<"Expire", s, "Expired">> : s \in {"Completed", "Failed", "Rejected"}}

clearStateTimer(a) == [a EXCEPT !.stateTimer = NoTimer]

clearPlaceholderTimer(a) == [a EXCEPT !.phTimer = FALSE]

initPlaceholderTimer(a) ==
  IF a.state = "Accepted" THEN [a EXCEPT !.phTimer = TRUE] ELSE a

cleanupAsks(a) == [a EXCEPT !.requests = {}, !.sorted = {}]

\* Mutant: entering Completing arms no timer.
callbacksUntimed(a) ==
  CASE a.state = "Rejected" -> [a EXCEPT !.stateTimer = a.state]
    [] a.state \in {"Completed", "Failed"} ->
         cleanupAsks([a EXCEPT !.stateTimer = a.state, !.terminated = TRUE])
    [] OTHER -> a

\* The enter_<state> callbacks; a has just left its old state.
callbacks(a) ==
  CASE a.state \in {"Rejected", "Completing"} ->
         [a EXCEPT !.stateTimer = a.state]
    [] a.state = "Completed" ->
         cleanupAsks(clearPlaceholderTimer(
           [a EXCEPT !.stateTimer = a.state, !.terminated = TRUE]))
    [] a.state = "Failed" ->
         cleanupAsks([a EXCEPT !.stateTimer = a.state, !.terminated = TRUE])
    [] OTHER -> a

\* No transition for the event in this state, or one back to the same state:
\* nothing happens and no callback runs.  leave_state clears the state timer.
HandleApplicationEvent(a, event) ==
  IF \E t \in eventDesc : t[1] = event /\ t[2] = a.state /\ t[3] # a.state
  THEN LET dst == (CHOOSE t \in eventDesc : t[1] = event /\ t[2] = a.state)[3]
       IN  callbacks(clearStateTimer([a EXCEPT !.state = dst]))
  ELSE a

-----------------------------------------------------------------------------
(* Asks *)

allocateAsk(a, k) ==
  IF a.obj[k].allocated THEN a
  ELSE [a EXCEPT !.obj[k].allocated = TRUE, !.pending = @ - Res[k]]

deallocateAsk(a, k) ==
  IF a.obj[k].allocated
  THEN [a EXCEPT !.obj[k].allocated = FALSE, !.pending = @ + Res[k]]
  ELSE a

\* DeallocateAsk looks the ask up first.
DeallocateAsk(a, k) == IF k \in a.requests THEN deallocateAsk(a, k) ELSE a

addAllocationAskInternal(a, k) ==
  [a EXCEPT !.requests = @ \cup {k},
            !.phCount = IF k \in Placeholders THEN @ + 1 ELSE @]

\* Mutant: the new ask is not put in sortedRequests of a restarted application.
AddAllocationAskUnsorted(a, k) ==
  LET b == IF a.state \in {"New", "Completing"}
           THEN HandleApplicationEvent(a, "Run") ELSE a
  IN  [addAllocationAskInternal(b, k) EXCEPT
         !.pending = @ + Res[k],
         !.sorted = IF a.state = "Completing" THEN @ ELSE @ \cup {k}]

\* A first ask for the key (the RM sends an unknown key only once).
\* incPendingResource is called on the queue without a nil check.
AddAllocationAsk(a, k) ==
  LET b == IF a.state \in {"New", "Completing"}
           THEN HandleApplicationEvent(a, "Run") ELSE a
      c == addAllocationAskInternal(b, k)
  IN  IF a.queue THEN [c EXCEPT !.pending = @ + Res[k], !.sorted = @ \cup {k}]
      ELSE [c EXCEPT !.pending = @ + Res[k], !.panic = "queue"]

\* An allocation the RM reports as already running: it never enters
\* sortedRequests.
RecoverAllocationAsk(a, k) ==
  LET b == addAllocationAskInternal(a, k)
  IN  IF b.state = "New" THEN HandleApplicationEvent(b, "Run") ELSE b

\* Mutant: only the pending total is looked at.
hasZeroPending(a) == a.pending = 0

hasZeroAllocations(a) == a.pending = 0 /\ a.allocated = 0

getPlaceholderAllocations(a) == a.allocations \cap Placeholders

completeIfDone(a) ==
  IF /\ hasZeroAllocations(a)
     /\ a.state \notin {"Failing", "Completing"}
     /\ getPlaceholderAllocations(a) = {}
  THEN HandleApplicationEvent(a, "Complete")
  ELSE a

\* removeAsksInternal with a key, and with the empty key.
removeAsk(a, k) ==
  IF a.requests = {} THEN a
  ELSE completeIfDone(
         IF k \notin a.requests THEN a
         ELSE [a EXCEPT !.requests = @ \ {k}, !.sorted = @ \ {k},
                        !.pending = IF a.obj[k].allocated THEN @ ELSE @ - Res[k]])

removeAllAsks(a) ==
  IF a.requests = {} THEN a
  ELSE completeIfDone([a EXCEPT !.requests = {}, !.sorted = {}, !.pending = 0])

-----------------------------------------------------------------------------
(* Allocations *)

\* replaced: the allocation takes the place of a placeholder.
addAllocationInternal(a, k, replaced) ==
  LET added(b) == [b EXCEPT !.allocations = @ \cup {k}]
  IN IF k \in Placeholders
     THEN LET b == IF a.placeholder = 0 THEN initPlaceholderTimer(a) ELSE a
              c == [b EXCEPT !.placeholder = @ + Res[k], !.usage = @ + Res[k]]
          IN  added(IF c.placeholder = c.placeholderAsk
                    THEN HandleApplicationEvent(c, "Run") ELSE c)
     ELSE LET b == IF ~replaced \/ a.allocated # 0 \/ a.state = "Completing"
                   THEN HandleApplicationEvent(a, "Run") ELSE a
          IN  added([b EXCEPT !.allocated = @ + Res[k], !.usage = @ + Res[k]])

\* The event the removal of the last placeholder raises, if any.
placeholdersGoneEvent(a) ==
  CASE a.state = "Resuming" -> "Run"
    [] a.state = "Failing" -> "Fail"
    [] \/ a.state = "Completing" /\ a.stateTimer = NoTimer
       \/ hasZeroAllocations(a) -> "Complete"
    [] OTHER -> "none"

\* Mutant: the user tracker is not told that a timed out placeholder is gone.
removePlaceholderUntracked(a, k, type) ==
  LET b == [a EXCEPT !.placeholder = @ - Res[k],
                     !.usage = IF type = "TIMEOUT" THEN @ ELSE @ - Res[k],
                     !.phReplaced = IF type = "REPLACED" THEN @ + 1 ELSE @,
                     !.phTimedOut = IF type = "REPLACED" THEN @ ELSE @ + 1]
  IN  IF b.placeholder # 0 THEN b
      ELSE HandleApplicationEvent(clearPlaceholderTimer(b),
                                  placeholdersGoneEvent(b))

removePlaceholder(a, k, type) ==
  LET b == [a EXCEPT !.placeholder = @ - Res[k], !.usage = @ - Res[k],
                     !.phReplaced = IF type = "REPLACED" THEN @ + 1 ELSE @,
                     !.phTimedOut = IF type = "REPLACED" THEN @ ELSE @ + 1]
  IN  IF b.placeholder # 0 THEN b
      ELSE HandleApplicationEvent(clearPlaceholderTimer(b),
                                  placeholdersGoneEvent(b))

removeReal(a, k) ==
  LET b == [a EXCEPT !.allocated = @ - Res[k], !.usage = @ - Res[k]]
  IN  IF hasZeroAllocations(b) THEN HandleApplicationEvent(b, "Complete") ELSE b

removeAllocationInternal(a, k, type) ==
  IF k \notin a.allocations THEN a
  ELSE LET b == IF k \in Placeholders THEN removePlaceholder(a, k, type)
                ELSE removeReal(a, k)
       IN  [b EXCEPT !.allocations = @ \ {k}]

\* The shim confirmed that placeholder k is gone: swap in the allocation that
\* is linked to it.  The placeholder keeps its own link.
ReplaceAllocation(a, k) ==
  LET b == removeAllocationInternal(a, k, "REPLACED")
      real == a.obj[k].release
  IN  IF k \notin a.allocations \/ real = None THEN b
      ELSE [addAllocationInternal(b, real, TRUE) EXCEPT !.obj[real].release = None]

\* The empty allocation key: everything the application holds.
RemoveAllAllocations(a) ==
  LET b == [a EXCEPT
              !.phTimedOut = @ + Cardinality(getPlaceholderAllocations(a)),
              !.usage = IF a.pending = 0 THEN @ - (a.allocated + a.placeholder) ELSE @,
              !.allocated = 0, !.placeholder = 0, !.allocations = {}]
      c == IF b.pending # 0 THEN b
           ELSE HandleApplicationEvent(b, IF b.state = "Failing" THEN "Fail"
                                          ELSE "Complete")
  IN  clearStateTimer(clearPlaceholderTimer(c))

\* The shim could not bind the pod: the allocation goes back to a pending ask.
canRollback(a, k) ==
  /\ a.state \in {"Accepted", "Running"}
  /\ k \in a.requests \cap a.allocations
  /\ a.obj[k].allocated

\* Mutant: the ask is dropped with the allocation.
RollbackAllocationDrops(a, k) ==
  IF ~canRollback(a, k) THEN a
  ELSE [a EXCEPT !.requests = @ \ {k}, !.sorted = @ \ {k}, !.allocations = @ \ {k},
                 !.allocated = @ - Res[k], !.usage = @ - Res[k]]

RollbackAllocation(a, k) ==
  IF ~canRollback(a, k) THEN a
  ELSE [deallocateAsk(a, k) EXCEPT
          !.obj[k].node = None, !.allocations = @ \ {k},
          !.allocated = @ - Res[k], !.usage = @ - Res[k]]

-----------------------------------------------------------------------------
(* Placeholder replacement and release *)

canReplace(a, k) ==
  k \in Gang \ Placeholders /\ a.phCount > a.phReplaced + a.phTimedOut

replaceable(a) ==
  {p \in getPlaceholderAllocations(a) : ~a.obj[p].released /\ ~a.obj[p].preempted}

\* Mutant: the placeholder does not point at its replacement.
linkReplacementOneWay(a, k, p, n) ==
  [allocateAsk(a, k) EXCEPT
     !.obj[k].release = p, !.obj[k].node = n, !.obj[p].released = TRUE]

\* Link request k and placeholder p, mark p released and k allocated on node n.
linkReplacement(a, k, p, n) ==
  [allocateAsk(a, k) EXCEPT
     !.obj[k].release = p, !.obj[k].node = n,
     !.obj[p].release = k, !.obj[p].released = TRUE]

\* SetReleased fails for preempted allocations; the others are marked and the
\* RM is asked to release them.
releaseTimedOut(a, S) ==
  LET marked == {k \in S : ~a.obj[k].preempted}
  IN  [a EXCEPT !.obj = [k \in Keys |-> IF k \in marked
                           THEN [a.obj[k] EXCEPT !.released = TRUE] ELSE a.obj[k]],
                !.rm = @ \cup ({"TIMEOUT"} \X marked)]

-----------------------------------------------------------------------------
(* Timers *)

unreleasedPlaceholders(a) ==
  {p \in getPlaceholderAllocations(a) : ~a.obj[p].released}

\* The body of the function setStateTimer arms for expected, once it holds the
\* application lock.
timeoutStateTimer(a, expected) ==
  IF a.state # expected THEN a
  ELSE IF a.state = "Completing" /\ a.placeholder # 0
       THEN clearStateTimer(releaseTimedOut(a, unreleasedPlaceholders(a)))
       ELSE HandleApplicationEvent(a, IF expected = "Completing" THEN "Complete"
                                      ELSE "Expire")

\* Case 1 of timeoutPlaceholderProcessing: give back what was not replaced.
\* Case 2: resume or fail the application and release everything it has; an
\* open request outside the task group has no placeholderData entry to count in.
timeoutPlaceholderProcessing(a) ==
  IF a.state \in {"Running", "Completing"} /\ a.placeholder # 0
  THEN clearPlaceholderTimer(releaseTimedOut(a, unreleasedPlaceholders(a)))
  ELSE LET b == HandleApplicationEvent(a, IF a.style = "Hard" THEN "Fail"
                                          ELSE "Resume")
           open == {k \in b.requests : ~b.obj[k].allocated /\ ~b.obj[k].preempted}
           c == releaseTimedOut(b, b.allocations \cup open)
           d == [c EXCEPT !.phTimedOut = @ + Cardinality(open)]
       IN  IF open \subseteq Gang THEN clearPlaceholderTimer(removeAllAsks(d))
           ELSE [c EXCEPT !.panic = "taskgroup"]
=============================================================================
