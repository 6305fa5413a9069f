---------------------------- MODULE MCApplication ----------------------------
(***************************************************************************)
(* Small applications: p* are placeholders, r* real pods of the task       *)
(* group, x* pods outside of it.  The RM sends the pods of one of three    *)
(* applications: one without a task group; a gang of two with one request  *)
(* that has outgrown its placeholder; a small gang with a pod of its own,  *)
(* whose RM also sends pods late and releases without a key.               *)
(***************************************************************************)
EXTENDS Application

CONSTANTS p1, p2, r1, r2, x1, x2, Sends

VARIABLE sent  \* the pods of this application

LargeRequest == [k \in Keys |-> IF k = r2 THEN 2 ELSE 1]

Batch == {x1, x2}
TwoOfGang == {p1, p2, r1, r2}
Mixed == {p1, r1, x1}

OnlyBatch == {Batch}
AllThree == {Batch, TwoOfGang, Mixed}

MCInit ==
  /\ Init /\ sent \in Sends
  /\ app.placeholderAsk = Cardinality(sent \cap Placeholders)
  /\ sent # Mixed => app.style = "Soft"

MCNext ==
  /\ Next /\ UNCHANGED sent
  /\ live' \subseteq sent
  /\ sent # Mixed => ~StopAllPods /\ (live' \subseteq live \/ app.state \notin Terminated)

MCSpec == MCInit /\ [][MCNext]_<<vars, sent>>
FairMCSpec == MCSpec /\ Fairness

\* ReplacementInFlight: a request that is marked allocated and is no allocation
\* yet is being swapped with a placeholder, whose release is under way, unless
\* the RM releases without a key or sends pods late.
SwapInFlight == sent # Mixed => ReplacementInFlight

\* UsageTotal: the user tracker was told of what the application has allocated,
\* unless the RM releases without a key or sends pods late.
TrackedUsage == sent # Mixed => UsageTotal

\* Whatever comes in, the pending and allocated totals are the sums over asks and
\* allocations, never negative, and the user tracker knows the sum.
Totals == TypeOK /\ PendingTotal /\ AllocatedTotals /\ TrackedUsage

\* An application ends for good: it holds no allocation when it has terminated, and
\* no event, cycle or timer meets a nil pointer while it leaves the partition.
EndsClean == NoPanic /\ TerminatedHoldsNothing
=============================================================================
