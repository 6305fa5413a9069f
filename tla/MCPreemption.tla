---------------------------- MODULE MCPreemption ----------------------------
(* Scenes: priorities, offsets and fences in two subtrees; two resource     *)
(* types, two nodes, guarantees and reservations; a required node;          *)
(* quota preemption of a leaf queue, of a parent queue, with two resource   *)
(* types of which a child guarantees one, and next to the preemption for an *)
(* ask.  The allocations of a scene differ in their       *)
(* creation time.                                                           *)
EXTENDS Preemption

Cpu(x) == "c" :> x
Both(x, y) == ("c" :> x) @@ ("m" :> y)
Path(names) == root \o names

Queue == [guaranteed |-> Nil, max |-> Nil, policy |-> "default", fence |-> FALSE, offset |-> 0, delay |-> 0]
Guaranteed(r) == [Queue EXCEPT !.guaranteed = r]
Limited(r) == [Queue EXCEPT !.max = r, !.delay = 1]
Offset(x) == [Queue EXCEPT !.offset = x]
Fenced(x) == [Queue EXCEPT !.offset = x, !.fence = TRUE]
Alloc(q, n, size, prio, created, flags) ==
  [queue |-> Path(q), node |-> n, size |-> size, priority |-> prio, created |-> created,
   required |-> "required" \in flags, flags |-> flags]
AskOf(q, size, prio, node) == [queue |-> Path(q), size |-> size, priority |-> prio, node |-> node]
Node(capacity) == [capacity |-> capacity, schedulable |-> TRUE]
Nothing == <<>>

\* An ask of root.p.a, its neighbour root.p.b, and the fenced root.f.
Priorities ==
  [queue |-> (root :> Queue) @@ (Path(<<"p">>) :> Queue)
             @@ (Path(<<"p", "a">>) :> [Offset(1) EXCEPT !.guaranteed = Cpu(3)])
             @@ (Path(<<"p", "b">>) :> Offset(2))
             @@ (Path(<<"f">>) :> Fenced(1)) @@ (Path(<<"f", "g">>) :> Offset(3)),
   alloc |-> ("b1" :> Alloc(<<"p", "b">>, "n", Cpu(1), 0, 1, {}))
             @@ ("b2" :> Alloc(<<"p", "b">>, "n", Cpu(1), -1, 2, {"placeholder"}))
             @@ ("g1" :> Alloc(<<"f", "g">>, "n", Cpu(1), 5, 3, {"originator"}))
             @@ ("g2" :> Alloc(<<"f", "g">>, "n", Cpu(1), 0, 4, {"optOut"})),
   node |-> "n" :> Node(Cpu(4)), resv |-> Nothing,
   ask |-> "k" :> AskOf(<<"p", "a">>, Cpu(2), 0, None), change |-> <<>>]

\* root.b is above its guarantee of m, at that of c; root.d is above both.
Guarantees ==
  [queue |-> (root :> Queue) @@ (Path(<<"a">>) :> Guaranteed(Both(3, 3)))
             @@ (Path(<<"b">>) :> Guaranteed(Both(1, 1))) @@ (Path(<<"d">>) :> Guaranteed(Cpu(1))),
   alloc |-> ("b1" :> Alloc(<<"b">>, "n1", Both(1, 2), 0, 1, {}))
             @@ ("d1" :> Alloc(<<"d">>, "n1", Cpu(1), 0, 2, {"originator"}))
             @@ ("d2" :> Alloc(<<"d">>, "n2", Cpu(1), 0, 3, {"placeholder"}))
             @@ ("d3" :> Alloc(<<"d">>, "n2", Cpu(1), 0, 4, {})),
   node |-> ("n1" :> Node(Both(2, 2))) @@ ("n2" :> Node(Both(2, 2))),
   resv |-> "r" :> [node |-> "n2", priority |-> 0, old |-> TRUE, keep |-> FALSE],
   ask |-> "k" :> AskOf(<<"a">>, Cpu(2), 1, None), change |-> <<>>]

\* The daemon set ask wants node n1.
Required ==
  [queue |-> (root :> Queue) @@ (Path(<<"a">>) :> Queue) @@ (Path(<<"b">>) :> Queue),
   alloc |-> ("b1" :> Alloc(<<"b">>, "n1", Cpu(1), 0, 1, {"placeholder"}))
             @@ ("b2" :> Alloc(<<"b">>, "n1", Cpu(1), 0, 2, {"originator"}))
             @@ ("b3" :> Alloc(<<"b">>, "n1", Cpu(1), 2, 3, {}))
             @@ ("b4" :> Alloc(<<"b">>, "n1", Cpu(1), 0, 4, {"required"})),
   node |-> "n1" :> Node(Cpu(4)), resv |-> Nothing,
   ask |-> "k" :> AskOf(<<"a">>, Cpu(2), 1, "n1"), change |-> <<>>]

\* A recovered allocation takes root.a above its maximum, which changes, goes
\* and comes back with and without a delay.
QuotaLeaf ==
  [queue |-> (root :> Queue) @@ (Path(<<"a">>) :> Limited(Cpu(2))),
   alloc |-> ("a1" :> Alloc(<<"a">>, "n", Cpu(1), 0, 1, {"placeholder"}))
             @@ ("a2" :> Alloc(<<"a">>, "n", Cpu(2), 0, 2, {"late"})),
   node |-> "n" :> Node(Cpu(4)), resv |-> Nothing, ask |-> Nothing,
   change |-> <<[queue |-> Path(<<"a">>), max |-> Cpu(1), delay |-> 2], [queue |-> Path(<<"a">>), max |-> Cpu(1), delay |-> 0],
                [queue |-> Path(<<"a">>), max |-> Nil, delay |-> 1], [queue |-> Path(<<"a">>), max |-> Cpu(1), delay |-> 1]>>]

\* root.p is to shrink.
QuotaParent ==
  [queue |-> (root :> Queue) @@ (Path(<<"p">>) :> Limited(Cpu(5)))
             @@ (Path(<<"p", "a">>) :> Guaranteed(Cpu(1))) @@ (Path(<<"p", "b">>) :> Queue),
   alloc |-> ("a1" :> Alloc(<<"p", "a">>, "n", Cpu(1), 0, 1, {}))
             @@ ("a2" :> Alloc(<<"p", "a">>, "n", Cpu(1), 0, 2, {"placeholder"}))
             @@ ("b1" :> Alloc(<<"p", "b">>, "n", Cpu(1), 0, 3, {"originator"}))
             @@ ("b2" :> Alloc(<<"p", "b">>, "n", Cpu(1), 0, 4, {})),
   node |-> "n" :> Node(Cpu(5)), resv |-> Nothing, ask |-> Nothing,
   change |-> <<[queue |-> Path(<<"p">>), max |-> Cpu(2), delay |-> 1]>>]

\* root.p is to shrink by three c and one m; the guarantee of root.p.a has no m.
QuotaTypes ==
  [queue |-> (root :> Queue) @@ (Path(<<"p">>) :> Limited(Both(4, 4)))
             @@ (Path(<<"p", "a">>) :> Guaranteed(Cpu(1))) @@ (Path(<<"p", "b">>) :> Queue),
   alloc |-> ("a1" :> Alloc(<<"p", "a">>, "n", Both(1, 1), 0, 1, {}))
             @@ ("a2" :> Alloc(<<"p", "a">>, "n", Both(1, 1), 0, 2, {}))
             @@ ("a3" :> Alloc(<<"p", "a">>, "n", Both(1, 1), 0, 3, {"placeholder"}))
             @@ ("b1" :> Alloc(<<"p", "b">>, "n", Both(1, 1), 0, 4, {})),
   node |-> "n" :> Node(Both(4, 4)), resv |-> Nothing, ask |-> Nothing,
   change |-> <<[queue |-> Path(<<"p">>), max |-> Both(1, 3), delay |-> 1]>>]

\* root.p is to shrink while root.q asks.
Contended ==
  [queue |-> (root :> Queue) @@ (Path(<<"p">>) :> Limited(Cpu(3))) @@ (Path(<<"q">>) :> Guaranteed(Cpu(2))),
   alloc |-> ("p1" :> Alloc(<<"p">>, "n", Cpu(1), 0, 1, {"placeholder"}))
             @@ ("p2" :> Alloc(<<"p">>, "n", Cpu(1), 0, 2, {"originator"})),
   node |-> "n" :> Node(Cpu(2)), resv |-> Nothing,
   ask |-> "k" :> AskOf(<<"q">>, Cpu(2), 0, None),
   change |-> <<[queue |-> Path(<<"p">>), max |-> Cpu(1), delay |-> 1]>>]

MCScenes == {Priorities, Guarantees, Required, QuotaLeaf, QuotaParent, QuotaTypes, Contended}
MCNames == {}

\* The parent of root.p.a and root.p.b has an offset.
ParentOffset ==
  [queue |-> (root :> Queue) @@ (Path(<<"p">>) :> Offset(2))
             @@ (Path(<<"p", "a">>) :> Guaranteed(Cpu(1))) @@ (Path(<<"p", "b">>) :> Queue),
   alloc |-> "b1" :> Alloc(<<"p", "b">>, "n", Cpu(1), 1, 1, {}),
   node |-> "n" :> Node(Cpu(1)), resv |-> Nothing,
   ask |-> "k" :> AskOf(<<"p", "a">>, Cpu(1), 0, None), change |-> <<>>]

MCParentOffset == {ParentOffset}
MCQuotaParent == {QuotaParent}

=============================================================================
