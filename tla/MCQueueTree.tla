----------------------------- MODULE MCQueueTree -----------------------------
(* Scenes: a leaf that is dropped, re-added and changed to a parent while   *)
(* applications come and go; dynamic queues that two applications share,    *)
(* one of which does not fit; chains of rules with filters; a partition     *)
(* that is removed.                                                          *)
EXTENDS QueueTree

NoFilter == newFilter("", {}, {})
Rule(type, create, value, filter) == [type |-> type, create |-> create, value |-> value, filter |-> filter]
Provided == <<Rule("provided", TRUE, <<>>, NoFilter)>>
UserBelowA == <<Rule("user", TRUE, <<>>, newFilter("deny", {}, {"g"})), Rule("fixed", FALSE, <<"a">>, NoFilter)>>
TagBelowD == <<Rule("tag", TRUE, <<>>, newFilter("allow", {"u"}, {})), Rule("fixed", TRUE, <<"root", "d">>, NoFilter)>>

App(user, queue) == [user |-> user, groups |-> {"g"}, queue |-> queue, tag |-> <<>>,
                     forced |-> FALSE, fits |-> TRUE]

root == <<"root">>
a == <<"root", "a">>
x == <<"root", "a", "x">>
d == <<"root", "d">>
y == <<"root", "d", "y">>

Conf1 == [queues |-> (root :> FALSE) @@ (a :> FALSE) @@ (x :> TRUE),
          acl |-> (root :> {"u"}) @@ (a :> {"v"}) @@ (x :> {}), rules |-> <<Provided>>]
Conf2 == [queues |-> (root :> FALSE) @@ (a :> FALSE), acl |-> (root :> {"u"}) @@ (a :> {}),
          rules |-> <<Provided>>]
Conf3 == [queues |-> (root :> FALSE) @@ (a :> TRUE), acl |-> (root :> {"v"}) @@ (a :> {"v"}),
          rules |-> <<>>]
Conf4 == [queues |-> (root :> FALSE) @@ (a :> FALSE), acl |-> (root :> {"u"}) @@ (a :> {"v"}),
          rules |-> <<UserBelowA, TagBelowD>>]
Conf5 == [queues |-> (root :> FALSE) @@ (<<"root", "default">> :> TRUE) @@ (d :> FALSE) @@ (y :> TRUE),
          acl |-> (root :> {"u"}) @@ (<<"root", "default">> :> {}) @@ (d :> {}) @@ (y :> {}),
          rules |-> <<TagBelowD>>]
Conf6 == [queues |-> (root :> FALSE), acl |-> (root :> {"u"}), rules |-> <<<<Rule("fixed", TRUE, <<"rooted">>, NoFilter)>>>>]

Scene(confs, r1, r2, remove) ==
  [confs |-> confs, request |-> ("p1" :> r1) @@ ("p2" :> r2), remove |-> remove]

MCScenes == <<
  Scene(<<Conf1, Conf2, Conf1>>, App("u", x), App("v", x), FALSE),
  Scene(<<Conf2, Conf3>>, App("u", x), App("v", y), FALSE),
  Scene(<<Conf2, Conf5>>, App("u", y), [App("u", y) EXCEPT !.fits = FALSE], FALSE),
  Scene(<<Conf4>>, App("v", <<"b", "c">>), [App("u", <<>>) EXCEPT !.tag = <<"t", "s">>], TRUE),
  Scene(<<Conf4, Conf5>>, [App("v", <<>>) EXCEPT !.groups = {}],
        [App("v", <<"q!">>) EXCEPT !.forced = TRUE], TRUE),
  Scene(<<Conf2, Conf6>>, App("u", RecoveryQueueFull), App("u", y), FALSE),
  Scene(<<Conf2>>, App("u", y), App("v", y), FALSE) >>

=============================================================================
