----------------------------- MODULE MCContext -----------------------------
(***************************************************************************)
(* Scenes of the cluster context.  Configuration c1 has the partition p,   *)
(* c2 has p and q, c3 has p and an invalid q, c4 does not load.            *)
(***************************************************************************)
EXTENDS ClusterContext

Valid(name) == [name |-> name, ok |-> TRUE]
C(op, x) == [op |-> op, x |-> x]
Scene(calls, size, stops) ==
  [conf |-> "c1" :> <<Valid("p")>> @@ "c2" :> <<Valid("p"), Valid("q")>>
            @@ "c3" :> <<Valid("p"), [name |-> "q", ok |-> FALSE]>> @@ "c4" :> <<>>,
   home |-> "a" :> "p" @@ "n" :> "p" @@ "o" :> "p" @@ "b" :> "q",
   app |-> "k" :> "a" @@ "m" :> "a" @@ "h" :> "a",
   node |-> "k" :> "" @@ "m" :> "n" @@ "h" :> "n", ph |-> {"h"},
   calls |-> calls, size |-> size, stops |-> stops, announces |-> FALSE]

Start == <<C("register", "c1")>>
Pod == <<C("create", "n"), C("app", "a")>>

\* An application with an ask and a pod that runs already, and one by one
\* what takes them away again.
Running(over) ==
  Scene("r" :> Start \o Pod \o <<C("pod", "m"), C("pod", "k")>> \o over, 8, FALSE)
Work == {Running(<<C("removeApp", "a"), C("decommission", "n"), C("decommission", "n")>>),
         Running(<<C("release", "k"), C("decommission", "n"), C("release", "m")>>),
         Running(<<C("removeApp", "a"), C("app", "b"), C("removeApp", "b")>>)}

\* The placeholder h is replaced by k on one of two nodes, one of which goes.
Gang(over, last) ==
  Scene("r" :> Start \o <<C("create", "n"), C("create", "o"), C("app", "a"), C("pod", "h"), C("pod", "k"), C("replaced", "h")>> \o last
        @@ "s" :> over, 8, FALSE)
Gangs == {Gang(<<C("decommission", n)>>, <<>>) : n \in {"n", "o"}}
         \cup {Gang(<<>>, <<C("removeApp", "a")>>), Gang(<<C("release", "h")>>, <<C("release", "k")>>)}

\* Allocations are preempted or time out, and the RM confirms it.
Announced ==
  {[Running(<<C("confirm", x)>>) EXCEPT !.announces = TRUE, !.calls = @ @@ "s" :> <<over>>] :
     x \in {"m", "k"}, over \in {C("decommission", "n"), C("release", "k"), C("removeApp", "a")}}

\* The configuration is changed, also to one that fails or does not load, in
\* some order with the requests.
Reloads ==
  {Scene("r" :> Start \o Pod \o <<C("pod", "k")>> @@ "s" :> <<C("config", x), C("config", y), C("app", "b")>>, 8, FALSE) :
     x \in {"c2", "c3", "c4"}, y \in {"c1", "c2"}}

\* The RM registers again, first with a configuration that fails, or while a
\* second thread works.
Again ==
  {Scene("r" :> <<C("app", "a"), C("register", "c3"), C("register", "c1"), C("config", "c2")>>, 8, FALSE),
   Scene("r" :> Start \o Pod \o <<C("register", "c1")>> @@ "s" :> <<C("pod", "m"), C("pod", "k")>>, 8, FALSE)}

\* The channels overflow; the service is stopped while pods are sent or the
\* configuration changes.
Short == {Scene("r" :> <<C("register", "c2")>> \o Pod @@ "s" :> <<C("app", "b"), C("pod", "m")>>, 1, FALSE)}
Ends == {Scene("r" :> Start \o Pod @@ "s" :> <<C("config", "c2"), C("config", "c1")>>, 8, TRUE),
         Scene("r" :> Start \o Pod \o <<C("pod", "m"), C("pod", "k")>>, 8, TRUE)}

MCScenes == Work \cup Gangs \cup Announced \cup Reloads \cup Again \cup Short \cup Ends
=============================================================================
