------------------------------ MODULE Placement ------------------------------
(***************************************************************************)
(* The placement rules, scheduler/placement, as operators.  A queue name  *)
(* is a sequence of parts: <<"root", "a", "x">> is root.a.x, <<>> is "".  *)
(* A rule is a chain: the rule itself, its parent rule, the parent of that *)
(* one.  `tree' maps the path of every existing queue to its leaf flag,    *)
(* its draining state and the users its ACLs name: what queueFn returns.   *)
(***************************************************************************)
EXTENDS Naturals, Sequences, SequencesExt

CONSTANTS RootLike,    \* names that start with the letters of "root"
          Invalid,     \* names that IsQueueNameValid refuses
          None

RootPath == <<"root">>
RecoveryQueueFull == <<"root", "@recovery@">>
DefaultPlacementQueue == <<"root", "default">>

Error == "error"
Panic == "panic"

\* Filter.allowUser: an empty filter answers with its type; a match of the
\* user, or else of a group, is the type; no match is the opposite.
allowUser(filter, app) ==
  IF filter.empty THEN filter.allow
  ELSE (app.user \in filter.users \/ app.groups \cap filter.groups # {}) = filter.allow

\* newFilter: anything but "deny" allows; lists make it non-empty.
newFilter(type, users, groups) ==
  [allow |-> type # "deny", empty |-> users = {} /\ groups = {}, users |-> users, groups |-> groups]

\* The prefix "root.".
Absolute(name) == Len(name) > 1 /\ Head(name) = "root"

\* All dots of a name are replaced before it becomes a part of a path.
replaceDot(name) == <<FoldLeft(LAMBDA x, y : x \o "_dot_" \o y, Head(name), Tail(name))>>

IsQueueNameValid(name) == \A i \in DOMAIN name : name[i] \notin Invalid

\* A rule without create needs the queue.
IfCreated(rule, name, tree) == IF rule.create \/ name \in DOMAIN tree THEN name ELSE <<>>

\* A name below the queue that the parent rule returned: `above' is None
\* without a parent rule, and then the parent is the root.
Below(rule, child, above, tree) ==
  LET parent == IF above = None THEN RootPath
                ELSE IF Absolute(above) THEN above ELSE RootPath \o above
  IN  IF above \in {<<>>, <<Error>>} THEN above
      ELSE IF above # None /\ parent \in DOMAIN tree /\ tree[parent].leaf THEN <<Error>>
      ELSE IfCreated(rule, parent \o child, tree)

\* The name that came with the application or with its tag: a full path is
\* taken as it is, anything else is one name below the parent.
Given(rule, name, above, tree) ==
  IF Absolute(name)
  THEN IF IsQueueNameValid(name) THEN IfCreated(rule, name, tree) ELSE <<Error>>
  ELSE IF IsQueueNameValid(replaceDot(name)) THEN Below(rule, replaceDot(name), above, tree)
  ELSE <<Error>>

\* A fixed name is full when it has the prefix "root".
qualified(rule) == Head(rule.value) \in RootLike

fixedRule(rule, app, above, tree) ==
  IF ~allowUser(rule.filter, app) THEN <<>>
  ELSE IF qualified(rule) THEN IfCreated(rule, rule.value, tree)
  ELSE Below(rule, rule.value, above, tree)

providedRule(rule, app, above, tree) ==
  IF app.queue = <<>> \/ ~allowUser(rule.filter, app) THEN <<>>
  ELSE Given(rule, app.queue, above, tree)

tagRule(rule, app, above, tree) ==
  IF app.tag = <<>> \/ ~allowUser(rule.filter, app) THEN <<>>
  ELSE Given(rule, app.tag, above, tree)

userRule(rule, app, above, tree) ==
  IF ~allowUser(rule.filter, app) THEN <<>>
  ELSE IF IsQueueNameValid(<<app.user>>) THEN Below(rule, replaceDot(<<app.user>>), above, tree)
  ELSE <<Error>>

\* newRule: what the initialisation of a chain of rules refuses.
newRule(chain) ==
  \A i \in DOMAIN chain : chain[i].type = "fixed" =>
    /\ chain[i].value # <<>> /\ IsQueueNameValid(chain[i].value)
    /\ qualified(chain[i]) => i = Len(chain)

\* placeApplication of a rule, its parent rules first.
placeByRule(chain, app, tree) ==
  LET place[i \in 1 .. Len(chain)] ==
        LET above == IF i = Len(chain) THEN None ELSE place[i + 1]
        IN  CASE chain[i].type = "fixed"    -> fixedRule(chain[i], app, above, tree)
              [] chain[i].type = "provided" -> providedRule(chain[i], app, above, tree)
              [] chain[i].type = "tag"      -> tagRule(chain[i], app, above, tree)
              [] chain[i].type = "user"     -> userRule(chain[i], app, above, tree)
  IN  place[1]

\* recoveryRule.placeApplication, the last rule of every list (buildRules).
placeRecovery(app) == IF app.forced THEN RecoveryQueueFull ELSE <<>>

\* CheckSubmitAccess: the ACLs of the queue or of one of its parents give access;
\* the recovery queue never does.
CheckSubmitAccess(user, name, tree) ==
  /\ name # RecoveryQueueFull
  /\ \E p \in Prefixes(name) \cap DOMAIN tree : user \in tree[p].acl

\* The lowest queue of the name that exists, <<>> when none does.
Existing(name, tree) ==
  LET found == {n \in 1 .. Len(name) : SubSeq(name, 1, n) \in DOMAIN tree}
  IN  IF found = {} THEN <<>>
      ELSE SubSeq(name, 1, CHOOSE n \in found : \A k \in found : k <= n)

\* Mutant: the submit access is not looked at.
AcceptedAnyone(name, app, tree) ==
  IF name # <<>> /\ name = Existing(name, tree)
  THEN IF tree[name].leaf THEN name ELSE <<>>
  ELSE IF Existing(name, tree) # <<>> THEN name ELSE <<>>

\* What PlaceApplication does with the answer of a rule: the name, <<>> for
\* the next rule, or a panic when the walk up runs out of the name.
Accepted(name, app, tree) ==
  LET low == Existing(name, tree)
      ok == /\ CheckSubmitAccess(app.user, low, tree)
            /\ low = name => tree[name].leaf /\ ~tree[name].draining
  IN  CASE name = <<>> -> <<>>
        [] name = RecoveryQueueFull /\ app.forced -> name
        [] name # <<>> /\ low = <<>> -> <<Panic>>
        [] OTHER -> IF ok THEN name ELSE <<>>

OrDefault(name, tree) ==
  IF name = <<>> /\ DefaultPlacementQueue \in DOMAIN tree THEN DefaultPlacementQueue ELSE name

\* The path of the queue, <<Error>>, <<Panic>>, or <<>> when the application
\* is rejected.  Without rules there is one provided rule.
PlaceApplication(rules, app, tree) ==
  LET n == Len(rules)
      place[i \in 1 .. n + 1] ==
        IF i = n + 1 THEN Accepted(OrDefault(placeRecovery(app), tree), app, tree)
        ELSE LET name == placeByRule(rules[i], app, tree)
                 answer == IF name = <<Error>> THEN name ELSE Accepted(name, app, tree)
             IN  IF answer = <<>> THEN place[i + 1] ELSE answer
  IN  place[1]

\* buildRules, without the recovery rule at the end.
buildRules(conf) ==
  IF conf # <<>> THEN conf
  ELSE <<<<[type |-> "provided", create |-> FALSE, value |-> <<>>,
            filter |-> newFilter("", {}, {})]>>>>

=============================================================================
