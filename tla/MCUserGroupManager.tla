------------------------- MODULE MCUserGroupManager -------------------------
(* Scenes: limits of a user that come, change and go at three levels while  *)
(* the group keeps its own; a user who is only tracked for the group;       *)
(* limits for the wild card user.                                           *)
EXTENDS UserGroupManager

p == <<"root", "p">>
a == <<"root", "p", "a">>
b == <<"root", "p", "b">>

User(path, name, res, apps) == [kind |-> "user", path |-> path, name |-> name, res |-> res, apps |-> apps]
Group(path, name, res, apps) == [kind |-> "group", path |-> path, name |-> name, res |-> res, apps |-> apps]
App(user, groups, path) == [user |-> user, groups |-> groups, path |-> path]

KeptLimits == <<
  <<User(root, "u", 2, 0), Group(root, "g", 2, 2), User(p, "u", 0, 1), User(a, "u", 1, 0)>>,
  <<User(root, "u", 1, 0), Group(root, "g", 2, 2), User(a, "u", 1, 1), User(b, "u", 1, 1)>> >>
GroupOnly == <<
  <<Group(p, "g", 1, 1), Group(root, Wildcard, 2, 0)>>,
  <<Group(root, Wildcard, 2, 0)>> >>
WildUser == <<
  <<User(p, Wildcard, 1, 1), User(root, "u", 2, 0)>>,
  <<User(root, "u", 2, 0), User(p, "u", 2, 2), User(a, Wildcard, 1, 0)>> >>

MCScenes == <<
  [confs |-> KeptLimits, app |-> ("a1" :> App("u", {"g"}, a)) @@ ("a2" :> App("u", {"g"}, b))],
  [confs |-> GroupOnly, app |-> ("a1" :> App("u", {"g"}, a)) @@ ("a2" :> App("u", {"g"}, a))],
  [confs |-> WildUser, app |-> ("a1" :> App("u", {}, a)) @@ ("a2" :> App("v", {"g"}, a))] >>

=============================================================================
