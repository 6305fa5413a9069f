-------------------------- MODULE UserGroupManager --------------------------
(***************************************************************************)
(* The user and group manager (ugm.Manager): what the applications of a    *)
(* user, and of the group an application is linked to, use per queue, and  *)
(* the limits of the configuration on it.                                  *)
(*                                                                         *)
(* Three goroutines use it: the scheduler asks CanRunApp and Headroom and  *)
(* then calls IncreaseTrackedResource, the RM goroutine increases and      *)
(* decreases, a reload of the configuration runs UpdateConfig.  The two    *)
(* first hold the lock of the application; the manager and every tracker   *)
(* have locks of their own, and a step below is one critical section.      *)
(*                                                                         *)
(* A tracker is an object.  `map' says which one the manager knows under a *)
(* name (0: none), a goroutine keeps the number of the one it looked up,   *)
(* and numbers of trackers nobody refers to are used again.                *)
(***************************************************************************)
EXTENDS QueueTracker

CONSTANTS Apps, Users, Groups,
          Scenes,     \* sequence: configurations and applications
          MaxUse,     \* bound: what an application uses
          MaxCalls,   \* bound: calls for the applications
          MaxLive     \* bound: trackers of one name at the same time

ASSUME BoundsAssumption == MaxUse \in Nat \ {0} /\ MaxCalls \in Nat /\ MaxLive \in Nat \ {0}

VARIABLES map, heap,  \* the trackers
          loaded,     \* the configuration in use, by number; 0 at the start
          reload,     \* what UpdateConfig still has to do
          work,       \* what the other goroutines do
          used,       \* what the calls have charged to the user, per application
          sure,       \* the answers the scheduler got are not outdated
          calls,      \* calls so far
          panic, scene

vars == <<map, heap, loaded, reload, work, used, sure, calls, panic, scene>>

Threads == {"sched", "rm"}
Wildcard == "*"
Keys == [kind : {"user"}, name : Users] \cup [kind : {"group"}, name : Groups \cup {Wildcard}]
UserKey(name) == [kind |-> "user", name |-> name]
GroupKey(name) == [kind |-> "group", name |-> name]

Conf(n) == IF n = 0 THEN <<>> ELSE Scenes[scene].confs[n]
AppOf(a) == Scenes[scene].app[a]
Owner(a) == UserKey(AppOf(a).user)

-----------------------------------------------------------------------------
(* The maps of limits, derived from the configuration: a sequence of       *)
(* limits in the order internalProcessConfig meets them.                   *)

\* By configuration (0 is the empty one), kind, path and name.
LimitMaps ==
  [s \in DOMAIN Scenes |-> [n \in 0 .. Len(Scenes[s].confs) |-> [kind \in {"user", "group"} |->
     LET limits == IF n = 0 THEN {} ELSE {l \in ToSet(Scenes[s].confs[n]) : l.kind = kind}
     IN  [e \in {<<l.path, l.name>> : l \in limits} |-> CHOOSE l \in limits : <<l.path, l.name>> = e]]]]
Limits(n, kind) == LimitMaps[scene][n][kind]
Named(n, kind) == {e \in DOMAIN Limits(n, kind) : kind = "group" \/ e[2] # Wildcard}
LimitOf(n, kind, path, name) == Limits(n, kind)[<<path, name>>]
WildPaths(n, kind) == {e[1] : e \in {f \in DOMAIN Limits(n, kind) : f[2] = Wildcard}}
userWildCardLimitsConfig(n) == [p \in WildPaths(n, "user") |-> LimitOf(n, "user", p, Wildcard)]
configuredGroups(n, path) ==
  SelectSeq(Conf(n), LAMBDA l : l.kind = "group" /\ l.path = path /\ l.name # Wildcard)

\* What a new node of a tracker starts with.
Wild(k) == IF k.kind = "user" THEN userWildCardLimitsConfig(loaded) ELSE <<>>
NewTracker(k) == [link |-> <<>>, q |-> root :> newQueueTracker(Wild(k), root)]

-----------------------------------------------------------------------------
Idle == [prog |-> <<>>, a |-> None, u |-> 0, e |-> 0, link |-> None, g |-> 0, ok |-> TRUE, remove |-> FALSE]

\* The references of a goroutine: the user tracker, the one ensureGroup...
\* looked up again, the group tracker.
Refers(w, k, id) ==
  /\ w.a # None
  /\ \/ k = Owner(w.a) /\ id \in {w.u, w.e}
     \/ w.link # None /\ k = GroupKey(w.link) /\ w.g = id

Live(m, ws, k, id) == m[k] = id \/ \E t \in Threads : Refers(ws[t], k, id)
Free(k) == {id \in 1 .. MaxLive : ~Live(map, work, k, id)}
Fresh(k) == CHOOSE id \in Free(k) : \A o \in Free(k) : id <= o

\* The new values, with the trackers nobody refers to any longer collected.
Commit(ws, m, h) ==
  /\ work' = ws /\ map' = m
  /\ heap' = [k \in Keys |-> [id \in 1 .. MaxLive |->
                IF h[k][id] # None /\ Live(m, ws, k, id) THEN h[k][id] ELSE None]]

At(t, op) == work[t].prog # <<>> /\ Head(work[t].prog) = op
Next1(t) == [work[t] EXCEPT !.prog = Tail(@)]
Done(t, w) == [work EXCEPT ![t] = IF w.prog = <<>> THEN Idle ELSE w]

Tracker(k, id) == heap[k][id]
Unlocked == reload.phase # "clear"
Quiet == UNCHANGED <<loaded, reload, calls, scene>>
Steady == UNCHANGED <<used, sure, panic>> /\ Quiet

-----------------------------------------------------------------------------
(* The calls.                                                              *)

\* A step on a tracker says whether it is the one of the user or of the group.
Call(op) == <<<<"get">>, <<op, "user">>, <<"ensure">>, <<"group">>, <<op, "group">>>>
IncreaseProg == <<<<"get">>, <<"ensure">>, <<"increase", "user">>, <<"group">>, <<"increase", "group">>>>
HeadroomProg == Call("headroom")
CanRunProg == Call("canRun")
DecreaseProg == <<<<"find">>, <<"decrease", "user">>, <<"look">>, <<"decrease", "group">>>>

Begin(t, a, prog, remove) ==
  /\ ~panic /\ loaded # 0
  /\ \A o \in Threads : work[o].a # a     \* the lock of the application
  /\ work[t].prog = <<>>
  /\ work' = [work EXCEPT ![t] = [Idle EXCEPT !.prog = prog, !.a = a, !.remove = remove]]
  /\ calls < MaxCalls /\ calls' = calls + 1
  /\ UNCHANGED <<map, heap, loaded, reload, used, panic, scene>>

\* tryAllocate: an application that does not run yet is asked for first, and
\* what fits in the headroom is allocated.
Schedule(a) ==
  /\ used[a] < MaxUse
  /\ Begin("sched", a, (IF used[a] = 0 THEN CanRunProg ELSE <<>>) \o HeadroomProg \o IncreaseProg, FALSE)
  /\ sure' = TRUE

\* An allocation the RM recovers or grows, without a check.
Recover(a) == used[a] < MaxUse /\ Begin("rm", a, IncreaseProg, FALSE) /\ UNCHANGED sure

\* The application is removed with the last of its usage.
Release(a) ==
  /\ used[a] > 0
  /\ \E remove \in {FALSE, used[a] = 1} : Begin("rm", a, DecreaseProg, remove)
  /\ UNCHANGED sure

-----------------------------------------------------------------------------
(* Steps of the manager that look a tracker up.                            *)

\* getUserTracker: the tracker is created when it is not there.  A call of the
\* scheduler is not made when the call before it said no.
getUserTracker(t) ==
  /\ At(t, <<"get">>) /\ work[t].ok /\ Unlocked
  /\ LET k == Owner(work[t].a)
         id == IF map[k] # 0 THEN map[k] ELSE Fresh(k)
     IN  /\ map[k] # 0 \/ Free(k) # {}
         /\ Commit(Done(t, [Next1(t) EXCEPT !.u = id, !.link = None, !.g = 0]), [map EXCEPT ![k] = id],
                   IF map[k] # 0 THEN heap ELSE [heap EXCEPT ![k][id] = NewTracker(k)])
  /\ Steady

GiveUp(t) ==
  /\ At(t, <<"get">>) /\ ~work[t].ok
  /\ Commit([work EXCEPT ![t] = Idle], map, heap)
  /\ Steady

LinkOf(k, id, a) ==
  LET links == Tracker(k, id).link IN IF a \in DOMAIN links THEN links[a] ELSE None

\* DecreaseTrackedResource looks the tracker and the group up, and is done when
\* there is no tracker.
GetUserTracker(t) ==
  /\ At(t, <<"find">>) /\ Unlocked
  /\ LET a == work[t].a
         id == map[Owner(a)]
     IN  /\ Commit([work EXCEPT ![t] = IF id = 0 THEN Idle
                                       ELSE [Next1(t) EXCEPT !.u = id, !.link = LinkOf(Owner(a), id, a)]], map, heap)
         /\ used' = [used EXCEPT ![a] = IF id = 0 THEN @ - 1 ELSE @]
  /\ UNCHANGED <<sure, panic>> /\ Quiet

\* ensureGroupInternal: the first configured group of the leaf that the user
\* is in, or the wild card, or what the parent says.
ensureGroupInternal(userGroups, path) ==
  LET at[n \in 0 .. Len(path)] ==
        IF n = 0 THEN None
        ELSE LET p == SubSeq(path, 1, n)
                 match == SelectSeq(configuredGroups(loaded, p), LAMBDA l : l.name \in userGroups)
             IN  IF match # <<>> THEN match[1].name
                 ELSE IF p \in WildPaths(loaded, "group") THEN Wildcard ELSE at[n - 1]
  IN  IF userGroups = {} THEN None ELSE at[Len(path)]

Linked(k, id, a, g) == [heap EXCEPT ![k][id].link = (a :> g) @@ @]

\* hasGroupForApp and ensureGroupTrackerForApp: the user tracker is looked up
\* again, by name, and the application is linked to its group, for good when
\* there is none.  A group tracker that is not there is created in a step of
\* its own.
ensureGroupTrackerForApp(t) ==
  /\ At(t, <<"ensure">>) /\ Unlocked
  /\ LET w == work[t]
         k == Owner(w.a)
         id == map[k]
         g == ensureGroupInternal(AppOf(w.a).groups, AppOf(w.a).path)
         linked == w.a \in DOMAIN Tracker(k, w.u).link
     IN  IF ~linked /\ id = 0
         THEN panic' = TRUE /\ UNCHANGED <<work, map, heap>>
         ELSE /\ IF linked \/ w.a \in DOMAIN Tracker(k, id).link
                 THEN Commit(Done(t, Next1(t)), map, heap)
                 ELSE IF g = None \/ map[GroupKey(g)] # 0
                 THEN Commit(Done(t, Next1(t)), map, Linked(k, id, w.a, g))
                 ELSE Commit([work EXCEPT ![t] = [w EXCEPT !.prog = <<<<"newGroup">>>> \o Tail(@), !.e = id, !.link = g]],
                             map, heap)
              /\ UNCHANGED panic
  /\ UNCHANGED <<used, sure>> /\ Quiet

newGroupTracker(t) ==
  /\ At(t, <<"newGroup">>) /\ Unlocked
  /\ LET w == work[t]
         k == GroupKey(w.link)
     IN  /\ Free(k) # {}
         /\ Commit(Done(t, [Next1(t) EXCEPT !.e = 0, !.link = None]), [map EXCEPT ![k] = Fresh(k)],
                   [Linked(Owner(w.a), w.e, w.a, w.link) EXCEPT ![k][Fresh(k)] = NewTracker(k)])
  /\ Steady

\* getGroupForApp and GetGroupTracker.  The call ends here when the group, or
\* its tracker, is not there.
GetGroupTracker(t) ==
  /\ \E op \in {"group", "look"} : At(t, <<op>>)
  /\ Unlocked
  /\ LET w == work[t]
         g == IF At(t, <<"group">>) THEN LinkOf(Owner(w.a), w.u, w.a) ELSE w.link
         id == IF g = None THEN 0 ELSE map[GroupKey(g)]
     IN  Commit(Done(t, IF id = 0 THEN [w EXCEPT !.prog = Tail(Tail(@)), !.link = None]
                        ELSE [Next1(t) EXCEPT !.link = g, !.g = id]), map, heap)
  /\ Steady

-----------------------------------------------------------------------------
(* Steps on a tracker, under its own lock.                                 *)

KeyOf(w, kind) == IF kind = "user" THEN Owner(w.a) ELSE GroupKey(w.link)
IdOf(w, kind) == IF kind = "user" THEN w.u ELSE w.g
Put(k, id, q) == [heap EXCEPT ![k][id].q = q]

increase(t, kind) ==
  /\ At(t, <<"increase", kind>>)
  /\ LET w == work[t]
         k == KeyOf(w, kind)
         q == increaseTrackedResource(Tracker(k, IdOf(w, kind)).q, Wild(k), AppOf(w.a).path, w.a, 1)
         h == Put(k, IdOf(w, kind), q)
     IN  /\ Commit(Done(t, Next1(t)), map,
                   IF kind = "user" THEN h ELSE [h EXCEPT ![k][w.g].link = (w.a :> Owner(w.a).name) @@ @])
         /\ used' = [used EXCEPT ![w.a] = IF kind = "user" THEN @ + 1 ELSE @]
  /\ sure' = (sure /\ t = "sched")
  /\ UNCHANGED panic /\ Quiet

\* The application leaves the tracker with its last usage.
decrease(t, kind) ==
  /\ At(t, <<"decrease", kind>>)
  /\ LET w == work[t]
         k == KeyOf(w, kind)
         tr == Tracker(k, IdOf(w, kind))
         path == AppOf(w.a).path
         left == [app \in DOMAIN tr.link \ (IF w.remove THEN {w.a} ELSE {}) |-> tr.link[app]]
     IN  /\ Commit(Done(t, [w EXCEPT !.prog = (IF DecreaseRemoves(tr.q, path, w.a, 1, w.remove) THEN <<<<"delete", kind>>>> ELSE <<>>) \o Tail(@)]),
                   map, [heap EXCEPT ![k][IdOf(w, kind)] = [link |-> left, q |-> Decreased(tr.q, path, w.a, 1, w.remove)]])
         /\ used' = [used EXCEPT ![w.a] = IF kind = "user" THEN @ - 1 ELSE @]
  /\ UNCHANGED <<sure, panic>> /\ Quiet

\* The manager forgets the tracker of that name, whichever it is by now.
deleteTracker(t, kind) ==
  /\ At(t, <<"delete", kind>>) /\ Unlocked
  /\ Commit(Done(t, Next1(t)), [map EXCEPT ![KeyOf(work[t], kind)] = 0], heap)
  /\ Steady

\* headroom and canRunApp create the trackers on the path.
Ask(t, kind, op, answer(_)) ==
  /\ At(t, <<op, kind>>)
  /\ LET w == work[t]
         k == KeyOf(w, kind)
         q == Grown(Tracker(k, IdOf(w, kind)).q, Wild(k), AppOf(w.a).path)
     IN  Commit(Done(t, [Next1(t) EXCEPT !.ok = @ /\ answer(q)]), map, Put(k, IdOf(w, kind), q))
  /\ Steady

headroom(t, kind) ==
  Ask(t, kind, "headroom", LAMBDA q : WithinHeadroom(q, AppOf(work[t].a).path, 1))
canRun(t, kind) ==
  Ask(t, kind, "canRun", LAMBDA q : canRunApp(q, AppOf(work[t].a).path, work[t].a))

-----------------------------------------------------------------------------
(* UpdateConfig.                                                           *)

Ready == [phase |-> "none", set |-> <<>>, entries |-> {}, entry |-> None, step |-> None]
NewConf == loaded + 1
UserIds == {k \in Keys : k.kind = "user" /\ map[k] # 0}

\* Mutant: every limit that was set before is cleared.
GoneAll(kind, old, new) == {[kind |-> kind, path |-> e[1], name |-> e[2]] : e \in Named(old, kind)}

\* The limits named in one configuration and not in the other.
Gone(kind, old, new) == {[kind |-> kind, path |-> e[1], name |-> e[2]] : e \in Named(old, kind) \ Named(new, kind)}

UpdateConfig ==
  /\ ~panic /\ reload = Ready /\ loaded < Len(Scenes[scene].confs)
  /\ reload' = [Ready EXCEPT !.phase = "set", !.set = SelectSeq(Conf(NewConf),
                   LAMBDA l : l.kind = "group" \/ l.name # Wildcard)]
  /\ UNCHANGED <<map, heap, loaded, work, used, sure, calls, panic, scene>>

Conform == UNCHANGED <<loaded, work, used, calls, scene>> /\ sure' = FALSE

\* setUserLimits and setGroupLimits, under the lock of the manager.
setLimits ==
  /\ reload.phase = "set" /\ reload.set # <<>>
  /\ LET l == Head(reload.set)
         k == [kind |-> l.kind, name |-> l.name]
         id == IF map[k] # 0 THEN map[k] ELSE Fresh(k)
         tr == IF map[k] # 0 THEN Tracker(k, id) ELSE NewTracker(k)
     IN  /\ map[k] # 0 \/ Free(k) # {}
         /\ map' = [map EXCEPT ![k] = id]
         /\ heap' = [heap EXCEPT ![k][id] =
                       [tr EXCEPT !.q = setLimit(@, Wild(k), l.path, l.res, l.apps, FALSE, FALSE)]]
  /\ reload' = [reload EXCEPT !.set = Tail(@)]
  /\ UNCHANGED panic /\ Conform

\* clearEarlierSetLimits: the lock of the manager is held to the end of the
\* phase; the groups come first.
clearEarlierSetLimits ==
  /\ reload.phase = "set" /\ reload.set = <<>>
  /\ reload' = [reload EXCEPT !.phase = "clear",
                  !.entries = Gone("group", loaded, NewConf) \cup Gone("user", loaded, NewConf)]
  /\ UNCHANGED <<map, heap, panic>> /\ Conform

\* resetGroupEarlierUsage: the usage is dropped, and its applications are
\* unlinked from the group in the trackers of their users.  The maps are walked
\* in any order.
Reset ==
  /\ reload.phase = "clear" /\ reload.entry = None
  /\ \E e \in reload.entries :
       LET k == [kind |-> e.kind, name |-> e.name]
           tr == Tracker(k, map[k])
           apps == tr.q[e.path].running \cap DOMAIN tr.link
           owner(a) == UserKey(tr.link[a])
           unlinked(h) == [o \in Keys |-> [id \in 1 .. MaxLive |->
             IF id = map[o] /\ \E a \in apps : owner(a) = o
             THEN [h[o][id] EXCEPT !.link = [a \in DOMAIN @ \ {b \in apps : owner(b) = o} |-> @[a]]]
             ELSE h[o][id]]]
       IN  /\ e.kind = "user" => \A o \in reload.entries : o.kind = "user"
           /\ IF map[k] = 0 \/ ~isQueuePathTrackedCompletely(Tracker(k, map[k]).q, e.path)
              THEN reload' = [reload EXCEPT !.entries = @ \ {e}] /\ UNCHANGED <<heap, panic>>
              ELSE /\ reload' = [reload EXCEPT !.entries = @ \ {e}, !.entry = e, !.step = "limits"]
                   /\ IF e.kind = "user" THEN UNCHANGED <<heap, panic>>
                      ELSE IF \E a \in apps : map[owner(a)] = 0
                      THEN panic' = TRUE /\ UNCHANGED heap
                      ELSE heap' = unlinked(Put(k, map[k], Dropped(tr.q, e.path))) /\ UNCHANGED panic
  /\ UNCHANGED map /\ Conform

OnEntry(step) == reload.phase = "clear" /\ reload.entry # None /\ reload.step = step
EntryKey == [kind |-> reload.entry.kind, name |-> reload.entry.name]
EntryTracker == Tracker(EntryKey, map[EntryKey])

\* clearLimits, then isUnlinkRequired and unlinkQT.
clearLimits ==
  /\ OnEntry("limits")
  /\ LET q == setLimit(EntryTracker.q, Wild(EntryKey), reload.entry.path, 0, 0, FALSE, FALSE)
     IN  heap' = Put(EntryKey, map[EntryKey],
                     IF isUnlinkRequired(q, reload.entry.path) THEN unlink(q, reload.entry.path) ELSE q)
  /\ reload' = [reload EXCEPT !.step = "remove"]
  /\ UNCHANGED <<map, panic>> /\ Conform

removeTracker ==
  /\ OnEntry("remove")
  /\ LET m == IF canBeRemoved(EntryTracker.q) THEN [map EXCEPT ![EntryKey] = 0] ELSE map
     IN  Commit(work, m, heap)
  /\ reload' = [reload EXCEPT !.entry = None, !.step = None]
  /\ UNCHANGED <<loaded, used, calls, panic, scene>> /\ sure' = FALSE

\* clearEarlierSetUserWildCardLimits and applyWildCardUserLimits, for every
\* user that is tracked.  The first compares the old and the new limits only
\* where one of the configurations names no user for the queue.
WildCardCleared(k, q) ==
  LET old == userWildCardLimitsConfig(loaded)
      new == userWildCardLimitsConfig(NewConf)
      named(n, p) == <<p, k.name>> \in Named(n, "user")
      naming(n, p) == \E e \in Named(n, "user") : e[1] = p
      due(p) == /\ ~naming(loaded, p) \/ ~naming(NewConf, p)
                /\ ~named(loaded, p) \/ ~named(NewConf, p)
                /\ p \in DOMAIN new => <<old[p].res, old[p].apps>> # <<new[p].res, new[p].apps>>
      to(p, s) == IF p \in DOMAIN new THEN setLimit(s, Wild(k), p, new[p].res, new[p].apps, TRUE, TRUE)
                  ELSE setLimit(s, Wild(k), p, 0, 0, FALSE, TRUE)
  IN  FoldSet(to, q, {p \in DOMAIN old : due(p)})

WildCardApplied(k, q) ==
  LET new == userWildCardLimitsConfig(NewConf)
      to(p, s) == setLimit(s, Wild(k), p, new[p].res, new[p].apps, TRUE, FALSE)
  IN  FoldSet(to, q, {p \in DOMAIN new : <<p, k.name>> \notin Named(NewConf, "user")})

ForUsers(op(_, _)) ==
  heap' = [k \in Keys |-> IF k \notin UserIds THEN heap[k]
                          ELSE [heap[k] EXCEPT ![map[k]].q = op(k, @)]]

clearEarlierSetUserWildCardLimits ==
  /\ reload.phase = "clear" /\ reload.entry = None /\ reload.entries = {}
  /\ ForUsers(WildCardCleared)
  /\ reload' = [reload EXCEPT !.phase = "wild"]
  /\ UNCHANGED <<map, panic>> /\ Conform

applyWildCardUserLimits ==
  /\ reload.phase = "wild"
  /\ ForUsers(WildCardApplied)
  /\ reload' = [reload EXCEPT !.phase = "replace"]
  /\ UNCHANGED <<map, panic>> /\ Conform

replaceLimitConfigs ==
  /\ reload.phase = "replace"
  /\ loaded' = NewConf /\ reload' = Ready
  /\ sure' = FALSE
  /\ UNCHANGED <<map, heap, work, used, calls, panic, scene>>

-----------------------------------------------------------------------------
Init ==
  /\ scene \in 1 .. Len(Scenes)
  /\ map = [k \in Keys |-> 0] /\ heap = [k \in Keys |-> [id \in 1 .. MaxLive |-> None]]
  /\ loaded = 0 /\ reload = Ready
  /\ work = [t \in Threads |-> Idle] /\ used = [a \in Apps |-> 0]
  /\ sure = TRUE /\ calls = 0 /\ panic = FALSE

Lookup(t) ==
  \/ getUserTracker(t) \/ GiveUp(t) \/ GetUserTracker(t) \/ ensureGroupTrackerForApp(t) \/ newGroupTracker(t)
  \/ GetGroupTracker(t)

OnTracker(t) ==
  \E kind \in {"user", "group"} :
    increase(t, kind) \/ decrease(t, kind) \/ deleteTracker(t, kind) \/ headroom(t, kind) \/ canRun(t, kind)

Reload ==
  \/ UpdateConfig \/ setLimits \/ clearEarlierSetLimits \/ Reset \/ clearLimits \/ removeTracker
  \/ clearEarlierSetUserWildCardLimits \/ applyWildCardUserLimits \/ replaceLimitConfigs

\* A panic ends the process.
Next ==
  \/ \E a \in Apps : Schedule(a) \/ Recover(a) \/ Release(a)
  \/ ~panic /\ ((\E t \in Threads : Lookup(t) \/ OnTracker(t)) \/ Reload)

Spec == Init /\ [][Next]_vars

-----------------------------------------------------------------------------
(* Properties.                                                             *)

TypeOK ==
  /\ map \in [Keys -> 0 .. MaxLive]
  /\ \A k \in Keys, id \in 1 .. MaxLive :
       Tracker(k, id) # None => /\ root \in DOMAIN Tracker(k, id).q
                                /\ \A p \in DOMAIN Tracker(k, id).q : Upto(p) \subseteq DOMAIN Tracker(k, id).q
  /\ used \in [Apps -> 0 .. MaxUse] /\ panic \in BOOLEAN /\ sure \in BOOLEAN

PathsOf(n, k) == {e[1] : e \in {f \in Named(n, k.kind) : f[2] = k.name}}

\* The names every configuration of the scene has a limit for: a user at the
\* root, a group for the same queues each time.
KeptNames ==
  [s \in DOMAIN Scenes |->
     LET paths(n, k) == {e[1] : e \in {f \in DOMAIN LimitMaps[s][n][k.kind] : f[2] = k.name}}
     IN  {k \in Keys : \A n \in DOMAIN Scenes[s].confs :
            IF k.kind = "user" THEN root \in paths(n, k) ELSE paths(n, k) # {} /\ paths(n, k) = paths(1, k)}]
Kept(k) == k \in KeptNames[scene]

SumUsed(apps) == FoldSet(LAMBDA a, s : s + used[a], 0, apps)
Known(k) == Tracker(k, map[k])

\* The usage of a user who always has a limit is, for every queue, what the
\* calls charged to the applications of the user in and below that queue, and
\* the applications with usage run there, whatever reload and other calls do
\* in between (UserTracker.increaseTrackedResource, decreaseTrackedResource,
\* resetUserEarlierUsage).
UserExact ==
  \A k \in Keys :
    k.kind = "user" /\ Kept(k) /\ loaded # 0 =>
      LET mine(p) == {a \in Apps : Owner(a) = k /\ p \in Upto(AppOf(a).path)}
      IN  /\ \A p \in DOMAIN Known(k).q : Amount(Known(k).q[p]) = SumUsed(mine(p))
          /\ \A a \in mine(root) : used[a] > 0 => /\ AppOf(a).path \in DOMAIN Known(k).q
                                                   /\ a \in Known(k).q[AppOf(a).path].running

\* Between calls the usage of a group whose limits stay is what its linked
\* applications use (GroupTracker.increaseTrackedResource,
\* decreaseTrackedResource): no call charged the user and not the group, or a
\* group that was replaced in between.
GroupExact ==
  \A k \in Keys :
    k.kind = "group" /\ Kept(k) /\ (\A a \in Apps : Kept(Owner(a))) /\ loaded # 0 /\ (\A t \in Threads : work[t] = Idle) =>
      LET linked(p) == {a \in Apps : /\ p \in Upto(AppOf(a).path)
                                     /\ a \in DOMAIN Known(Owner(a)).link
                                     /\ Known(Owner(a)).link[a] = k.name}
      IN  \A p \in DOMAIN Known(k).q : Amount(Known(k).q[p]) = SumUsed(linked(p))

HasLimit(k, n, p) ==
  /\ map[k] # 0 /\ p \in DOMAIN Known(k).q
  /\ LET l == LimitOf(n, k.kind, p, k.name)
     IN  <<Known(k).q[p].res, Known(k).q[p].apps>> = <<l.res, l.apps>>

\* After a reload a name that always has a limit has the limits the
\* configuration names for it, below queues that did not lose theirs
\* (UpdateConfig).
LimitsKept ==
  reload = Ready /\ loaded # 0 =>
    \A k \in Keys : Kept(k) =>
      \A p \in PathsOf(loaded, k) :
        (loaded > 1 => \A o \in Upto(p) \ {p} : o \in PathsOf(loaded - 1, k) => o \in PathsOf(loaded, k))
          => HasLimit(k, loaded, p)

\* The scheduler never takes a user or a group over a limit it checked, unless
\* the limits or the usage were raised since (Headroom, CanRunApp and
\* IncreaseTrackedResource look the trackers up anew).
WithinLimits ==
  [][\A kind \in {"user", "group"} :
       At("sched", <<"increase", kind>>) /\ sure /\ work'["sched"] # work["sched"] =>
         LET w == work["sched"]
             before == Tracker(KeyOf(w, kind), IdOf(w, kind)).q
             after == heap'[KeyOf(w, kind)][IdOf(w, kind)].q
         IN  heap'[KeyOf(w, kind)][IdOf(w, kind)] # None =>
             \A p \in Upto(AppOf(w.a).path) :
               /\ after[p].res = 0 \/ Amount(after[p]) <= after[p].res
               /\ kind = "user" /\ after[p].apps # 0 /\ (p \in DOMAIN before => w.a \notin before[p].running)
                  => Cardinality(after[p].running) <= after[p].apps]_vars

\* The trackers of users and groups that keep a limit hold what was charged.
UsageTracked == TypeOK /\ UserExact /\ GroupExact

-----------------------------------------------------------------------------
(* Expected of the code by its comments, and not so: see the README.       *)

\* After a reload everybody has the limits the configuration names.
LimitsApplied ==
  reload = Ready /\ loaded # 0 => \A k \in Keys : \A p \in PathsOf(loaded, k) : HasLimit(k, loaded, p)

\* No call finds the tracker of the user gone (ensureGroupTrackerForApp,
\* resetGroupEarlierUsage).
TrackerCreated == ~panic

=============================================================================
