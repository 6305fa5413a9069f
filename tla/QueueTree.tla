------------------------------ MODULE QueueTree ------------------------------
(***************************************************************************)
(* The tree of queues of a partition while it changes: applications are    *)
(* placed and create queues (PartitionContext.AddApplication), the         *)
(* configuration is reloaded (updatePartitionDetails), the partition is    *)
(* removed (partitionManager.remove), and the cleaner of the partition     *)
(* manager removes what is drained or dynamic and empty (cleanQueues).     *)
(*                                                                         *)
(* A queue is an object: its identity is the path and the number of times  *)
(* the path was created, so that a pointer to a queue that has left the    *)
(* tree is not mistaken for its successor.  `pc' is the partition lock:    *)
(* AddApplication and the reload hold it, the cleaner does not.  Looking a *)
(* path up is one step: a walk down under the partition lock meets no      *)
(* queue that is added, and a queue below it is removed before it.         *)
(***************************************************************************)
EXTENDS Placement, FiniteSets, TLC

CONSTANTS Apps,
          Scenes,      \* sequence: configurations, application requests
          MaxGen,      \* bound: times a path is created
          Depth        \* bound: parts of a path

ASSUME GenAssumption == MaxGen \in Nat \ {0}

VARIABLES obj,     \* every queue object that was created
          app,     \* state of the applications
          loaded,  \* the configuration in use, by number
          partition, pc, stopped, panic,
          todo, scene,
          call     \* history: what happened during the AddApplication that runs

vars == <<obj, app, loaded, partition, pc, stopped, panic, todo, scene, call>>
env == <<loaded, partition, stopped, scene>>

Threads == {"rm", "clean", "conf"}
Request == Scenes[scene].request
Conf == Scenes[scene].confs[loaded]
rules == buildRules(Conf.rules)

Id(path, gen) == [path |-> path, gen |-> gen]
RootId == Id(RootPath, 1)
Above(path) == Front(path)

Created(path) == {id \in DOMAIN obj : id.path = path}
NextId(path) == Id(path, Cardinality(Created(path)) + 1)
CanCreate(path) == Cardinality(Created(path)) < MaxGen

\* The objects that hang in the tree, level by level below the root.
InTree ==
  LET level[n \in 1 .. Depth] ==
        IF n = 1 THEN {RootId} ELSE UNION {obj[id].children : id \in level[n - 1]}
  IN  UNION {level[n] : n \in 1 .. Depth}

\* getQueueInternal: the object at a path, None when a part is missing.
getQueueInternal(path) ==
  LET found == {id \in InTree : id.path = path}
  IN  IF found = {} THEN None ELSE CHOOSE id \in found : TRUE

tree ==
  LET ids == InTree
      at(p) == obj[CHOOSE id \in ids : id.path = p]
  IN  [p \in {id.path : id \in ids} |-> 
       [leaf |-> at(p).leaf, draining |-> at(p).state = "Draining", acl |-> at(p).acl]]

IsEmpty(id) == IF obj[id].leaf THEN obj[id].apps = {} ELSE obj[id].children = {}

\* acl: the users that the submit and the admin ACL name.
NewQueue(parent, managed, leaf, acl) ==
  [parent |-> parent, children |-> {}, apps |-> {}, managed |-> managed, leaf |-> leaf,
   acl |-> acl, state |-> "Active"]

\* addChildQueue: refused by a leaf and by a draining parent; the entry of the
\* same name is replaced.
Refused(id) == obj[id].leaf \/ obj[id].state = "Draining"
addChildQueue(parent, child, new) ==
  obj' = [obj EXCEPT ![parent].children = {c \in @ : c.path # child.path} \cup {child}]
         @@ (child :> new)

Now(t) == Head(todo[t])
At(t, op) == todo[t] # <<>> /\ Now(t).op = op
Continue(t, prog) == todo' = [todo EXCEPT ![t] = prog]
Then(t, prog) == Continue(t, prog \o Tail(todo[t]))

-----------------------------------------------------------------------------
(* The RM goroutine: AddApplication.                                       *)

Reject(a) ==
  /\ app' = [app EXCEPT ![a] = "rejected"]
  /\ Continue("rm", <<>>)

\* The placement holds no lock between the queues it looks at; it is one step here.
AddApplication(a) ==
  /\ todo["rm"] = <<>> /\ app[a] = "new" /\ pc = None
  /\ LET path == PlaceApplication(rules, Request[a], tree)
     IN  IF path = <<Panic>>
         THEN panic' = "place" /\ UNCHANGED <<app, todo>>
         ELSE /\ IF partition # "Active" \/ path \in {<<>>, <<Error>>}
                 THEN Reject(a)
                 ELSE /\ Continue("rm", <<[op |-> "lookup", a |-> a, path |-> path]>>)
                      /\ UNCHANGED app
              /\ UNCHANGED panic
  /\ UNCHANGED <<obj, pc, env>>

\* The partition lock is taken; createQueue looks for the lowest queue that
\* exists and checks it.
lookupQueue ==
  /\ At("rm", "lookup") /\ pc = None
  /\ LET a == Now("rm").a
         path == Now("rm").path
         low == Existing(path, tree)
         id == getQueueInternal(low)
     IN  IF low = path THEN /\ pc' = "rm"
                            /\ Continue("rm", <<[op |-> "join", a |-> a, id |-> id]>>)
                            /\ UNCHANGED app
         ELSE IF path # RecoveryQueueFull /\ (~CheckSubmitAccess(Request[a].user, low, tree) \/ obj[id].leaf)
         THEN Reject(a) /\ UNCHANGED pc
         ELSE /\ pc' = "rm"
              /\ Continue("rm", <<[op |-> "create", a |-> a, id |-> id, path |-> path]>>)
              /\ UNCHANGED app
  /\ UNCHANGED <<obj, panic, env>>

\* NewDynamicQueue and NewRecoveryQueue: one queue below the other, the last
\* one is the leaf.
createQueue ==
  /\ At("rm", "create")
  /\ LET c == Now("rm")
         path == SubSeq(c.path, 1, Len(c.id.path) + 1)
         child == NextId(path)
         leaf == path = c.path
     IN  IF Refused(c.id)
         THEN Reject(c.a) /\ pc' = None /\ UNCHANGED obj
         ELSE /\ CanCreate(path)
              /\ addChildQueue(c.id, child, NewQueue(c.id, FALSE, leaf, {}))
              /\ Continue("rm", IF leaf THEN <<[op |-> "join", a |-> c.a, id |-> child]>>
                                ELSE <<[c EXCEPT !.id = child]>>)
              /\ UNCHANGED <<app, pc>>
  /\ UNCHANGED <<panic, env>>

\* The leaf check, the check of a gang request, and queue.AddApplication.
joinQueue ==
  /\ At("rm", "join")
  /\ LET a == Now("rm").a
         id == Now("rm").id
     IN  IF ~obj[id].leaf \/ ~Request[a].fits
         THEN Reject(a) /\ UNCHANGED obj
         ELSE /\ obj' = [obj EXCEPT ![id].apps = @ \cup {a}]
              /\ app' = [app EXCEPT ![a] = "added"]
              /\ Continue("rm", <<>>)
  /\ pc' = None
  /\ UNCHANGED <<panic, env>>

\* queue.RemoveApplication, from a removal by the RM, a timer of the
\* application or the end of the partition.
Leave(S) ==
  /\ obj' = [id \in DOMAIN obj |-> [obj[id] EXCEPT !.apps = @ \ S]]
  /\ app' = [a \in Apps |-> IF a \in S THEN "removed" ELSE app[a]]

RemoveApplication(a) ==
  /\ app[a] = "added"
  /\ Leave({a})
  /\ UNCHANGED <<pc, panic, todo, env>>

-----------------------------------------------------------------------------
(* The reload of the configuration.                                        *)

\* Placement rules first, without the partition lock.
UpdateRules ==
  /\ todo["conf"] = <<>> /\ partition = "Active" /\ loaded < Len(Scenes[scene].confs)
  /\ \A i \in DOMAIN Scenes[scene].confs[loaded + 1].rules : newRule(Scenes[scene].confs[loaded + 1].rules[i])
  /\ loaded' = loaded + 1
  /\ Continue("conf", <<[op |-> "lock"]>>)
  /\ UNCHANGED <<obj, app, partition, pc, stopped, panic, scene>>

lockPartition ==
  /\ At("conf", "lock") /\ pc = None
  /\ pc' = "conf"
  /\ Then("conf", <<[op |-> "apply", id |-> RootId], [op |-> "unlock"]>>)
  /\ UNCHANGED <<obj, app, panic, env>>

unlockPartition ==
  /\ At("conf", "unlock")
  /\ pc' = None
  /\ Continue("conf", <<>>)
  /\ UNCHANGED <<obj, app, panic, env>>

ConfChildren(path) == {p \in DOMAIN Conf.queues : Len(p) = Len(path) + 1 /\ Above(p) = path}

\* updateQueues: every configured child, then the children nobody visited.
updateQueues(id) ==
  [i \in 1 .. Cardinality(ConfChildren(id.path)) |->
     [op |-> "find", id |-> id, path |-> SetToSeq(ConfChildren(id.path))[i]]]
  \o <<[op |-> "unvisited", id |-> id]>>

findQueue ==
  /\ At("conf", "find")
  /\ LET id == getQueueInternal(Now("conf").path)
     IN  Then("conf", IF id = None THEN <<[Now("conf") EXCEPT !.op = "new"]>>
                      ELSE <<[op |-> "apply", id |-> id]>>)
  /\ UNCHANGED <<obj, app, pc, panic, env>>

\* Mutant: a queue that drains is not started again.
KeepDraining ==
  /\ At("conf", "apply")
  /\ LET id == Now("conf").id
     IN  /\ obj' = [obj EXCEPT ![id].managed = TRUE, ![id].leaf = Conf.queues[id.path],
                               ![id].acl = Conf.acl[id.path]]
         /\ Then("conf", updateQueues(id))
  /\ UNCHANGED <<app, pc, panic, env>>

\* ApplyConf: ACLs, managed, started again, leaf or parent as configured.
ApplyConf ==
  /\ At("conf", "apply")
  /\ LET id == Now("conf").id
     IN  /\ obj' = [obj EXCEPT ![id].managed = TRUE, ![id].state = "Active",
                               ![id].leaf = Conf.queues[id.path],
                               ![id].acl = Conf.acl[id.path]]
         /\ Then("conf", updateQueues(id))
  /\ UNCHANGED <<app, pc, panic, env>>

\* A parent that refuses ends the reload with an error.
NewConfiguredQueue ==
  /\ At("conf", "new")
  /\ LET path == Now("conf").path
         id == Now("conf").id
         child == NextId(path)
     IN  IF Refused(id)
         THEN Continue("conf", <<[op |-> "unlock"]>>) /\ UNCHANGED obj
         ELSE /\ CanCreate(path)
              /\ addChildQueue(id, child, NewQueue(id, TRUE, Conf.queues[path], Conf.acl[path]))
              /\ Then("conf", updateQueues(child))
  /\ UNCHANGED <<app, pc, panic, env>>

Marks(S) == [i \in 1 .. Cardinality(S) |-> [op |-> "mark", id |-> SetToSeq(S)[i]]]

markUnvisited ==
  /\ At("conf", "unvisited")
  /\ LET id == Now("conf").id
     IN  Then("conf", Marks({c \in obj[id].children : c.path \notin ConfChildren(id.path)}))
  /\ UNCHANGED <<obj, app, pc, panic, env>>

\* A managed queue, then its children; a dynamic queue is left alone.
MarkQueueForRemoval ==
  /\ At("conf", "mark")
  /\ LET id == Now("conf").id
     IN  IF obj[id].managed
         THEN /\ obj' = [obj EXCEPT ![id].state = "Draining"]
              /\ Then("conf", Marks(obj[id].children))
         ELSE Then("conf", <<>>) /\ UNCHANGED obj
  /\ UNCHANGED <<app, pc, panic, env>>

\* The partition left the configuration: it drains, its manager is stopped,
\* all queues are marked and all applications removed.
RemovePartition ==
  /\ todo["conf"] = <<>> /\ partition = "Active" /\ Scenes[scene].remove
  /\ partition' = "Draining"
  /\ stopped' = TRUE
  /\ Continue("conf", <<[op |-> "mark", id |-> RootId], [op |-> "removeApps"]>>)
  /\ UNCHANGED <<obj, app, loaded, pc, panic, scene>>

removeApplications ==
  /\ At("conf", "removeApps")
  /\ Leave({a \in Apps : app[a] = "added"})
  /\ Continue("conf", <<>>)
  /\ UNCHANGED <<pc, panic, env>>

-----------------------------------------------------------------------------
(* The cleaner: todo["clean"] is the stack of the recursion.               *)

Visit(id) == [op |-> "visit", id |-> id, left |-> obj[id].children]

cleanRoot ==
  /\ todo["clean"] = <<>> /\ ~stopped
  /\ Continue("clean", <<Visit(RootId)>>)
  /\ UNCHANGED <<obj, app, pc, panic, env>>

\* The children of the copy, in any order, and then the queue itself.
cleanChild(c) ==
  /\ At("clean", "visit") /\ c \in Now("clean").left
  /\ Continue("clean", <<Visit(c), [Now("clean") EXCEPT !.left = @ \ {c}]>> \o Tail(todo["clean"]))
  /\ UNCHANGED <<obj, app, pc, panic, env>>

\* (OnlyDraining is a mutant: dynamic queues are left alone.)
OnlyDraining ==
  /\ At("clean", "visit") /\ Now("clean").left = {}
  /\ LET id == Now("clean").id
     IN  Then("clean", IF obj[id].state = "Draining" /\ IsEmpty(id)
                       THEN <<[op |-> "remove", id |-> id]>> ELSE <<>>)
  /\ UNCHANGED <<obj, app, pc, panic, env>>

cleanQueues ==
  /\ At("clean", "visit") /\ Now("clean").left = {}
  /\ LET id == Now("clean").id
         removable == (obj[id].state = "Draining" \/ ~obj[id].managed) /\ IsEmpty(id)
     IN  Then("clean", IF removable THEN <<[op |-> "remove", id |-> id]>> ELSE <<>>)
  /\ UNCHANGED <<obj, app, pc, panic, env>>

\* Mutant: RemoveQueue trusts the check that was made before.
RemoveUnchecked ==
  /\ At("clean", "remove")
  /\ LET id == Now("clean").id
     IN  IF id = RootId THEN panic' = "remove" /\ UNCHANGED obj
         ELSE /\ obj' = [obj EXCEPT ![obj[id].parent].children = {c \in @ : c.path # id.path}]
              /\ UNCHANGED panic
  /\ Then("clean", <<>>)
  /\ UNCHANGED <<app, pc, env>>

\* RemoveQueue looks again, with the lock of the queue; removeChildQueue goes
\* by the name.  The root has no parent.
RemoveQueue ==
  /\ At("clean", "remove")
  /\ LET id == Now("clean").id
         o == obj[id]
         kept == (o.managed /\ o.state = "Active") \/ o.children # {} \/ o.apps # {}
     IN  IF kept THEN UNCHANGED <<obj, panic>>
         ELSE IF id = RootId THEN panic' = "remove" /\ UNCHANGED obj
         ELSE /\ obj' = [obj EXCEPT ![o.parent].children = {c \in @ : c.path # id.path}]
              /\ UNCHANGED panic
  /\ Then("clean", <<>>)
  /\ UNCHANGED <<app, pc, env>>

-----------------------------------------------------------------------------
(* History of the call of AddApplication: whether the user had access to   *)
(* the queue at any moment of it, and whether a reload made a step.        *)

NoCall == [granted |-> FALSE, reloaded |-> FALSE]

target(op) == IF op.op = "join" THEN op.id.path ELSE op.path

HasAccess(a, path) == CheckSubmitAccess(Request[a].user, path, tree)

Recorded ==
  call' = IF todo'["rm"] = <<>> THEN NoCall
          ELSE [granted |-> call.granted \/ HasAccess(Head(todo'["rm"]).a, target(Head(todo'["rm"]))),
                reloaded |-> call.reloaded \/ todo'["conf"] # todo["conf"]]

\* initialPartitionFromConfig.
Init ==
  /\ scene \in DOMAIN Scenes
  /\ loaded = 1
  /\ obj = [id \in {Id(p, 1) : p \in DOMAIN Conf.queues} |->
              [NewQueue(IF id = RootId THEN None ELSE Id(Above(id.path), 1), TRUE,
                        Conf.queues[id.path], Conf.acl[id.path])
               EXCEPT !.children = {Id(p, 1) : p \in ConfChildren(id.path)}]]
  /\ app = [a \in Apps |-> "new"]
  /\ partition = "Active"
  /\ pc = None
  /\ stopped = FALSE /\ panic = ""
  /\ todo = [t \in Threads |-> <<>>]
  /\ call = NoCall

RMCall == lookupQueue \/ createQueue \/ joinQueue
Reload ==
  \/ lockPartition \/ unlockPartition \/ findQueue \/ ApplyConf \/ NewConfiguredQueue
  \/ markUnvisited \/ MarkQueueForRemoval \/ removeApplications
Clean == cleanRoot \/ (\E c \in DOMAIN obj : cleanChild(c)) \/ cleanQueues \/ RemoveQueue

Next ==
  /\ panic = ""
  /\ \/ \E a \in Apps : AddApplication(a) \/ RemoveApplication(a)
     \/ RMCall \/ UpdateRules \/ RemovePartition \/ Reload \/ Clean
  /\ Recorded

\* The timer of the cleaner keeps firing and its pass goes on; nothing is
\* assumed of the goroutines that add applications and load configurations.
Spec == Init /\ [][Next]_vars /\ WF_vars(panic = "" /\ Clean /\ Recorded)

-----------------------------------------------------------------------------

\* Types, and the partition lock is held by a goroutine that is in a call.
TypeOK ==
  /\ \A id \in DOMAIN obj :
       /\ obj[id].children \subseteq DOMAIN obj
       /\ obj[id].apps \subseteq Apps
       /\ obj[id].state \in {"Active", "Draining"}
  /\ app \in [Apps -> {"new", "added", "rejected", "removed"}]
  /\ partition \in {"Active", "Draining"}
  /\ pc \in {None, "rm", "conf"}
  /\ pc # None => todo[pc] # <<>>

\* A queue that leaves the tree has no application and no child at that
\* moment and was drained or dynamic, although the cleaner holds no partition
\* lock and looks first and removes later.
RemovedWasEmpty ==
  [][\A id \in InTree \ InTree' :
       /\ obj[id].apps = {} /\ obj[id].children = {}
       /\ ~obj[id].managed \/ obj[id].state = "Draining"]_vars

\* A queue never takes the place of another one in the child map: a second
\* object with the name of a queue in use would hide its applications.
NeverReplaced ==
  [][\A c \in InTree' \ InTree : \A id \in InTree : c.path # id.path]_vars

\* After a reload every managed queue of the tree is what the configuration
\* says: a configured one is active and of the configured type, even when it
\* was dynamic or draining before, one that is not configured drains.
ConfigApplied ==
  (todo["conf"] = <<>> /\ partition = "Active") =>
    \A id \in InTree : obj[id].managed =>
      IF id.path \in DOMAIN Conf.queues
      THEN obj[id].state = "Active" /\ obj[id].leaf = Conf.queues[id.path]
      ELSE obj[id].state = "Draining"

\* An application only gets into a leaf that its user could submit to at some
\* moment of the call, be it there or created on the way; when no reload changed
\* ACLs, types or states meanwhile the user has that access still and the leaf is
\* active (AddApplication decides without the partition lock and adds with it).
\* Nobody may submit to the recovery queue, which takes the forced applications
\* and those that asked for it by name.
PlacedAllowed ==
  [][\A a \in Apps : (app[a] # "added" /\ app'[a] = "added") =>
       LET id == Now("rm").id
       IN  /\ obj[id].leaf
           /\ ~call.reloaded => obj[id].state = "Active"
           /\ \/ IF call.reloaded THEN call.granted ELSE HasAccess(a, id.path)
              \/ /\ id.path = RecoveryQueueFull
                 /\ Request[a].forced \/ Request[a].queue = RecoveryQueueFull]_vars

\* Whatever is created on the way to a rejection, drained or left behind empty
\* is removed in the end, parents after their children: once the requests and
\* the reloads are over, no removable queue stays in the tree.
CleanedUp ==
  <>[](panic # "" \/ stopped \/ \A id \in InTree :
         (obj[id].state = "Draining" \/ ~obj[id].managed) => ~IsEmpty(id))

\* The tree is a tree of queue objects and, between two reloads, the configured one.
TreeAsConfigured == TypeOK /\ ConfigApplied

\* No step removes a queue in use or puts another one in its place.
QueuesInUseStay == RemovedWasEmpty /\ NeverReplaced

-----------------------------------------------------------------------------
(* Expected of the code by its comments, and not so: see the README.       *)

\* partition.go: "we need to do this before creating the queues. queue cleanup
\* might otherwise remove the queue again before we can add the application":
\* the queue of an application is in the tree.
AppsInTree ==
  \A id \in DOMAIN obj : obj[id].apps # {} => id \in InTree

\* The root is "the only queue with a nil parent: no need to guard": it is
\* never removed from the parent it does not have.
RootKept == panic # "remove"

\* Walking up from a queue that does not exist always ends at one that does.
WalkUpEnds == panic # "place"

\* "Recovery queue cannot be returned by other rules": it takes the forced
\* applications only.
RecoveryOnlyForced ==
  \A id \in DOMAIN obj : id.path = RecoveryQueueFull => \A a \in obj[id].apps : Request[a].forced

=============================================================================
