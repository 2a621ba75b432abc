----------------------------- MODULE GcpProvider -----------------------------
(***************************************************************************)
(* The Google Cloud provider (providers/gcp/cloud.js): how a task of the   *)
(* failover extension moves alias IP ranges between the interfaces of the  *)
(* instances, points forwarding rules to a target instance, and redirects  *)
(* routes, which it has to delete and create again.                        *)
(*                                                                         *)
(* Interfaces are PATCHed as they were read, in two stages, each call      *)
(* retried.  Routes are deleted, all of them, and then created, all of     *)
(* them; neither call is retried.  The calls of the three kinds run side   *)
(* by side.                                                                *)
(***************************************************************************)
EXTENDS Naturals, FiniteSets

CONSTANTS
  Devices,         \* the BIG-IP instances of the cluster
  Nics,            \* names of their interfaces, the same on every instance
  Aliases,         \* failover addresses that are alias IP ranges
  Rules,           \* failover addresses that are forwarding rules
  Routes,          \* routes whose range the declaration names
  NameWithin,      \* <<d, e>>: d's target instance has a name that occurs in the
                   \* URL of e's, as "ti-1" does in ".../targetInstances/ti-10"
  Tasks,           \* slots for tasks, each used at most once
  MaxTries,        \* times _retrier calls a function (20)
  MaxOpen,         \* bound: tasks in progress at the same time
  MaxRoleChanges,  \* bound: changes of the HA role
  MaxFaults,       \* bound: calls that fail
  MaxCrashes       \* bound: restarts of a device

ASSUME BoundAssumption ==
  /\ MaxTries \in Nat \ {0} /\ MaxOpen \in Nat
  /\ MaxRoleChanges \in Nat /\ MaxFaults \in Nat /\ MaxCrashes \in Nat
ASSUME NameAssumption ==
  {"none", "nowhere", "deleted"} \cap (Devices \cup Tasks) = {}
ASSUME KindAssumption == Aliases \cap Rules = {}
ASSUME TargetAssumption ==
  NameWithin \subseteq Devices \X Devices /\ \A d \in Devices : <<d, d>> \in NameWithin

None    == "none"
Nowhere == "nowhere"
Deleted == "deleted"

Interfaces == Devices \X Nics
Device(i)  == i[1]
NameOf(i)  == i[2]

VARIABLES
  aliases,   \* the alias ranges of each interface
  target,    \* the device each forwarding rule sends to
  route,     \* the next hop of each route, and which of its creations it is
  active,    \* the device on which the traffic group of each address is active
  pc,        \* where each task is
  task,      \* what each task knows
  stage,     \* where the promises of its interface updates are
  detaching, attaching,   \* the PATCHes it has to make
  retargets,              \* the rules it has to point to its device
  deleting, creating,     \* the routes it has to delete, and to create
  routesLost,             \* a deletion or a creation was rejected or cut off
  inserting,              \* creations that Google has accepted and not done yet
  refused,                \* and those whose operation has ended in an error
  roleChanges, faults, crashes

budgets == <<roleChanges, faults, crashes>>
cloud   == <<aliases, target, route>>
nicCalls   == <<stage, detaching, attaching>>
routeCalls == <<deleting, creating, routesLost>>
insertions == <<inserting, refused>>
vars    == <<cloud, active, pc, task, nicCalls, retargets, routeCalls, insertions, budgets>>

Task ==
  [host : Devices \cup {None}, wanted : SUBSET (Aliases \cup Rules), routes : SUBSET Routes]

\* A PATCH: the interface as it was read, what it becomes, and the alias ranges
\* that go from it or to it.  No tries are left when it has been given up.
Patch ==
  [interface : Interfaces, seen : SUBSET Aliases, moved : SUBSET Aliases,
   tries : 0..MaxTries]
Retarget == [rule : Rules, tries : 1..MaxTries]

\* A route is known by the id it got when it was created: by which task.
Id    == Tasks \cup {None}
Route == [hop : Devices \cup {Deleted}, id : Id]
Deletion == [route : Routes, id : Id]

Open  == {"discover", "update"}
Ended == {"succeeded", "failed", "lost"}

TypeOK ==
  /\ aliases \in [Interfaces -> SUBSET Aliases]
  /\ target \in [Rules -> Devices]
  /\ route \in [Routes -> Route]
  /\ active \in [Aliases \cup Rules -> Devices]
  /\ pc \in [Tasks -> {"idle"} \cup Open \cup Ended]
  /\ task \in [Tasks -> Task]
  /\ stage \in [Tasks -> {"none", "refresh", "detach", "attach", "broken"}]
  /\ detaching \in [Tasks -> SUBSET Patch]
  /\ attaching \in [Tasks -> SUBSET Patch]
  /\ retargets \in [Tasks -> SUBSET Retarget]
  /\ deleting \in [Tasks -> SUBSET Deletion]
  /\ creating \in [Tasks -> SUBSET Routes]
  /\ routesLost \in [Tasks -> BOOLEAN]
  /\ inserting \in [Tasks -> SUBSET Routes]
  /\ refused \in [Tasks -> SUBSET Routes]
  /\ roleChanges \in 0..MaxRoleChanges
  /\ faults \in 0..MaxFaults
  /\ crashes \in 0..MaxCrashes

Init ==
  /\ active \in [Aliases \cup Rules -> Devices]
  /\ \E nic \in [Aliases -> Nics] :
       aliases = [i \in Interfaces |->
                    {a \in Aliases : active[a] = Device(i) /\ nic[a] = NameOf(i)}]
  /\ target = [r \in Rules |-> active[r]]
  /\ \E d \in Devices : route = [n \in Routes |-> [hop |-> d, id |-> None]]
  /\ pc = [t \in Tasks |-> "idle"]
  /\ task = [t \in Tasks |-> [host |-> None, wanted |-> {}, routes |-> {}]]
  /\ stage = [t \in Tasks |-> "none"]
  /\ detaching = [t \in Tasks |-> {}] /\ attaching = [t \in Tasks |-> {}]
  /\ retargets = [t \in Tasks |-> {}]
  /\ deleting = [t \in Tasks |-> {}] /\ creating = [t \in Tasks |-> {}]
  /\ routesLost = [t \in Tasks |-> FALSE]
  /\ inserting = [t \in Tasks |-> {}] /\ refused = [t \in Tasks |-> {}]
  /\ roleChanges = 0 /\ faults = 0 /\ crashes = 0

-----------------------------------------------------------------------------
Goto(t, where) == pc' = [pc EXCEPT ![t] = where]

Fault   == faults < MaxFaults /\ faults' = faults + 1
NoFault == UNCHANGED faults

\* Some traffic groups, with the addresses `gained' or with none, become active
\* on d, which triggers a failover there.  The task learns at its start which
\* addresses it wants.
TakeOver(t, d, gained) ==
  /\ pc[t] = "idle"
  /\ Cardinality({u \in Tasks : pc[u] \in Open}) < MaxOpen
  /\ roleChanges < MaxRoleChanges
  /\ roleChanges' = roleChanges + 1
  /\ active' = [a \in Aliases \cup Rules |-> IF a \in gained THEN d ELSE active[a]]
  /\ task' = [task EXCEPT ![t].host = d,
                          ![t].wanted = {a \in Aliases \cup Rules : active'[a] = d}]
  /\ Goto(t, "discover")
  /\ UNCHANGED <<cloud, nicCalls, retargets, routeCalls, insertions, faults, crashes>>

-----------------------------------------------------------------------------
(* Discovery.                                                              *)

\* _discoverNicOperations: alias ranges d wants, on an interface of a peer.
Matching(c, i) == IF Device(i) = c.host THEN {} ELSE aliases[i] \cap c.wanted

Detachments(c) ==
  {[interface |-> i, seen |-> aliases[i], moved |-> Matching(c, i), tries |-> MaxTries] :
     i \in {j \in Interfaces : Matching(c, j) # {}}}

\* Variant of the next definition: names are not compared.
GainedFromAll(c, i) == UNION {Matching(c, j) : j \in Interfaces}

\* What the peers have on interfaces of the same name as interface i.
Gained(c, i) ==
  UNION {Matching(c, j) : j \in {k \in Interfaces : NameOf(k) = NameOf(i)}}

\* Variant of the next definition: an interface without alias ranges, whose
\* aliasIpRanges is undefined, is passed over.
AttachmentsToUsed(c) ==
  {[interface |-> i, seen |-> aliases[i], moved |-> Gained(c, i), tries |-> MaxTries] :
     i \in {j \in Interfaces :
              Device(j) = c.host /\ Gained(c, j) # {} /\ aliases[j] # {}}}

Attachments(c) ==
  {[interface |-> i, seen |-> aliases[i], moved |-> Gained(c, i), tries |-> MaxTries] :
     i \in {j \in Interfaces : Device(j) = c.host /\ Gained(c, j) # {}}}

\* Does the URL a rule sends to contain the name of our target instance?
NamesOurs(c, r) == <<c.host, target[r]>> \in NameWithin

\* Variant of the next definition: the comparison is the wrong way round.
RulesOfOurs(c) == {r \in Rules \cap c.wanted : NamesOurs(c, r)}

\* _discoverFwdRuleOperations: rules of a wanted address that do not seem to
\* send to us.  (rule.target.indexOf(name) === -1)
RulesToUpdate(c) == {r \in Rules \cap c.wanted : ~NamesOurs(c, r)}

\* _discoverRouteOperations: routes that exist and lead elsewhere.
RoutesToUpdate(c) ==
  {[route |-> n, id |-> route[n].id] :
     n \in {m \in Routes : route[m].hop \notin {c.host, Deleted}}}

\* The discoveries, of which the first lists the instances anew; the updates
\* are issued from what they return.
Discover(t) ==
  LET c == task[t]  routes == RoutesToUpdate(c) IN
  /\ pc[t] = "discover"
  /\ \/ /\ detaching' = [detaching EXCEPT ![t] = Detachments(c)]
        /\ attaching' = [attaching EXCEPT ![t] = Attachments(c)]
        /\ retargets' = [retargets EXCEPT ![t] =
                           {[rule |-> r, tries |-> MaxTries] : r \in RulesToUpdate(c)}]
        /\ deleting' = [deleting EXCEPT ![t] = routes]
        /\ task' = [task EXCEPT ![t].routes = {d.route : d \in routes}]
        /\ stage' = [stage EXCEPT ![t] = "refresh"]
        /\ Goto(t, "update")
        /\ NoFault
     \/ /\ Goto(t, "failed") /\ Fault
        /\ UNCHANGED <<task, nicCalls, retargets, deleting>>
  /\ UNCHANGED <<cloud, active, creating, routesLost, insertions, roleChanges, crashes>>

-----------------------------------------------------------------------------
(* Interfaces and forwarding rules.                                        *)

\* A Promise.all rejects, and with it the update.
Rejected(t) == Goto(t, IF pc[t] = "update" THEN "failed" ELSE pc[t])

\* A process that has restarted does not learn what became of its calls.
FaultOrLost(t) == Fault \/ (pc[t] = "lost" /\ NoFault)

\* Variant of the next definition: one try too many.
RetriableOnceMore(call) == call.tries >= 0

\* retrier rejects when no retries are left.
Retriable(call) == call.tries > 1

\* The stage that follows when so many detachments are left.
AfterDetaching(left) == IF left = {} THEN "attach" ELSE "detach"

\* updateAddresses lists the instances before it updates, too.  A discovery
\* for no addresses has returned no operations on rules, not even an empty
\* list: _updateFwdRules throws.
Refresh(t) ==
  /\ stage[t] = "refresh"
  /\ \/ /\ task[t].wanted # {}
        /\ stage' = [stage EXCEPT ![t] = AfterDetaching(detaching[t])]
        /\ NoFault /\ UNCHANGED <<pc, detaching, retargets>>
     \/ /\ Fault \/ (task[t].wanted = {} /\ NoFault)
        /\ stage' = [stage EXCEPT ![t] = "broken"]
        /\ detaching' = [detaching EXCEPT ![t] = {}]
        /\ retargets' = [retargets EXCEPT ![t] = {}]
        /\ Rejected(t)
  /\ UNCHANGED <<cloud, active, task, attaching, routeCalls, insertions, roleChanges, crashes>>

\* The interface a PATCH names is as it was read (it carries the fingerprint it
\* was read with), and no other one has the alias ranges it adds.
Accepted(p, after) ==
  /\ aliases[p.interface] = p.seen
  /\ \A i \in Interfaces \ {p.interface} : aliases[i] \cap (after \ p.seen) = {}

\* A PATCH that succeeds, or fails with or without its effect: once more, as
\* long as _retrier goes on.
Patched(p, after)   == Accepted(p, after) /\ aliases' = [aliases EXCEPT ![p.interface] = after]
PatchFails(t, p, after) ==
  \/ ~Accepted(p, after) /\ NoFault /\ UNCHANGED aliases
  \/ FaultOrLost(t) /\ UNCHANGED aliases
  \/ Fault /\ Patched(p, after)
OneTryLess(p) == [p EXCEPT !.tries = @ - 1]

Detach(t, p) ==
  LET after == p.seen \ p.moved
      left  == detaching[t] \ {p}
  IN
  /\ stage[t] # "refresh" /\ p \in detaching[t]
  /\ \/ /\ Patched(p, after)
        /\ detaching' = [detaching EXCEPT ![t] = left]
        /\ stage' = [stage EXCEPT ![t] = IF @ = "detach" THEN AfterDetaching(left) ELSE @]
        /\ NoFault /\ UNCHANGED pc
     \/ /\ PatchFails(t, p, after) /\ Retriable(p)
        /\ detaching' = [detaching EXCEPT ![t] = left \cup {OneTryLess(p)}]
        /\ UNCHANGED <<stage, pc>>
     \/ /\ PatchFails(t, p, after) /\ ~Retriable(p)
        /\ detaching' = [detaching EXCEPT ![t] = left]
        /\ stage' = [stage EXCEPT ![t] = "broken"]
        /\ Rejected(t)
  /\ UNCHANGED <<target, route, active, task, attaching, retargets, routeCalls, insertions,
                 roleChanges, crashes>>

Attach(t, p) ==
  LET after == p.seen \cup p.moved
      left  == attaching[t] \ {p}
  IN
  /\ stage[t] = "attach" /\ p \in attaching[t] /\ p.tries > 0
  /\ \/ /\ Patched(p, after)
        /\ attaching' = [attaching EXCEPT ![t] = left]
        /\ NoFault /\ UNCHANGED pc
     \/ /\ PatchFails(t, p, after)
        /\ attaching' = [attaching EXCEPT ![t] = left \cup {OneTryLess(p)}]
        /\ IF Retriable(p) THEN UNCHANGED pc ELSE Rejected(t)
  /\ UNCHANGED <<target, route, active, task, stage, detaching, retargets, routeCalls,
                 insertions, roleChanges, crashes>>

\* setTarget of one rule, wherever it sends now.
UpdateRule(t, call) ==
  LET left == retargets[t] \ {call}
      pointed == [target EXCEPT ![call.rule] = task[t].host]
  IN
  /\ stage[t] # "refresh" /\ call \in retargets[t]
  /\ \/ /\ target' = pointed /\ NoFault
        /\ retargets' = [retargets EXCEPT ![t] = left]
        /\ UNCHANGED pc
     \/ /\ FaultOrLost(t) /\ target' \in {target, pointed}
        /\ retargets' = [retargets EXCEPT ![t] =
             left \cup IF Retriable(call) THEN {OneTryLess(call)} ELSE {}]
        /\ IF Retriable(call) THEN UNCHANGED pc ELSE Rejected(t)
  /\ UNCHANGED <<aliases, route, active, task, nicCalls, routeCalls, insertions,
                 roleChanges, crashes>>

-----------------------------------------------------------------------------
(* Routes.                                                                 *)

\* A deletion names the route by its id, and is waited for until its operation
\* has ended.  When the last one resolves the creations are issued; after one
\* that is rejected there are none.
DeleteRoute(t, d) ==
  LET exists  == route[d.route].id = d.id /\ route[d.route].hop # Deleted
      deleted == [route EXCEPT ![d.route].hop = Deleted]
      last    == deleting[t] = {d} /\ ~routesLost[t]
  IN
  /\ d \in deleting[t]
  /\ deleting' = [deleting EXCEPT ![t] = @ \ {d}]
  /\ \/ /\ exists /\ route' = deleted /\ NoFault
        /\ creating' = [creating EXCEPT ![t] = IF last THEN task[t].routes ELSE @]
        /\ UNCHANGED <<pc, routesLost>>
     \/ /\ \/ ~exists /\ NoFault /\ UNCHANGED route
           \/ FaultOrLost(t) /\ UNCHANGED route
           \/ Fault /\ exists /\ route' = deleted
        /\ routesLost' = [routesLost EXCEPT ![t] = TRUE]
        /\ Rejected(t) /\ UNCHANGED creating
  /\ UNCHANGED <<aliases, target, active, task, nicCalls, retargets, insertions,
                 roleChanges, crashes>>

\* The POST of a route whose name is free: nobody else has deleted it.  It
\* resolves when Google accepts it; the operation it names is not waited for.
CreateRoute(t, n) ==
  LET accepted == [inserting EXCEPT ![t] = @ \cup {n}] IN
  /\ n \in creating[t] /\ route[n].hop = Deleted
  /\ creating' = [creating EXCEPT ![t] = @ \ {n}]
  /\ \/ inserting' = accepted /\ NoFault /\ UNCHANGED <<pc, routesLost>>
     \/ /\ FaultOrLost(t) /\ inserting' \in {inserting, accepted}
        /\ routesLost' = [routesLost EXCEPT ![t] = TRUE]
        /\ Rejected(t)
  /\ UNCHANGED <<cloud, active, task, nicCalls, retargets, deleting, refused,
                 roleChanges, crashes>>

\* Google carries out a creation it has accepted, or ends its operation with an
\* error that nobody reads.
InsertRoute(t, n) ==
  /\ n \in inserting[t]
  /\ inserting' = [inserting EXCEPT ![t] = @ \ {n}]
  /\ \/ /\ route' = [route EXCEPT ![n] = [hop |-> task[t].host, id |-> t]]
        /\ NoFault /\ UNCHANGED refused
     \/ /\ Fault
        /\ refused' = [refused EXCEPT ![t] = @ \cup {n}]
        /\ UNCHANGED route
  /\ UNCHANGED <<aliases, target, active, pc, task, nicCalls, retargets, routeCalls,
                 roleChanges, crashes>>

-----------------------------------------------------------------------------
\* The calls of the address update that are still to come back.
Moving(t) ==
  \/ stage[t] \in {"refresh", "detach"} \/ detaching[t] \cup retargets[t] # {}
  \/ stage[t] = "attach" /\ \E p \in attaching[t] : p.tries > 0

\* Variant of the next definition: the creations are not waited for.
DeletedOnly(t) ==
  /\ stage[t] = "attach" /\ attaching[t] \cup retargets[t] = {}
  /\ deleting[t] = {}

\* updateAddresses and updateRoutes have resolved.
UpdatesDone(t) ==
  /\ stage[t] = "attach" /\ attaching[t] \cup retargets[t] = {}
  /\ deleting[t] \cup creating[t] = {}

Succeed(t) ==
  /\ pc[t] = "update" /\ UpdatesDone(t)
  /\ Goto(t, "succeeded")
  /\ UNCHANGED <<cloud, active, task, nicCalls, retargets, routeCalls, insertions, budgets>>

\* Task t, or a call it has issued, is under way on its device.
Running(t) == pc[t] \in Open \/ Moving(t) \/ deleting[t] \cup creating[t] # {}

\* Or Google is still at what it was asked for.
Busy(t) == Running(t) \/ inserting[t] # {}

\* Device d restarts: calls on their way may still take effect, once.
Restart(d) ==
  LET mine == {t \in Tasks : task[t].host = d /\ Running(t)}
      LastTry(calls) == {[p EXCEPT !.tries = IF @ = 0 THEN 0 ELSE 1] : p \in calls}
  IN
  /\ crashes < MaxCrashes /\ crashes' = crashes + 1
  /\ mine # {}
  /\ pc' = [t \in Tasks |-> IF t \in mine THEN "lost" ELSE pc[t]]
  /\ stage' = [t \in Tasks |->
                 IF t \in mine /\ stage[t] # "attach" THEN "broken" ELSE stage[t]]
  /\ detaching' = [t \in Tasks |->
       IF t \notin mine THEN detaching[t]
       ELSE IF stage[t] = "refresh" THEN {} ELSE LastTry(detaching[t])]
  /\ attaching' = [t \in Tasks |->
       IF t \in mine THEN LastTry(attaching[t]) ELSE attaching[t]]
  /\ retargets' = [t \in Tasks |->
       IF t \notin mine THEN retargets[t]
       ELSE IF stage[t] = "refresh" THEN {} ELSE LastTry(retargets[t])]
  /\ routesLost' = [t \in Tasks |-> routesLost[t] \/ t \in mine]
  /\ UNCHANGED <<cloud, active, task, deleting, creating, insertions, roleChanges, faults>>

Done == (\A t \in Tasks : ~Busy(t)) /\ UNCHANGED vars

Next ==
  \/ \E t \in Tasks :
       \/ \E d \in Devices, gained \in SUBSET (Aliases \cup Rules) : TakeOver(t, d, gained)
       \/ Discover(t) \/ Refresh(t)
       \/ \E p \in detaching[t] : Detach(t, p)
       \/ \E p \in attaching[t] : Attach(t, p)
       \/ \E call \in retargets[t] : UpdateRule(t, call)
       \/ \E d \in deleting[t] : DeleteRoute(t, d)
       \/ \E n \in creating[t] : CreateRoute(t, n)
       \/ \E n \in inserting[t] : InsertRoute(t, n)
       \/ Succeed(t)
  \/ \E d \in Devices : Restart(d)
  \/ Done

Spec == Init /\ [][Next]_vars

-----------------------------------------------------------------------------
(* Properties.                                                             *)

\* Task t answers for route n, which it has deleted: it has still to ask for
\* its creation or knows that it could not, or Google is at it or has refused
\* it, which the task does not learn.
Answers(t, n) ==
  /\ n \in task[t].routes
  /\ \/ /\ pc[t] \in {"update", "failed", "lost"}
        /\ deleting[t] # {} \/ n \in creating[t] \/ routesLost[t]
     \/ n \in inserting[t] \cup refused[t]

\* A route that is missing, and that no discovery will see again, has a task
\* that answers for it: no two tasks lose a route between them, and none
\* succeeds without having asked for it to be created.
MissingRouteIsCarried ==
  \A n \in Routes : route[n].hop = Deleted => \E t \in Tasks : Answers(t, n)

\* The device whose interface has an alias range, and who is to bring it where.
Owner ==
  [a \in Aliases |->
     IF \E i \in Interfaces : a \in aliases[i]
     THEN Device(CHOOSE i \in Interfaces : a \in aliases[i]) ELSE Nowhere]
Claims ==
  {c \in [task : Tasks, address : Aliases, device : Devices] :
     \E p \in attaching[c.task] : c.address \in p.moved /\ Device(p.interface) = c.device}

\* However tasks overlap, fail or are cut off, alias ranges move as
\* AddressOwnership says: one that no interface has is claimed by a task that
\* detached it, and none is ever on two devices.
Ownership == INSTANCE AddressOwnership
  WITH Addresses <- Aliases, owner <- Owner, claims <- Claims
ImplementsOwnership == Ownership!Spec
=============================================================================
