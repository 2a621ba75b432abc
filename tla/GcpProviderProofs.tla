-------------------------- MODULE GcpProviderProofs --------------------------
(***************************************************************************)
(* Theorems about GcpProvider, for every set of devices, interfaces,       *)
(* addresses, routes and tasks and every bound: its state keeps its form,  *)
(* no route is missing without a task that answers for it, its alias       *)
(* ranges move as AddressOwnership says and keep to the names of their     *)
(* interfaces, and a task that nothing has overlapped succeeds only when   *)
(* everything is where it wants it.                                        *)
(***************************************************************************)
EXTENDS MCGcpProvider, TLAPS

-----------------------------------------------------------------------------
(* The inductive invariant.                                                *)

\* A task that is under way has a device, and issues its calls when it has
\* discovered what to do.
Orderly(t) ==
  /\ pc[t] # "idle" => task[t].host \in Devices
  /\ pc[t] \in {"idle", "discover"} =>
       /\ detaching[t] = {} /\ attaching[t] = {} /\ retargets[t] = {}
       /\ deleting[t] = {} /\ creating[t] = {} /\ task[t].routes = {}
       /\ inserting[t] = {} /\ refused[t] = {}

\* What is to be taken from one interface is to be given to another one, for
\* as long as something is still to be taken.
Paired(t) ==
  /\ \A p \in detaching[t] : \A a \in p.moved : \E q \in attaching[t] : a \in q.moved
  /\ stage[t] = "attach" => detaching[t] = {}

\* An alias range is on one interface at most.
Single == \A i, j \in Interfaces : \A a \in aliases[i] \cap aliases[j] : i = j

\* A task that has lost a deletion or a creation has failed.
RoutesInOrder(t) ==
  /\ deleting[t] \cup creating[t] # {} => pc[t] \in {"update", "failed", "lost"}
  /\ routesLost[t] => pc[t] \in {"failed", "lost"}
  /\ \A d \in deleting[t] : d.route \in task[t].routes

IInv ==
  /\ TypeOK /\ Single /\ MissingRouteIsCarried
  /\ \A t \in Tasks : Orderly(t) /\ Paired(t) /\ RoutesInOrder(t)

-----------------------------------------------------------------------------
(* Typing.                                                                 *)

\* A call that has been rejected may be repeated as long as it is retriable.
LEMMA TriesTyping ==
  /\ \A p \in Patch : p.tries > 0 => OneTryLess(p) \in Patch
  /\ \A p \in Patch : Retriable(p) => p.tries > 0
  /\ \A p \in Patch : p.tries > 0 => /\ OneTryLess(p).interface = p.interface
                                     /\ OneTryLess(p).moved = p.moved
  /\ \A c \in Retarget : Retriable(c) => OneTryLess(c) \in Retarget
  /\ MaxTries \in 1..MaxTries /\ MaxTries \in 0..MaxTries
  /\ 1 \in 1..MaxTries /\ 1 \in 0..MaxTries /\ 0 \in 0..MaxTries
<1>1. MaxTries \in Nat /\ MaxTries >= 1
  BY BoundAssumption
<1>2. ASSUME NEW p \in Patch, p.tries > 0
      PROVE  /\ OneTryLess(p) \in Patch
             /\ OneTryLess(p).interface = p.interface
             /\ OneTryLess(p).moved = p.moved
  <2>1. p.tries - 1 \in 0..MaxTries
    BY <1>1, <1>2 DEF Patch
  <2>. QED
    BY <2>1 DEF Patch, OneTryLess
<1>3. ASSUME NEW c \in Retarget, Retriable(c) PROVE OneTryLess(c) \in Retarget
  <2>1. c.tries - 1 \in 1..MaxTries
    BY <1>1, <1>3 DEF Retarget, Retriable
  <2>. QED
    BY <2>1 DEF Retarget, OneTryLess
<1>4. \A p \in Patch : Retriable(p) => p.tries > 0
  BY <1>1 DEF Patch, Retriable
<1>. QED
  BY <1>1, <1>2, <1>3, <1>4

LEMMA FaultTyping ==
  ASSUME TypeOK, Fault \/ NoFault
  PROVE  faults' \in 0..MaxFaults
BY BoundAssumption DEF TypeOK, Fault, NoFault

\* What a discovery returns.
LEMMA DiscoveryTyping ==
  ASSUME TypeOK, NEW t \in Tasks, task[t].host \in Devices
  PROVE  /\ Detachments(task[t]) \subseteq Patch
         /\ Attachments(task[t]) \subseteq Patch
         /\ RoutesToUpdate(task[t]) \subseteq Deletion
<1>1. \A i \in Interfaces : Matching(task[t], i) \in SUBSET Aliases
  BY DEF TypeOK, Matching
<1>2. \A i \in Interfaces : Gained(task[t], i) \in SUBSET Aliases
  BY <1>1 DEF Gained
<1>3. Detachments(task[t]) \subseteq Patch
  BY <1>1, TriesTyping DEF TypeOK, Detachments, Patch
<1>4. Attachments(task[t]) \subseteq Patch
  BY <1>2, TriesTyping DEF TypeOK, Attachments, Patch
<1>5. RoutesToUpdate(task[t]) \subseteq Deletion
  BY DEF TypeOK, RoutesToUpdate, Deletion, Route
<1>. QED
  BY <1>3, <1>4, <1>5

LEMMA InitTypeOK == Init => TypeOK
<1>. SUFFICES ASSUME Init PROVE TypeOK
  OBVIOUS
<1>1. /\ roleChanges \in 0..MaxRoleChanges
      /\ faults \in 0..MaxFaults
      /\ crashes \in 0..MaxCrashes
  BY BoundAssumption DEF Init
<1>2. task \in [Tasks -> Task]
  BY DEF Init, Task
<1>3. aliases \in [Interfaces -> SUBSET Aliases]
  BY DEF Init
<1>4. target \in [Rules -> Devices] /\ active \in [Aliases \cup Rules -> Devices]
  BY DEF Init
<1>5. route \in [Routes -> Route]
  BY DEF Init, Route, Id
<1>. QED
  BY <1>1, <1>2, <1>3, <1>4, <1>5 DEF Init, TypeOK, Open, Ended

\* A task that stops.
LEMMA PcTyping ==
  ASSUME TypeOK, NEW t \in Tasks, Rejected(t) \/ UNCHANGED pc
  PROVE  pc' \in [Tasks -> {"idle"} \cup Open \cup Ended]
BY DEF TypeOK, Rejected, Goto, Ended

LEMMA TakeOverTypeOK ==
  ASSUME TypeOK, NEW t \in Tasks, NEW d \in Devices,
         NEW gained \in SUBSET (Aliases \cup Rules), TakeOver(t, d, gained)
  PROVE  TypeOK'
<1>1. active' \in [Aliases \cup Rules -> Devices]
  BY DEF TakeOver, TypeOK
<1>2. task' \in [Tasks -> Task]
  <2>. DEFINE W == {a \in Aliases \cup Rules : active'[a] = d}
  <2>1. W \in SUBSET (Aliases \cup Rules)
    OBVIOUS
  <2>2. task' = [task EXCEPT ![t] = [@ EXCEPT !.host = d, !.wanted = W]]
    BY DEF TakeOver
  <2>. HIDE DEF W
  <2>3. \A c \in Task : [c EXCEPT !.host = d, !.wanted = W] \in Task
    BY <2>1 DEF Task
  <2>. QED
    BY <2>2, <2>3 DEF TypeOK
<1>3. pc' \in [Tasks -> {"idle"} \cup Open \cup Ended]
  BY DEF TakeOver, TypeOK, Goto, Open
<1>4. roleChanges' \in 0..MaxRoleChanges
  BY BoundAssumption DEF TakeOver, TypeOK
<1>. QED
  BY <1>1, <1>2, <1>3, <1>4 DEF TakeOver, TypeOK, cloud, nicCalls, routeCalls, insertions

LEMMA DiscoverTypeOK ==
  ASSUME TypeOK, NEW t \in Tasks, Orderly(t), Discover(t)
  PROVE  TypeOK'
<1>1. task[t].host \in Devices
  BY DEF Discover, Orderly
<1>2. faults' \in 0..MaxFaults
  BY FaultTyping DEF Discover
<1>3. pc' \in [Tasks -> {"idle"} \cup Open \cup Ended]
  BY DEF Discover, TypeOK, Goto, Open, Ended
<1>4. CASE /\ detaching' = [detaching EXCEPT ![t] = Detachments(task[t])]
           /\ attaching' = [attaching EXCEPT ![t] = Attachments(task[t])]
           /\ retargets' = [retargets EXCEPT ![t] =
                {[rule |-> r, tries |-> MaxTries] : r \in RulesToUpdate(task[t])}]
           /\ deleting' = [deleting EXCEPT ![t] = RoutesToUpdate(task[t])]
           /\ task' = [task EXCEPT ![t].routes = {d.route : d \in RoutesToUpdate(task[t])}]
           /\ stage' = [stage EXCEPT ![t] = "refresh"]
  <2>1. detaching' \in [Tasks -> SUBSET Patch] /\ attaching' \in [Tasks -> SUBSET Patch]
    BY <1>1, <1>4, DiscoveryTyping DEF TypeOK
  <2>2. deleting' \in [Tasks -> SUBSET Deletion]
    BY <1>1, <1>4, DiscoveryTyping DEF TypeOK
  <2>3. retargets' \in [Tasks -> SUBSET Retarget]
    <3>1. {[rule |-> r, tries |-> MaxTries] : r \in RulesToUpdate(task[t])} \in SUBSET Retarget
      BY TriesTyping DEF RulesToUpdate, Retarget
    <3>. QED
      BY <1>4, <3>1 DEF TypeOK
  <2>4. task' \in [Tasks -> Task]
    <3>. DEFINE N == {d.route : d \in RoutesToUpdate(task[t])}
    <3>1. N \in SUBSET Routes
      BY <1>1, DiscoveryTyping DEF Deletion
    <3>2. task' = [task EXCEPT ![t] = [@ EXCEPT !.routes = N]]
      BY <1>4
    <3>. HIDE DEF N
    <3>3. \A c \in Task : [c EXCEPT !.routes = N] \in Task
      BY <3>1 DEF Task
    <3>. QED
      BY <3>2, <3>3 DEF TypeOK
  <2>5. stage' \in [Tasks -> {"none", "refresh", "detach", "attach", "broken"}]
    BY <1>4 DEF TypeOK
  <2>. QED
    BY <1>2, <1>3, <2>1, <2>2, <2>3, <2>4, <2>5 DEF Discover, TypeOK, cloud, insertions
<1>5. CASE UNCHANGED <<task, nicCalls, retargets, deleting>>
  BY <1>2, <1>3, <1>5 DEF Discover, TypeOK, cloud, nicCalls, insertions
<1>. QED
  BY <1>4, <1>5 DEF Discover

LEMMA RefreshTypeOK ==
  ASSUME TypeOK, NEW t \in Tasks, Refresh(t)
  PROVE  TypeOK'
<1>1. faults' \in 0..MaxFaults
  BY FaultTyping DEF Refresh
<1>2. pc' \in [Tasks -> {"idle"} \cup Open \cup Ended]
  BY PcTyping DEF Refresh
<1>3. stage' \in [Tasks -> {"none", "refresh", "detach", "attach", "broken"}]
  BY DEF Refresh, TypeOK, AfterDetaching
<1>4. detaching' \in [Tasks -> SUBSET Patch] /\ retargets' \in [Tasks -> SUBSET Retarget]
  BY DEF Refresh, TypeOK
<1>. QED
  BY <1>1, <1>2, <1>3, <1>4 DEF Refresh, TypeOK, cloud, routeCalls, insertions

\* What a PATCH does to the interfaces: nothing, or what it says.
LEMMA PatchEffect ==
  ASSUME NEW t \in Tasks, NEW p, NEW after,
         Patched(p, after) \/ PatchFails(t, p, after)
  PROVE  \/ UNCHANGED aliases
         \/ Accepted(p, after) /\ aliases' = [aliases EXCEPT ![p.interface] = after]
BY DEF Patched, PatchFails

LEMMA PatchFault ==
  ASSUME NEW t \in Tasks, NEW p, NEW after, PatchFails(t, p, after)
  PROVE  Fault \/ NoFault
BY DEF PatchFails, FaultOrLost

\* The outcomes of a detachment.
LEMMA DetachOutcome ==
  ASSUME TypeOK, NEW t \in Tasks, NEW p \in detaching[t], Detach(t, p)
  PROVE  /\ p \in Patch
         /\ \/ UNCHANGED aliases
            \/ /\ Accepted(p, p.seen \ p.moved)
               /\ aliases' = [aliases EXCEPT ![p.interface] = p.seen \ p.moved]
         /\ \/ detaching' = [detaching EXCEPT ![t] = @ \ {p}]
            \/ /\ p.tries > 0 /\ UNCHANGED stage
               /\ detaching' = [detaching EXCEPT ![t] = (@ \ {p}) \cup {OneTryLess(p)}]
         /\ \/ UNCHANGED stage
            \/ stage' = [stage EXCEPT ![t] = "broken"]
            \/ /\ stage' = [stage EXCEPT ![t] = AfterDetaching(detaching[t] \ {p})]
               /\ detaching' = [detaching EXCEPT ![t] = @ \ {p}]
         /\ Rejected(t) \/ UNCHANGED pc
         /\ Fault \/ NoFault
<1>1. p \in Patch
  BY DEF TypeOK
<1>2. \/ UNCHANGED aliases
      \/ /\ Accepted(p, p.seen \ p.moved)
         /\ aliases' = [aliases EXCEPT ![p.interface] = p.seen \ p.moved]
  BY PatchEffect DEF Detach
<1>3. \/ detaching' = [detaching EXCEPT ![t] = @ \ {p}]
      \/ /\ p.tries > 0 /\ UNCHANGED stage
         /\ detaching' = [detaching EXCEPT ![t] = (@ \ {p}) \cup {OneTryLess(p)}]
  BY <1>1, TriesTyping DEF Detach
<1>4. \/ UNCHANGED stage
      \/ stage' = [stage EXCEPT ![t] = "broken"]
      \/ /\ stage' = [stage EXCEPT ![t] = AfterDetaching(detaching[t] \ {p})]
         /\ detaching' = [detaching EXCEPT ![t] = @ \ {p}]
  BY DEF Detach, TypeOK
<1>5. Rejected(t) \/ UNCHANGED pc
  BY DEF Detach
<1>6. Fault \/ NoFault
  BY PatchFault DEF Detach
<1>. QED
  BY <1>1, <1>2, <1>3, <1>4, <1>5, <1>6

LEMMA DetachTypeOK ==
  ASSUME TypeOK, NEW t \in Tasks, NEW p \in detaching[t], Detach(t, p)
  PROVE  TypeOK'
<1>1. p \in Patch
  BY DEF TypeOK
<1>2. aliases' \in [Interfaces -> SUBSET Aliases]
  <2>1. p.seen \ p.moved \in SUBSET Aliases
    BY <1>1 DEF Patch
  <2>2. \/ UNCHANGED aliases
        \/ aliases' = [aliases EXCEPT ![p.interface] = p.seen \ p.moved]
    BY DetachOutcome
  <2>. QED
    BY <2>1, <2>2 DEF TypeOK
<1>3. detaching' \in [Tasks -> SUBSET Patch]
  <2>1. p.tries > 0 => (detaching[t] \ {p}) \cup {OneTryLess(p)} \in SUBSET Patch
    BY <1>1, TriesTyping DEF TypeOK
  <2>2. detaching[t] \ {p} \in SUBSET Patch
    BY DEF TypeOK
  <2>3. \/ detaching' = [detaching EXCEPT ![t] = detaching[t] \ {p}]
        \/ /\ p.tries > 0
           /\ detaching' = [detaching EXCEPT ![t] = (detaching[t] \ {p}) \cup {OneTryLess(p)}]
    BY DetachOutcome DEF TypeOK
  <2>. QED
    BY <2>1, <2>2, <2>3 DEF TypeOK
<1>4. stage' \in [Tasks -> {"none", "refresh", "detach", "attach", "broken"}]
  BY DetachOutcome DEF TypeOK, AfterDetaching
<1>5. pc' \in [Tasks -> {"idle"} \cup Open \cup Ended]
  BY DetachOutcome, PcTyping
<1>6. faults' \in 0..MaxFaults
  BY DetachOutcome, FaultTyping
<1>. QED
  BY <1>2, <1>3, <1>4, <1>5, <1>6 DEF Detach, TypeOK, routeCalls, insertions

\* The outcomes of an attachment.
LEMMA AttachOutcome ==
  ASSUME TypeOK, NEW t \in Tasks, NEW p \in attaching[t], Attach(t, p)
  PROVE  /\ p \in Patch /\ p.tries > 0 /\ stage[t] = "attach"
         /\ \/ UNCHANGED aliases
            \/ /\ Accepted(p, p.seen \cup p.moved)
               /\ aliases' = [aliases EXCEPT ![p.interface] = p.seen \cup p.moved]
         /\ \/ /\ attaching' = [attaching EXCEPT ![t] = @ \ {p}]
               /\ aliases' = [aliases EXCEPT ![p.interface] = p.seen \cup p.moved]
            \/ attaching' = [attaching EXCEPT ![t] = (@ \ {p}) \cup {OneTryLess(p)}]
         /\ Rejected(t) \/ UNCHANGED pc
         /\ Fault \/ NoFault
<1>1. p \in Patch /\ p.tries > 0 /\ stage[t] = "attach"
  BY DEF TypeOK, Attach
<1>2. \/ UNCHANGED aliases
      \/ /\ Accepted(p, p.seen \cup p.moved)
         /\ aliases' = [aliases EXCEPT ![p.interface] = p.seen \cup p.moved]
  BY PatchEffect DEF Attach
<1>3. \/ /\ attaching' = [attaching EXCEPT ![t] = @ \ {p}]
         /\ aliases' = [aliases EXCEPT ![p.interface] = p.seen \cup p.moved]
      \/ attaching' = [attaching EXCEPT ![t] = (@ \ {p}) \cup {OneTryLess(p)}]
  BY DEF Attach, Patched
<1>4. Rejected(t) \/ UNCHANGED pc
  BY DEF Attach
<1>5. Fault \/ NoFault
  BY PatchFault DEF Attach
<1>. QED
  BY <1>1, <1>2, <1>3, <1>4, <1>5

LEMMA AttachTypeOK ==
  ASSUME TypeOK, NEW t \in Tasks, NEW p \in attaching[t], Attach(t, p)
  PROVE  TypeOK'
<1>1. p \in Patch
  BY DEF TypeOK
<1>2. aliases' \in [Interfaces -> SUBSET Aliases]
  <2>1. p.seen \cup p.moved \in SUBSET Aliases
    BY <1>1 DEF Patch
  <2>2. \/ UNCHANGED aliases
        \/ aliases' = [aliases EXCEPT ![p.interface] = p.seen \cup p.moved]
    BY AttachOutcome
  <2>. QED
    BY <2>1, <2>2 DEF TypeOK
<1>3. attaching' \in [Tasks -> SUBSET Patch]
  <2>1. (attaching[t] \ {p}) \cup {OneTryLess(p)} \in SUBSET Patch
    BY <1>1, AttachOutcome, TriesTyping DEF TypeOK
  <2>2. attaching[t] \ {p} \in SUBSET Patch
    BY DEF TypeOK
  <2>3. \/ attaching' = [attaching EXCEPT ![t] = attaching[t] \ {p}]
        \/ attaching' = [attaching EXCEPT ![t] = (attaching[t] \ {p}) \cup {OneTryLess(p)}]
    BY AttachOutcome DEF TypeOK
  <2>. QED
    BY <2>1, <2>2, <2>3 DEF TypeOK
<1>4. pc' \in [Tasks -> {"idle"} \cup Open \cup Ended]
  BY AttachOutcome, PcTyping
<1>5. faults' \in 0..MaxFaults
  BY AttachOutcome, FaultTyping
<1>. QED
  BY <1>2, <1>3, <1>4, <1>5 DEF Attach, TypeOK, routeCalls, insertions

LEMMA UpdateRuleTypeOK ==
  ASSUME TypeOK, NEW t \in Tasks, Orderly(t), NEW call \in retargets[t], UpdateRule(t, call)
  PROVE  TypeOK'
<1>1. call \in Retarget
  BY DEF TypeOK
<1>2. pc' \in [Tasks -> {"idle"} \cup Open \cup Ended]
  BY PcTyping DEF UpdateRule
<1>3. faults' \in 0..MaxFaults
  BY FaultTyping DEF UpdateRule, FaultOrLost
<1>4. retargets' \in [Tasks -> SUBSET Retarget]
  <2>1. CASE retargets' = [retargets EXCEPT ![t] = @ \ {call}]
    BY <2>1 DEF TypeOK
  <2>2. CASE retargets' = [retargets EXCEPT ![t] =
               (retargets[t] \ {call}) \cup IF Retriable(call) THEN {OneTryLess(call)} ELSE {}]
    <3>. DEFINE new == (retargets[t] \ {call})
                         \cup IF Retriable(call) THEN {OneTryLess(call)} ELSE {}
    <3>1. new \in SUBSET Retarget
      BY <1>1, TriesTyping DEF TypeOK
    <3>. HIDE DEF new
    <3>. QED
      BY <2>2, <3>1 DEF TypeOK, new
  <2>. QED
    BY <2>1, <2>2 DEF UpdateRule
<1>5. target' \in [Rules -> Devices]
  <2>1. task[t].host \in Devices
    BY DEF Orderly
  <2>2. target' = target \/ target' = [target EXCEPT ![call.rule] = task[t].host]
    BY DEF UpdateRule
  <2>. QED
    BY <2>1, <2>2 DEF TypeOK
<1>. QED
  BY <1>2, <1>3, <1>4, <1>5 DEF UpdateRule, TypeOK, nicCalls, routeCalls, insertions

LEMMA RouteCallTypeOK ==
  ASSUME TypeOK, NEW t \in Tasks, Orderly(t),
         \/ \E d \in deleting[t] : DeleteRoute(t, d)
         \/ \E n \in creating[t] : CreateRoute(t, n)
  PROVE  TypeOK'
<1>1. pc' \in [Tasks -> {"idle"} \cup Open \cup Ended]
  BY PcTyping DEF DeleteRoute, CreateRoute
<1>2. faults' \in 0..MaxFaults
  BY FaultTyping DEF DeleteRoute, CreateRoute, FaultOrLost
<1>3. ASSUME NEW d \in deleting[t], DeleteRoute(t, d) PROVE TypeOK'
  <2>1. d.route \in Routes
    BY DEF TypeOK, Deletion
  <2>2. route' \in [Routes -> Route]
    <3>1. [route[d.route] EXCEPT !.hop = Deleted] \in Route
      BY <2>1 DEF TypeOK, Route
    <3>2. \/ UNCHANGED route
          \/ route' = [route EXCEPT ![d.route] = [route[d.route] EXCEPT !.hop = Deleted]]
      BY <1>3 DEF DeleteRoute
    <3>. QED
      BY <3>1, <3>2 DEF TypeOK
  <2>3. creating' \in [Tasks -> SUBSET Routes]
    <3>1. task[t].routes \in SUBSET Routes
      BY DEF TypeOK, Task
    <3>. QED
      BY <1>3, <3>1 DEF DeleteRoute, TypeOK
  <2>4. deleting' \in [Tasks -> SUBSET Deletion] /\ routesLost' \in [Tasks -> BOOLEAN]
    BY <1>3 DEF DeleteRoute, TypeOK
  <2>. QED
    BY <1>1, <1>2, <1>3, <2>2, <2>3, <2>4 DEF DeleteRoute, TypeOK, nicCalls, insertions
<1>4. ASSUME NEW n \in creating[t], CreateRoute(t, n) PROVE TypeOK'
  <2>1. n \in Routes
    BY DEF TypeOK
  <2>2. inserting' \in [Tasks -> SUBSET Routes]
    BY <1>4, <2>1 DEF CreateRoute, TypeOK
  <2>3. creating' \in [Tasks -> SUBSET Routes] /\ routesLost' \in [Tasks -> BOOLEAN]
    BY <1>4 DEF CreateRoute, TypeOK
  <2>. QED
    BY <1>1, <1>2, <1>4, <2>2, <2>3 DEF CreateRoute, TypeOK, cloud, nicCalls
<1>. QED
  BY <1>3, <1>4

\* The outcomes of a creation that Google has accepted.
LEMMA InsertOutcome ==
  ASSUME TypeOK, NEW t \in Tasks, Orderly(t), NEW n \in inserting[t], InsertRoute(t, n)
  PROVE  /\ n \in Routes /\ task[t].host \in Devices
         /\ inserting' = [inserting EXCEPT ![t] = @ \ {n}]
         /\ \/ /\ route' = [route EXCEPT ![n] = [hop |-> task[t].host, id |-> t]]
               /\ UNCHANGED refused
            \/ /\ refused' = [refused EXCEPT ![t] = @ \cup {n}]
               /\ UNCHANGED route
         /\ Fault \/ NoFault
BY DEF TypeOK, InsertRoute, Orderly

LEMMA InsertRouteTypeOK ==
  ASSUME TypeOK, NEW t \in Tasks, Orderly(t), NEW n \in inserting[t], InsertRoute(t, n)
  PROVE  TypeOK'
<1>1. n \in Routes /\ [hop |-> task[t].host, id |-> t] \in Route
  BY InsertOutcome DEF Route, Id
<1>2. route' \in [Routes -> Route]
  BY <1>1, InsertOutcome DEF TypeOK
<1>3. inserting' \in [Tasks -> SUBSET Routes] /\ refused' \in [Tasks -> SUBSET Routes]
  BY <1>1, InsertOutcome DEF TypeOK
<1>4. faults' \in 0..MaxFaults
  BY InsertOutcome, FaultTyping
<1>. QED
  BY <1>2, <1>3, <1>4 DEF InsertRoute, TypeOK, nicCalls, routeCalls

\* What is left of the calls of a device that restarts.
LastTry(calls) == {[p EXCEPT !.tries = IF @ = 0 THEN 0 ELSE 1] : p \in calls}

LEMMA LastTryTyping ==
  /\ \A S \in SUBSET Patch : LastTry(S) \in SUBSET Patch
  /\ \A S \in SUBSET Retarget : LastTry(S) \in SUBSET Retarget
  /\ \A S \in SUBSET Patch :
       /\ \A p \in LastTry(S) : \E q \in S : p.moved = q.moved /\ p.interface = q.interface
       /\ \A q \in S : \E p \in LastTry(S) : p.moved = q.moved /\ p.interface = q.interface
<1>1. \A p \in Patch : [p EXCEPT !.tries = IF @ = 0 THEN 0 ELSE 1] \in Patch
  BY TriesTyping DEF Patch
<1>2. \A c \in Retarget : [c EXCEPT !.tries = IF @ = 0 THEN 0 ELSE 1] \in Retarget
  BY TriesTyping DEF Retarget
<1>3. \A p \in Patch : /\ [p EXCEPT !.tries = IF @ = 0 THEN 0 ELSE 1].moved = p.moved
                       /\ [p EXCEPT !.tries = IF @ = 0 THEN 0 ELSE 1].interface = p.interface
  BY DEF Patch
<1>4. ASSUME NEW S \in SUBSET Patch
      PROVE  /\ \A p \in LastTry(S) : \E q \in S :
                  p.moved = q.moved /\ p.interface = q.interface
             /\ \A q \in S : \E p \in LastTry(S) :
                  p.moved = q.moved /\ p.interface = q.interface
  <2>1. ASSUME NEW p \in LastTry(S)
        PROVE  \E q \in S : p.moved = q.moved /\ p.interface = q.interface
    <3>1. PICK q \in S : p = [q EXCEPT !.tries = IF @ = 0 THEN 0 ELSE 1]
      BY <2>1 DEF LastTry
    <3>. QED
      BY <1>3, <3>1
  <2>2. ASSUME NEW q \in S
        PROVE  \E p \in LastTry(S) : p.moved = q.moved /\ p.interface = q.interface
    <3>1. [q EXCEPT !.tries = IF @ = 0 THEN 0 ELSE 1] \in LastTry(S)
      BY DEF LastTry
    <3>. QED
      BY <1>3, <3>1
  <2>. QED
    BY <2>1, <2>2
<1>5. ASSUME NEW S \in SUBSET Patch PROVE LastTry(S) \in SUBSET Patch
  BY <1>1, <1>5 DEF LastTry
<1>6. ASSUME NEW S \in SUBSET Retarget PROVE LastTry(S) \in SUBSET Retarget
  BY <1>2, <1>6 DEF LastTry
<1>. HIDE DEF LastTry
<1>. QED
  BY <1>4, <1>5, <1>6

LEMMA RestartTypeOK ==
  ASSUME TypeOK, NEW d \in Devices, Restart(d)
  PROVE  TypeOK'
<1>. DEFINE mine == {t \in Tasks : task[t].host = d /\ Running(t)}
<1>1. pc' \in [Tasks -> {"idle"} \cup Open \cup Ended]
  <2>1. pc' = [t \in Tasks |-> IF t \in mine THEN "lost" ELSE pc[t]]
    BY DEF Restart
  <2>. QED
    BY <2>1 DEF TypeOK, Ended
<1>2. stage' \in [Tasks -> {"none", "refresh", "detach", "attach", "broken"}]
  <2>1. stage' = [t \in Tasks |->
          IF t \in mine /\ stage[t] # "attach" THEN "broken" ELSE stage[t]]
    BY DEF Restart
  <2>. QED
    BY <2>1 DEF TypeOK
<1>3. detaching' \in [Tasks -> SUBSET Patch]
  <2>1. detaching' = [t \in Tasks |->
          IF t \notin mine THEN detaching[t]
          ELSE IF stage[t] = "refresh" THEN {} ELSE LastTry(detaching[t])]
    BY DEF Restart, LastTry
  <2>. QED
    BY <2>1, LastTryTyping DEF TypeOK
<1>4. attaching' \in [Tasks -> SUBSET Patch]
  <2>1. attaching' = [t \in Tasks |->
          IF t \in mine THEN LastTry(attaching[t]) ELSE attaching[t]]
    BY DEF Restart, LastTry
  <2>. QED
    BY <2>1, LastTryTyping DEF TypeOK
<1>5. retargets' \in [Tasks -> SUBSET Retarget]
  <2>1. retargets' = [t \in Tasks |->
          IF t \notin mine THEN retargets[t]
          ELSE IF stage[t] = "refresh" THEN {} ELSE LastTry(retargets[t])]
    BY DEF Restart, LastTry
  <2>. QED
    BY <2>1, LastTryTyping DEF TypeOK
<1>6. routesLost' \in [Tasks -> BOOLEAN]
  <2>1. routesLost' = [t \in Tasks |-> routesLost[t] \/ t \in mine]
    BY DEF Restart
  <2>. QED
    BY <2>1, Zenon DEF TypeOK
<1>7. crashes' \in 0..MaxCrashes
  BY BoundAssumption DEF Restart, TypeOK
<1>. QED
  BY <1>1, <1>2, <1>3, <1>4, <1>5, <1>6, <1>7 DEF Restart, TypeOK, cloud, insertions

\* Every step keeps the typing.
LEMMA NextTypeOK == IInv /\ [Next]_vars => TypeOK'
<1>. SUFFICES ASSUME IInv, [Next]_vars PROVE TypeOK'
  OBVIOUS
<1>. USE DEF IInv
<1>1. ASSUME NEW t \in Tasks, NEW d \in Devices, NEW gained \in SUBSET (Aliases \cup Rules),
             TakeOver(t, d, gained)
      PROVE  TypeOK'
  BY <1>1, TakeOverTypeOK
<1>2. ASSUME NEW t \in Tasks, Discover(t) PROVE TypeOK'
  BY <1>2, DiscoverTypeOK
<1>3. ASSUME NEW t \in Tasks, Refresh(t) PROVE TypeOK'
  BY <1>3, RefreshTypeOK
<1>4. ASSUME NEW t \in Tasks, NEW p \in detaching[t], Detach(t, p) PROVE TypeOK'
  BY <1>4, DetachTypeOK
<1>5. ASSUME NEW t \in Tasks, NEW p \in attaching[t], Attach(t, p) PROVE TypeOK'
  BY <1>5, AttachTypeOK
<1>6. ASSUME NEW t \in Tasks, NEW call \in retargets[t], UpdateRule(t, call) PROVE TypeOK'
  BY <1>6, UpdateRuleTypeOK
<1>7. ASSUME NEW t \in Tasks,
             \/ \E d \in deleting[t] : DeleteRoute(t, d)
             \/ \E n \in creating[t] : CreateRoute(t, n)
      PROVE  TypeOK'
  BY <1>7, RouteCallTypeOK
<1>8. ASSUME NEW t \in Tasks, Succeed(t) PROVE TypeOK'
  BY <1>8 DEF Succeed, Goto, TypeOK, Ended, cloud, nicCalls, routeCalls, insertions, budgets
<1>9. ASSUME NEW d \in Devices, Restart(d) PROVE TypeOK'
  BY <1>9, RestartTypeOK
<1>10. CASE UNCHANGED vars
  BY <1>10 DEF vars, TypeOK, cloud, nicCalls, routeCalls, insertions, budgets
<1>11. ASSUME NEW t \in Tasks, NEW n \in inserting[t], InsertRoute(t, n) PROVE TypeOK'
  BY <1>11, InsertRouteTypeOK
<1>. QED
  BY <1>1, <1>2, <1>3, <1>4, <1>5, <1>6, <1>7, <1>8, <1>9, <1>10, <1>11 DEF Next, Done

-----------------------------------------------------------------------------
(* The other conjuncts.                                                    *)

LEMMA InitIInv == Init => IInv
<1>. SUFFICES ASSUME Init PROVE IInv
  OBVIOUS
<1>1. TypeOK
  BY InitTypeOK
<1>2. Single
  <2>1. \A i, j \in Interfaces : Device(i) = Device(j) /\ NameOf(i) = NameOf(j) => i = j
    BY DEF Interfaces, Device, NameOf
  <2>2. PICK nic \in [Aliases -> Nics] :
          aliases = [i \in Interfaces |->
                       {a \in Aliases : active[a] = Device(i) /\ nic[a] = NameOf(i)}]
    BY DEF Init
  <2>3. \A i \in Interfaces : \A a \in aliases[i] :
          active[a] = Device(i) /\ nic[a] = NameOf(i)
    BY <2>2
  <2>. QED
    BY <2>1, <2>3 DEF Single
<1>3. MissingRouteIsCarried
  <2>1. PICK d \in Devices : route = [n \in Routes |-> [hop |-> d, id |-> None]]
    BY DEF Init
  <2>2. d # Deleted
    BY NameAssumption DEF Deleted
  <2>. QED
    BY <2>1, <2>2 DEF MissingRouteIsCarried
<1>4. ASSUME NEW t \in Tasks PROVE Orderly(t) /\ Paired(t) /\ RoutesInOrder(t)
  BY DEF Init, Orderly, Paired, RoutesInOrder
<1>. QED
  BY <1>1, <1>2, <1>3, <1>4 DEF IInv

\* Alias ranges leave an interface or arrive where no other one has them.
LEMMA NextSingle == IInv /\ [Next]_vars => Single'
<1>. SUFFICES ASSUME IInv, [Next]_vars PROVE Single'
  OBVIOUS
<1>. USE DEF IInv
<1>1. ASSUME UNCHANGED aliases PROVE Single'
  BY <1>1 DEF Single
<1>2. ASSUME NEW t \in Tasks, NEW p \in detaching[t], Detach(t, p) PROVE Single'
  <2>1. CASE /\ Accepted(p, p.seen \ p.moved)
             /\ aliases' = [aliases EXCEPT ![p.interface] = p.seen \ p.moved]
    <3>1. \A i \in Interfaces : aliases'[i] \subseteq aliases[i]
      BY <2>1 DEF Accepted, TypeOK
    <3>. QED
      BY <3>1 DEF Single
  <2>. QED
    BY <1>1, <1>2, <2>1, DetachOutcome
<1>3. ASSUME NEW t \in Tasks, NEW p \in attaching[t], Attach(t, p) PROVE Single'
  <2>1. CASE /\ Accepted(p, p.seen \cup p.moved)
             /\ aliases' = [aliases EXCEPT ![p.interface] = p.seen \cup p.moved]
    <3>1. p.interface \in Interfaces
      BY <1>3 DEF TypeOK, Patch
    <3>2. /\ aliases'[p.interface] = aliases[p.interface] \cup (p.moved \ p.seen)
          /\ \A i \in Interfaces \ {p.interface} :
               /\ aliases'[i] = aliases[i]
               /\ aliases[i] \cap (p.moved \ p.seen) = {}
      BY <2>1, <3>1 DEF Accepted, TypeOK
    <3>3. ASSUME NEW i \in Interfaces, NEW j \in Interfaces,
                 NEW a \in aliases'[i] \cap aliases'[j], i # j
          PROVE  FALSE
      <4>1. CASE i # p.interface /\ j # p.interface
        BY <3>2, <3>3, <4>1 DEF Single
      <4>2. CASE i = p.interface
        BY <3>1, <3>2, <3>3, <4>2 DEF Single
      <4>3. CASE j = p.interface
        BY <3>1, <3>2, <3>3, <4>3 DEF Single
      <4>. QED
        BY <4>1, <4>2, <4>3
    <3>. QED
      BY <3>3 DEF Single
  <2>. QED
    BY <1>1, <1>3, <2>1, AttachOutcome
<1>4. ASSUME NEW t \in Tasks,
             \/ \E d \in Devices, gained \in SUBSET (Aliases \cup Rules) : TakeOver(t, d, gained)
             \/ Discover(t) \/ Refresh(t)
             \/ \E call \in retargets[t] : UpdateRule(t, call)
             \/ \E d \in deleting[t] : DeleteRoute(t, d)
             \/ \E n \in creating[t] : CreateRoute(t, n)
             \/ \E n \in inserting[t] : InsertRoute(t, n)
             \/ Succeed(t)
      PROVE  Single'
  BY <1>1, <1>4 DEF TakeOver, Discover, Refresh, UpdateRule, DeleteRoute, CreateRoute,
                    InsertRoute, Succeed, cloud
<1>5. ASSUME NEW d \in Devices, Restart(d) PROVE Single'
  BY <1>1, <1>5 DEF Restart, cloud
<1>6. CASE UNCHANGED vars
  BY <1>1, <1>6 DEF vars, cloud
<1>. QED
  BY <1>2, <1>3, <1>4, <1>5, <1>6 DEF Next, Done

\* What a discovery takes from the interfaces of the peers it gives to those
\* of the same name.
LEMMA DiscoveryPaired ==
  ASSUME TypeOK, NEW t \in Tasks, task[t].host \in Devices
  PROVE  \A p \in Detachments(task[t]) : \A a \in p.moved :
           \E q \in Attachments(task[t]) : a \in q.moved
<1>. DEFINE c == task[t]
<1>. SUFFICES ASSUME NEW p \in Detachments(c), NEW a \in p.moved
              PROVE  \E q \in Attachments(c) : a \in q.moved
  OBVIOUS
<1>1. PICK i \in Interfaces : a \in Matching(c, i)
  BY DEF Detachments
<1>. DEFINE j == <<c.host, NameOf(i)>>
<1>2. j \in Interfaces /\ Device(j) = c.host /\ NameOf(j) = NameOf(i)
  BY DEF Interfaces, Device, NameOf
<1>. HIDE DEF j, c
<1>3. a \in Gained(c, j)
  BY <1>1, <1>2 DEF Gained
<1>. DEFINE q == [interface |-> j, seen |-> aliases[j], moved |-> Gained(c, j), tries |-> MaxTries]
<1>4. q \in Attachments(c)
  BY <1>2, <1>3 DEF Attachments
<1>. QED
  BY <1>3, <1>4

\* Nothing but what a task says and what has become of its calls matters to it.
LEMMA TaskKept ==
  ASSUME NEW u \in Tasks, Orderly(u) /\ Paired(u) /\ RoutesInOrder(u),
         /\ pc'[u] = pc[u] /\ task'[u] = task[u] /\ stage'[u] = stage[u]
         /\ detaching'[u] = detaching[u] /\ attaching'[u] = attaching[u]
         /\ retargets'[u] = retargets[u] /\ deleting'[u] = deleting[u]
         /\ creating'[u] = creating[u] /\ routesLost'[u] = routesLost[u]
         /\ inserting'[u] = inserting[u] /\ refused'[u] = refused[u]
  PROVE  (Orderly(u) /\ Paired(u) /\ RoutesInOrder(u))'
BY DEF Orderly, Paired, RoutesInOrder

\* An action of task t leaves the others alone.
LEMMA OthersKept ==
  ASSUME IInv, NEW t \in Tasks, NEW u \in Tasks \ {t},
         \/ \E d \in Devices, gained \in SUBSET (Aliases \cup Rules) : TakeOver(t, d, gained)
         \/ Discover(t) \/ Refresh(t)
         \/ \E p \in detaching[t] : Detach(t, p)
         \/ \E p \in attaching[t] : Attach(t, p)
         \/ \E call \in retargets[t] : UpdateRule(t, call)
         \/ \E d \in deleting[t] : DeleteRoute(t, d)
         \/ \E n \in creating[t] : CreateRoute(t, n)
         \/ \E n \in inserting[t] : InsertRoute(t, n)
         \/ Succeed(t)
  PROVE  /\ pc'[u] = pc[u] /\ task'[u] = task[u] /\ stage'[u] = stage[u]
         /\ detaching'[u] = detaching[u] /\ attaching'[u] = attaching[u]
         /\ retargets'[u] = retargets[u] /\ deleting'[u] = deleting[u]
         /\ creating'[u] = creating[u] /\ routesLost'[u] = routesLost[u]
         /\ inserting'[u] = inserting[u] /\ refused'[u] = refused[u]
<1>. USE DEF IInv, TypeOK
<1>1. pc'[u] = pc[u]
  BY DEF TakeOver, Discover, Refresh, Detach, Attach, UpdateRule, DeleteRoute, CreateRoute,
         InsertRoute, Succeed, Goto, Rejected
<1>2. task'[u] = task[u] /\ stage'[u] = stage[u]
  BY DEF TakeOver, Discover, Refresh, Detach, Attach, UpdateRule, DeleteRoute, CreateRoute,
         InsertRoute, Succeed, nicCalls
<1>3. detaching'[u] = detaching[u] /\ attaching'[u] = attaching[u]
  BY DEF TakeOver, Discover, Refresh, Detach, Attach, UpdateRule, DeleteRoute, CreateRoute,
         InsertRoute, Succeed, nicCalls
<1>4. retargets'[u] = retargets[u]
  BY DEF TakeOver, Discover, Refresh, Detach, Attach, UpdateRule, DeleteRoute, CreateRoute,
         InsertRoute, Succeed
<1>5. /\ deleting'[u] = deleting[u] /\ creating'[u] = creating[u]
      /\ routesLost'[u] = routesLost[u]
  BY DEF TakeOver, Discover, Refresh, Detach, Attach, UpdateRule, DeleteRoute, CreateRoute,
         InsertRoute, Succeed, routeCalls
<1>6. inserting'[u] = inserting[u] /\ refused'[u] = refused[u]
  BY DEF TakeOver, Discover, Refresh, Detach, Attach, UpdateRule, DeleteRoute, CreateRoute,
         InsertRoute, Succeed, insertions
<1>. QED
  BY <1>1, <1>2, <1>3, <1>4, <1>5, <1>6

\* What a step makes of its task.
LEMMA NextTasks ==
  IInv /\ [Next]_vars => (\A t \in Tasks : Orderly(t) /\ Paired(t) /\ RoutesInOrder(t))'
<1>. SUFFICES ASSUME IInv, [Next]_vars, NEW u \in Tasks
              PROVE  (Orderly(u) /\ Paired(u) /\ RoutesInOrder(u))'
  BY DEF IInv
<1>. USE DEF IInv
<1>1. ASSUME NEW d \in Devices, NEW gained \in SUBSET (Aliases \cup Rules), TakeOver(u, d, gained)
      PROVE  (Orderly(u) /\ Paired(u) /\ RoutesInOrder(u))'
  <2>1. /\ pc'[u] = "discover" /\ task'[u].host = d /\ task'[u].routes = task[u].routes
        /\ UNCHANGED <<detaching, attaching, retargets, deleting, creating, stage, routesLost,
                       inserting, refused>>
    BY <1>1 DEF TakeOver, Goto, TypeOK, Task, nicCalls, routeCalls, insertions
  <2>2. pc[u] = "idle"
    BY <1>1 DEF TakeOver
  <2>3. Orderly(u)'
    BY <2>1, <2>2 DEF Orderly
  <2>4. RoutesInOrder(u)'
    BY <2>1, <2>2 DEF Orderly, RoutesInOrder
  <2>. QED
    BY <2>1, <2>3, <2>4 DEF Paired
<1>2. ASSUME Discover(u) PROVE (Orderly(u) /\ Paired(u) /\ RoutesInOrder(u))'
  <2>1. /\ pc[u] = "discover" /\ task[u].host \in Devices /\ ~routesLost[u]
        /\ detaching[u] = {} /\ attaching[u] = {} /\ retargets[u] = {}
        /\ deleting[u] = {} /\ creating[u] = {} /\ task[u].routes = {}
        /\ inserting[u] = {} /\ refused[u] = {} /\ UNCHANGED insertions
    BY <1>2 DEF Discover, Orderly, RoutesInOrder
  <2>2. CASE /\ detaching' = [detaching EXCEPT ![u] = Detachments(task[u])]
             /\ attaching' = [attaching EXCEPT ![u] = Attachments(task[u])]
             /\ deleting' = [deleting EXCEPT ![u] = RoutesToUpdate(task[u])]
             /\ task' = [task EXCEPT ![u].routes = {d.route : d \in RoutesToUpdate(task[u])}]
             /\ stage' = [stage EXCEPT ![u] = "refresh"]
             /\ Goto(u, "update")
             /\ UNCHANGED <<creating, routesLost>>
    <3>1. pc'[u] = "update" /\ stage'[u] = "refresh"
      BY <2>2 DEF Goto, TypeOK
    <3>2. /\ task'[u].host = task[u].host
          /\ task'[u].routes = {d.route : d \in RoutesToUpdate(task[u])}
          /\ deleting'[u] = RoutesToUpdate(task[u]) /\ ~routesLost'[u]
      BY <2>1, <2>2 DEF TypeOK, Task
    <3>3. detaching'[u] = Detachments(task[u]) /\ attaching'[u] = Attachments(task[u])
      BY <2>2 DEF TypeOK
    <3>4. Orderly(u)'
      BY <2>1, <3>1, <3>2 DEF Orderly
    <3>5. Paired(u)'
      BY <2>1, <3>1, <3>3, DiscoveryPaired DEF Paired
    <3>6. RoutesInOrder(u)'
      BY <3>1, <3>2 DEF RoutesInOrder
    <3>. QED
      BY <3>4, <3>5, <3>6
  <2>3. CASE Goto(u, "failed") /\ UNCHANGED <<task, nicCalls, retargets, deleting, creating, routesLost>>
    <3>1. pc'[u] = "failed"
      BY <2>3 DEF Goto, TypeOK
    <3>. QED
      BY <2>1, <2>3, <3>1 DEF Orderly, Paired, RoutesInOrder, nicCalls, insertions
  <2>. QED
    BY <1>2, <2>2, <2>3 DEF Discover
<1>3. ASSUME Rejected(u) \/ UNCHANGED pc
      PROVE  /\ pc'[u] = pc[u] \/ (pc[u] = "update" /\ pc'[u] = "failed")
             /\ Rejected(u) => pc'[u] # "update"
  BY <1>3 DEF Rejected, Goto, TypeOK
<1>4. ASSUME Refresh(u) PROVE (Orderly(u) /\ Paired(u) /\ RoutesInOrder(u))'
  <2>1. pc'[u] = pc[u] \/ (pc[u] = "update" /\ pc'[u] = "failed")
    BY <1>3, <1>4 DEF Refresh
  <2>2. /\ detaching'[u] \subseteq detaching[u] /\ retargets'[u] \subseteq retargets[u]
        /\ stage'[u] = "attach" => detaching'[u] = {}
    BY <1>4 DEF Refresh, TypeOK, AfterDetaching
  <2>3. UNCHANGED <<task, attaching, deleting, creating, routesLost, inserting, refused>>
    BY <1>4 DEF Refresh, routeCalls, insertions
  <2>. QED
    BY <2>1, <2>2, <2>3 DEF Orderly, Paired, RoutesInOrder
<1>5. ASSUME NEW p \in detaching[u], Detach(u, p)
      PROVE  (Orderly(u) /\ Paired(u) /\ RoutesInOrder(u))'
  <2>1. pc'[u] = pc[u] \/ (pc[u] = "update" /\ pc'[u] = "failed")
    BY <1>3, <1>5, DetachOutcome
  <2>2. UNCHANGED <<task, attaching, retargets, deleting, creating, routesLost>>
    BY <1>5 DEF Detach, routeCalls
  <2>3. pc[u] \notin {"idle", "discover"} /\ stage[u] # "attach"
    BY <1>5 DEF Orderly, Paired
  <2>4. \A q \in detaching'[u] : \E r \in detaching[u] : q.moved = r.moved
    <3>1. p \in Patch /\ (p.tries > 0 => OneTryLess(p).moved = p.moved)
      BY TriesTyping DEF TypeOK
    <3>2. \/ detaching'[u] = detaching[u] \ {p}
          \/ p.tries > 0 /\ detaching'[u] = (detaching[u] \ {p}) \cup {OneTryLess(p)}
      <4>1. \/ detaching' = [detaching EXCEPT ![u] = @ \ {p}]
            \/ /\ p.tries > 0
               /\ detaching' = [detaching EXCEPT ![u] = (@ \ {p}) \cup {OneTryLess(p)}]
        BY <1>5, DetachOutcome
      <4>2. detaching \in [Tasks -> SUBSET Patch]
        BY DEF TypeOK
      <4>. QED
        BY <4>1, <4>2
    <3>. QED
      BY <3>1, <3>2
  <2>5. stage'[u] = "attach" => detaching'[u] = {}
    <3>1. CASE stage' = [stage EXCEPT ![u] = AfterDetaching(detaching[u] \ {p})]
               /\ detaching' = [detaching EXCEPT ![u] = @ \ {p}]
      BY <3>1 DEF TypeOK, AfterDetaching
    <3>2. CASE UNCHANGED stage \/ stage' = [stage EXCEPT ![u] = "broken"]
      BY <2>3, <3>2 DEF TypeOK
    <3>. QED
      BY <1>5, <3>1, <3>2, DetachOutcome
  <2>6. Paired(u)'
    BY <2>2, <2>4, <2>5 DEF Paired
  <2>. QED
    BY <2>1, <2>2, <2>3, <2>6 DEF Orderly, RoutesInOrder
<1>6. ASSUME NEW p \in attaching[u], Attach(u, p)
      PROVE  (Orderly(u) /\ Paired(u) /\ RoutesInOrder(u))'
  <2>1. pc'[u] = pc[u] \/ (pc[u] = "update" /\ pc'[u] = "failed")
    BY <1>3, <1>6, AttachOutcome
  <2>2. UNCHANGED <<task, stage, detaching, retargets, deleting, creating, routesLost>>
    BY <1>6 DEF Attach, routeCalls
  <2>3. pc[u] \notin {"idle", "discover"} /\ detaching[u] = {}
    BY <1>6, AttachOutcome DEF Orderly, Paired
  <2>. QED
    BY <2>1, <2>2, <2>3 DEF Orderly, Paired, RoutesInOrder
<1>7. ASSUME NEW call \in retargets[u], UpdateRule(u, call)
      PROVE  (Orderly(u) /\ Paired(u) /\ RoutesInOrder(u))'
  <2>1. pc'[u] = pc[u] \/ (pc[u] = "update" /\ pc'[u] = "failed")
    BY <1>3, <1>7 DEF UpdateRule
  <2>2. UNCHANGED <<task, stage, detaching, attaching, deleting, creating, routesLost>>
    BY <1>7 DEF UpdateRule, nicCalls, routeCalls
  <2>3. pc[u] \notin {"idle", "discover"}
    BY <1>7 DEF Orderly
  <2>. QED
    BY <2>1, <2>2, <2>3 DEF Orderly, Paired, RoutesInOrder
<1>8. ASSUME NEW d \in deleting[u], DeleteRoute(u, d)
      PROVE  (Orderly(u) /\ Paired(u) /\ RoutesInOrder(u))'
  <2>1. pc'[u] = pc[u] \/ (pc[u] = "update" /\ pc'[u] = "failed")
    BY <1>3, <1>8 DEF DeleteRoute
  <2>2. /\ UNCHANGED <<task, stage, detaching, attaching, retargets>>
        /\ deleting'[u] \subseteq deleting[u]
    BY <1>8 DEF DeleteRoute, nicCalls, TypeOK
  <2>3. pc[u] \in {"update", "failed", "lost"}
    BY <1>8 DEF RoutesInOrder
  <2>4. routesLost'[u] => pc'[u] \in {"failed", "lost"}
    <3>1. routesLost'[u] => routesLost[u] \/ Rejected(u)
      BY <1>8 DEF DeleteRoute, TypeOK
    <3>. QED
      BY <1>3, <2>1, <2>3, <3>1 DEF RoutesInOrder
  <2>. QED
    BY <2>1, <2>2, <2>3, <2>4 DEF Orderly, Paired, RoutesInOrder
<1>9. ASSUME NEW n \in creating[u], CreateRoute(u, n)
      PROVE  (Orderly(u) /\ Paired(u) /\ RoutesInOrder(u))'
  <2>1. pc'[u] = pc[u] \/ (pc[u] = "update" /\ pc'[u] = "failed")
    BY <1>3, <1>9 DEF CreateRoute
  <2>2. UNCHANGED <<task, stage, detaching, attaching, retargets, deleting>>
    BY <1>9 DEF CreateRoute, nicCalls
  <2>3. pc[u] \in {"update", "failed", "lost"}
    BY <1>9 DEF RoutesInOrder
  <2>4. routesLost'[u] => pc'[u] \in {"failed", "lost"}
    <3>1. routesLost'[u] => routesLost[u] \/ Rejected(u)
      BY <1>9 DEF CreateRoute, TypeOK
    <3>. QED
      BY <1>3, <2>1, <2>3, <3>1 DEF RoutesInOrder
  <2>. QED
    BY <2>1, <2>2, <2>3, <2>4 DEF Orderly, Paired, RoutesInOrder
<1>10. ASSUME Succeed(u) PROVE (Orderly(u) /\ Paired(u) /\ RoutesInOrder(u))'
  <2>1. /\ pc[u] = "update" /\ pc'[u] = "succeeded" /\ deleting[u] \cup creating[u] = {}
        /\ UNCHANGED <<task, stage, detaching, attaching, retargets, deleting, creating, routesLost>>
    BY <1>10 DEF Succeed, UpdatesDone, Goto, TypeOK, nicCalls, routeCalls
  <2>. QED
    BY <2>1 DEF Orderly, Paired, RoutesInOrder
<1>11. ASSUME NEW d \in Devices, Restart(d)
       PROVE  (Orderly(u) /\ Paired(u) /\ RoutesInOrder(u))'
  <2>1. CASE task[u].host = d /\ Running(u)
    <3>1. /\ pc'[u] = "lost" /\ stage'[u] = (IF stage[u] # "attach" THEN "broken" ELSE stage[u])
          /\ attaching'[u] = LastTry(attaching[u])
          /\ detaching'[u] \in {{}, LastTry(detaching[u])}
          /\ UNCHANGED <<task, deleting, creating, inserting, refused>>
      BY <1>11, <2>1 DEF Restart, LastTry, insertions
    <3>2. task[u].host \in Devices
      BY <2>1
    <3>3. \A S \in SUBSET Patch :
            /\ \A p \in LastTry(S) : \E q \in S : p.moved = q.moved
            /\ \A q \in S : \E p \in LastTry(S) : p.moved = q.moved
      BY LastTryTyping
    <3>4. detaching[u] \in SUBSET Patch /\ attaching[u] \in SUBSET Patch
      BY DEF TypeOK
    <3>5. /\ \A p \in detaching'[u] : \E q \in detaching[u] : p.moved = q.moved
          /\ \A q \in attaching[u] : \E p \in attaching'[u] : p.moved = q.moved
          /\ detaching[u] = {} => detaching'[u] = {}
      BY <3>1, <3>3, <3>4 DEF LastTry
    <3>6. Paired(u)'
      BY <3>1, <3>5 DEF Paired
    <3>. QED
      BY <3>1, <3>2, <3>6 DEF Orderly, RoutesInOrder
  <2>2. CASE ~(task[u].host = d /\ Running(u))
    <3>1. /\ pc'[u] = pc[u] /\ stage'[u] = stage[u]
          /\ UNCHANGED <<task, deleting, creating, inserting, refused>>
          /\ detaching'[u] = detaching[u] /\ attaching'[u] = attaching[u]
          /\ retargets'[u] = retargets[u]
      BY <1>11, <2>2 DEF Restart, insertions
    <3>2. routesLost'[u] <=> routesLost[u]
      BY <1>11, <2>2, Zenon DEF Restart
    <3>. QED
      BY <3>1, <3>2 DEF Orderly, Paired, RoutesInOrder
  <2>. QED
    BY <2>1, <2>2
<1>12. CASE UNCHANGED vars
  BY <1>12, TaskKept DEF vars, nicCalls, routeCalls, insertions
<1>13. ASSUME NEW t \in Tasks \ {u},
         \/ \E d \in Devices, gained \in SUBSET (Aliases \cup Rules) : TakeOver(t, d, gained)
         \/ Discover(t) \/ Refresh(t)
         \/ \E p \in detaching[t] : Detach(t, p)
         \/ \E p \in attaching[t] : Attach(t, p)
         \/ \E call \in retargets[t] : UpdateRule(t, call)
         \/ \E d \in deleting[t] : DeleteRoute(t, d)
         \/ \E n \in creating[t] : CreateRoute(t, n)
         \/ \E n \in inserting[t] : InsertRoute(t, n)
         \/ Succeed(t)
       PROVE (Orderly(u) /\ Paired(u) /\ RoutesInOrder(u))'
  BY <1>13, OthersKept, TaskKept
<1>14. ASSUME NEW n \in inserting[u], InsertRoute(u, n)
       PROVE  (Orderly(u) /\ Paired(u) /\ RoutesInOrder(u))'
  <2>1. UNCHANGED <<pc, task, stage, detaching, attaching, retargets, deleting, creating,
                    routesLost>>
    BY <1>14 DEF InsertRoute, nicCalls, routeCalls
  <2>2. pc[u] \notin {"idle", "discover"}
    BY <1>14 DEF Orderly
  <2>. QED
    BY <2>1, <2>2 DEF Orderly, Paired, RoutesInOrder
<1>. QED
  BY <1>1, <1>2, <1>4, <1>5, <1>6, <1>7, <1>8, <1>9, <1>10, <1>11, <1>12, <1>13, <1>14 DEF Next, Done

-----------------------------------------------------------------------------
(* Routes.                                                                 *)

\* A step that deletes no route keeps the answers of the tasks it does not let
\* go on.
LEMMA AnswersKept ==
  ASSUME MissingRouteIsCarried,
         \A n \in Routes : route'[n].hop = Deleted =>
           \/ \E t \in Tasks : Answers(t, n)'
           \/ route[n].hop = Deleted /\ \A t \in Tasks : Answers(t, n) => Answers(t, n)'
  PROVE  MissingRouteIsCarried'
BY DEF MissingRouteIsCarried

\* A task with a deletion that comes back answers for all its routes: it has
\* others to delete, or them all to create, or knows that it cannot.
LEMMA DeletionAnswers ==
  ASSUME IInv, NEW t \in Tasks, NEW d \in deleting[t], DeleteRoute(t, d),
         NEW n \in task[t].routes
  PROVE  Answers(t, n)'
<1>. USE DEF IInv
<1>1. UNCHANGED task /\ pc[t] \in {"update", "failed", "lost"}
  BY DEF DeleteRoute, RoutesInOrder
<1>2. pc'[t] \in {"update", "failed", "lost"}
  BY <1>1 DEF DeleteRoute, Rejected, Goto, TypeOK
<1>3. CASE routesLost' = [routesLost EXCEPT ![t] = TRUE]
  <2>1. routesLost'[t]
    BY <1>3, Zenon DEF TypeOK
  <2>. QED
    BY <1>1, <1>2, <2>1 DEF Answers
<1>4. CASE /\ UNCHANGED routesLost
           /\ creating' = [creating EXCEPT ![t] =
                IF deleting[t] = {d} /\ ~routesLost[t] THEN task[t].routes ELSE @]
  <2>1. deleting'[t] = deleting[t] \ {d}
    BY DEF DeleteRoute, TypeOK
  <2>2. deleting[t] = {d} /\ ~routesLost[t] => creating'[t] = task[t].routes
    BY <1>4 DEF TypeOK
  <2>3. deleting'[t] # {} \/ n \in creating'[t] \/ routesLost'[t]
    BY <1>4, <2>1, <2>2
  <2>. QED
    BY <1>1, <1>2, <2>3 DEF Answers
<1>. QED
  BY <1>3, <1>4 DEF DeleteRoute

\* A creation that comes back has been accepted, or the task knows that it may
\* not have been.
LEMMA CreationAnswers ==
  ASSUME IInv, NEW t \in Tasks, NEW n \in creating[t], CreateRoute(t, n),
         NEW m \in Routes, Answers(t, m)
  PROVE  Answers(t, m)'
<1>. USE DEF IInv
<1>1. UNCHANGED <<task, deleting, refused>> /\ pc[t] \in {"update", "failed", "lost"}
  BY DEF CreateRoute, RoutesInOrder
<1>2. pc'[t] \in {"update", "failed", "lost"}
  BY <1>1 DEF CreateRoute, Rejected, Goto, TypeOK
<1>3. m \in task'[t].routes /\ inserting[t] \subseteq inserting'[t]
  BY <1>1 DEF CreateRoute, Answers, TypeOK
<1>4. CASE routesLost' = [routesLost EXCEPT ![t] = TRUE]
  <2>1. routesLost'[t]
    BY <1>4, Zenon DEF TypeOK
  <2>. QED
    BY <1>2, <1>3, <2>1 DEF Answers
<1>5. CASE UNCHANGED routesLost /\ inserting' = [inserting EXCEPT ![t] = @ \cup {n}]
  <2>1. creating'[t] = creating[t] \ {n} /\ n \in inserting'[t]
    BY <1>5 DEF CreateRoute, TypeOK
  <2>2. \/ deleting[t] # {} \/ m \in creating[t] \/ routesLost[t]
        \/ m \in inserting[t] \cup refused[t]
    BY DEF Answers
  <2>3. \/ deleting'[t] # {} \/ m \in creating'[t] \/ routesLost'[t]
        \/ m \in inserting'[t] \cup refused'[t]
    BY <1>1, <1>3, <1>5, <2>1, <2>2
  <2>. QED
    BY <1>2, <1>3, <2>3 DEF Answers
<1>. QED
  BY <1>4, <1>5 DEF CreateRoute

LEMMA NextAnswered == IInv /\ [Next]_vars => MissingRouteIsCarried'
<1>. SUFFICES ASSUME IInv, [Next]_vars PROVE MissingRouteIsCarried'
  OBVIOUS
<1>. USE DEF IInv
<1>1. ASSUME UNCHANGED route,
             \A t \in Tasks, n \in Routes : Answers(t, n) => Answers(t, n)'
      PROVE  MissingRouteIsCarried'
  BY <1>1, AnswersKept
<1>2. ASSUME NEW t \in Tasks, NEW n \in Routes,
             UNCHANGED <<deleting, creating, routesLost, inserting, refused>>,
             task'[t].routes = task[t].routes,
             pc'[t] = pc[t] \/ (pc[t] = "update" /\ pc'[t] = "failed")
      PROVE  Answers(t, n) => Answers(t, n)'
  BY <1>2 DEF Answers
<1>3. ASSUME NEW t \in Tasks, Rejected(t) \/ UNCHANGED pc
      PROVE  pc'[t] = pc[t] \/ (pc[t] = "update" /\ pc'[t] = "failed")
  BY <1>3 DEF Rejected, Goto, TypeOK
<1>4. ASSUME NEW t \in Tasks, NEW u \in Tasks \ {t}, NEW n \in Routes,
         \/ \E d \in Devices, gained \in SUBSET (Aliases \cup Rules) : TakeOver(t, d, gained)
         \/ Discover(t) \/ Refresh(t)
         \/ \E p \in detaching[t] : Detach(t, p)
         \/ \E p \in attaching[t] : Attach(t, p)
         \/ \E call \in retargets[t] : UpdateRule(t, call)
         \/ \E d \in deleting[t] : DeleteRoute(t, d)
         \/ \E m \in creating[t] : CreateRoute(t, m)
         \/ \E m \in inserting[t] : InsertRoute(t, m)
         \/ Succeed(t)
      PROVE Answers(u, n) => Answers(u, n)'
  <2>1. /\ pc'[u] = pc[u] /\ task'[u] = task[u]
        /\ deleting'[u] = deleting[u] /\ creating'[u] = creating[u]
        /\ routesLost'[u] = routesLost[u]
        /\ inserting'[u] = inserting[u] /\ refused'[u] = refused[u]
    BY <1>4, OthersKept
  <2>. QED
    BY <2>1 DEF Answers
<1>5. ASSUME NEW t \in Tasks,
             \/ \E d \in Devices, gained \in SUBSET (Aliases \cup Rules) : TakeOver(t, d, gained)
             \/ Discover(t) \/ Succeed(t)
      PROVE  MissingRouteIsCarried'
  <2>1. UNCHANGED <<route, inserting, refused>>
    BY <1>5 DEF TakeOver, Discover, Succeed, cloud, insertions
  <2>2. \A n \in Routes : Answers(t, n) => Answers(t, n)'
    <3>1. CASE pc[t] \in {"idle", "discover"}
      <4>1. task[t].routes = {}
        BY <3>1 DEF Orderly
      <4>. QED
        BY <4>1 DEF Answers
    <3>2. CASE Succeed(t)
      <4>1. pc[t] = "update" /\ deleting[t] \cup creating[t] = {} /\ ~routesLost[t]
        BY <3>2 DEF Succeed, UpdatesDone, RoutesInOrder
      <4>2. UNCHANGED task
        BY <3>2 DEF Succeed
      <4>. QED
        BY <2>1, <4>1, <4>2 DEF Answers
    <3>. QED
      BY <1>5, <3>1, <3>2 DEF TakeOver, Discover
  <2>3. \A u \in Tasks \ {t}, n \in Routes : Answers(u, n) => Answers(u, n)'
    BY <1>4, <1>5
  <2>. QED
    BY <1>1, <2>1, <2>2, <2>3
<1>6. ASSUME NEW t \in Tasks,
             \/ Refresh(t)
             \/ \E p \in detaching[t] : Detach(t, p)
             \/ \E p \in attaching[t] : Attach(t, p)
             \/ \E call \in retargets[t] : UpdateRule(t, call)
      PROVE  MissingRouteIsCarried'
  <2>1. UNCHANGED <<route, task, deleting, creating, routesLost, inserting, refused>>
    BY <1>6 DEF Refresh, Detach, Attach, UpdateRule, cloud, routeCalls, insertions
  <2>2. Rejected(t) \/ UNCHANGED pc
    BY <1>6 DEF Refresh, Detach, Attach, UpdateRule
  <2>3. \A n \in Routes : Answers(t, n) => Answers(t, n)'
    BY <1>2, <1>3, <2>1, <2>2
  <2>4. \A u \in Tasks \ {t}, n \in Routes : Answers(u, n) => Answers(u, n)'
    BY <1>4, <1>6
  <2>. QED
    BY <1>1, <2>1, <2>3, <2>4
<1>7. ASSUME NEW t \in Tasks, NEW d \in deleting[t], DeleteRoute(t, d)
      PROVE  MissingRouteIsCarried'
  <2>1. d.route \in Routes /\ d.route \in task[t].routes
    BY <1>7 DEF TypeOK, Deletion, RoutesInOrder
  <2>2. \A n \in Routes : route'[n] = route[n] \/ n = d.route
    BY <1>7 DEF DeleteRoute, TypeOK
  <2>3. \A n \in task[t].routes : Answers(t, n)'
    BY <1>7, DeletionAnswers
  <2>4. \A n \in Routes : Answers(t, n) => Answers(t, n)'
    BY <2>3 DEF Answers
  <2>5. \A u \in Tasks \ {t}, n \in Routes : Answers(u, n) => Answers(u, n)'
    BY <1>4, <1>7
  <2>. QED
    BY <2>1, <2>2, <2>3, <2>4, <2>5, AnswersKept
<1>8. ASSUME NEW t \in Tasks, NEW n \in creating[t], CreateRoute(t, n)
      PROVE  MissingRouteIsCarried'
  <2>1. UNCHANGED route
    BY <1>8 DEF CreateRoute, cloud
  <2>2. \A m \in Routes : Answers(t, m) => Answers(t, m)'
    BY <1>8, CreationAnswers
  <2>3. \A u \in Tasks \ {t}, m \in Routes : Answers(u, m) => Answers(u, m)'
    BY <1>4, <1>8
  <2>. QED
    BY <1>1, <2>1, <2>2, <2>3
<1>9. ASSUME NEW t \in Tasks, NEW n \in inserting[t], InsertRoute(t, n)
      PROVE  MissingRouteIsCarried'
  <2>1. n \in Routes /\ task[t].host \in Devices
    BY <1>9, InsertOutcome
  <2>2. UNCHANGED <<pc, task, deleting, creating, routesLost>>
    BY <1>9 DEF InsertRoute, routeCalls
  <2>3. \A u \in Tasks \ {t}, m \in Routes : Answers(u, m) => Answers(u, m)'
    BY <1>4, <1>9
  <2>4. inserting'[t] = inserting[t] \ {n}
    BY <1>9, InsertOutcome DEF TypeOK
  <2>5. CASE route' = [route EXCEPT ![n] = [hop |-> task[t].host, id |-> t]] /\ UNCHANGED refused
    <3>1. route'[n].hop # Deleted /\ \A m \in Routes \ {n} : route'[m] = route[m]
      BY <2>1, <2>5, NameAssumption DEF TypeOK, Deleted
    <3>2. \A m \in Routes \ {n} : Answers(t, m) => Answers(t, m)'
      BY <2>2, <2>4, <2>5 DEF Answers
    <3>. QED
      BY <2>3, <3>1, <3>2, AnswersKept
  <2>6. CASE UNCHANGED route /\ refused' = [refused EXCEPT ![t] = @ \cup {n}]
    <3>1. refused'[t] = refused[t] \cup {n}
      BY <2>6 DEF TypeOK
    <3>2. \A m \in Routes : Answers(t, m) => Answers(t, m)'
      BY <2>2, <2>4, <3>1 DEF Answers
    <3>. QED
      BY <1>1, <2>3, <2>6, <3>2
  <2>. QED
    BY <1>9, <2>5, <2>6, InsertOutcome
<1>10. ASSUME NEW d \in Devices, Restart(d) PROVE MissingRouteIsCarried'
  <2>1. UNCHANGED <<route, task, deleting, creating, inserting, refused>>
    BY <1>10 DEF Restart, cloud, insertions
  <2>2. \A t \in Tasks : pc'[t] = pc[t] \/ pc'[t] = "lost"
    BY <1>10 DEF Restart
  <2>3. \A t \in Tasks : routesLost[t] => routesLost'[t]
    BY <1>10, Zenon DEF Restart
  <2>4. \A t \in Tasks, n \in Routes : Answers(t, n) => Answers(t, n)'
    BY <2>1, <2>2, <2>3 DEF Answers
  <2>. QED
    BY <1>1, <2>1, <2>4
<1>11. CASE UNCHANGED vars
  <2>1. UNCHANGED <<route, pc, task, deleting, creating, routesLost, inserting, refused>>
    BY <1>11 DEF vars, cloud, routeCalls, insertions
  <2>. QED
    BY <1>1, <2>1 DEF Answers
<1>. QED
  BY <1>5, <1>6, <1>7, <1>8, <1>9, <1>10, <1>11 DEF Next, Done

-----------------------------------------------------------------------------
(* Theorems.                                                               *)

\* The inductive invariant is one.
THEOREM Invariance == Spec => []IInv
<1>1. IInv /\ [Next]_vars => IInv'
  BY NextTypeOK, NextSingle, NextAnswered, NextTasks DEF IInv
<1>. QED
  BY <1>1, InitIInv, PTL DEF Spec

\* The variables keep their form.
THEOREM TypeCorrect == Spec => []TypeOK
<1>1. IInv => TypeOK
  BY DEF IInv
<1>. QED
  BY <1>1, Invariance, PTL

\* A route that updateRoutes has deleted and that is not there again is one of a
\* task that has still to ask for its creation or knows that it could not, or
\* one that Google was asked for and is still creating or has refused, which
\* the task, not waiting for it, does not learn (_updateRoutes).
THEOREM RoutesCarried == Spec => []MissingRouteIsCarried
<1>1. IInv => MissingRouteIsCarried
  BY DEF IInv
<1>. QED
  BY <1>1, Invariance, PTL

-----------------------------------------------------------------------------
(* The alias ranges move as AddressOwnership says.                         *)

\* The device that has alias range a when the interfaces have what f says.
OwnerIn(f, a) ==
  IF \E i \in Interfaces : a \in f[i]
  THEN Device(CHOOSE i \in Interfaces : a \in f[i]) ELSE Nowhere

\* Task t is to bring alias range a to device d.
Claim(t, a, d) == \E p \in attaching[t] : a \in p.moved /\ Device(p.interface) = d

LEMMA OwnerAt ==
  ASSUME NEW f, NEW a, NEW i \in Interfaces, a \in f[i],
         \A j \in Interfaces : a \in f[j] => j = i
  PROVE  OwnerIn(f, a) = Device(i)
BY DEF OwnerIn

LEMMA OwnerNowhere ==
  ASSUME NEW f, NEW a, \A i \in Interfaces : a \notin f[i]
  PROVE  OwnerIn(f, a) = Nowhere
BY DEF OwnerIn

LEMMA DeviceTyping == \A i \in Interfaces : Device(i) \in Devices
BY DEF Interfaces, Device

\* An alias range that stays on its interface stays with its device.
LEMMA OwnerStays ==
  ASSUME Single, Single', NEW a, \A i \in Interfaces : a \in aliases[i] <=> a \in aliases'[i]
  PROVE  OwnerIn(aliases', a) = OwnerIn(aliases, a)
<1>1. CASE \E i \in Interfaces : a \in aliases[i]
  <2>1. PICK i \in Interfaces : a \in aliases[i]
    BY <1>1
  <2>2. OwnerIn(aliases, a) = Device(i)
    BY <2>1, OwnerAt DEF Single
  <2>3. OwnerIn(aliases', a) = Device(i)
    BY <2>1, OwnerAt DEF Single
  <2>. QED
    BY <2>2, <2>3
<1>2. CASE \A i \in Interfaces : a \notin aliases[i]
  BY <1>2, OwnerNowhere
<1>. QED
  BY <1>1, <1>2

\* What the abstract specification asks of a step, in terms of the PATCHes the
\* tasks have to make.
LEMMA StepOfOwnership ==
  ASSUME \A a \in Aliases :
           \/ OwnerIn(aliases', a) = OwnerIn(aliases, a)
           \/ /\ OwnerIn(aliases', a) = Nowhere
              /\ \E q \in Tasks, d \in Devices : Claim(q, a, d)
           \/ /\ OwnerIn(aliases, a) = Nowhere
              /\ \E q \in Tasks, d \in Devices : Claim(q, a, d) /\ OwnerIn(aliases', a) = d,
         \A q \in Tasks, a \in Aliases, d \in Devices :
           Claim(q, a, d) => Claim(q, a, d)' \/ OwnerIn(aliases', a) = d
  PROVE  Ownership!Next
<1>1. \A a \in Aliases : Owner[a] = OwnerIn(aliases, a) /\ Owner'[a] = OwnerIn(aliases', a)
  BY DEF Owner, OwnerIn
<1>2. Owner' \in [Aliases -> Devices \cup {Nowhere}]
  <2>1. \A a \in Aliases : OwnerIn(aliases', a) \in Devices \cup {Nowhere}
    BY DeviceTyping DEF OwnerIn
  <2>. QED
    BY <2>1 DEF Owner, OwnerIn
<1>3. Claims' \subseteq Ownership!Claim
  BY DEF Claims, Ownership!Claim
<1>4. ASSUME NEW q \in Tasks, NEW a \in Aliases, NEW d \in Devices, Claim(q, a, d)
      PROVE  [task |-> q, address |-> a, device |-> d] \in Claims
  BY <1>4 DEF Claims, Claim
<1>5. \A a \in Aliases : Ownership!Stays(a) \/ Ownership!Leaves(a) \/ Ownership!Arrives(a)
  <2>. TAKE a \in Aliases
  <2>1. CASE OwnerIn(aliases', a) = OwnerIn(aliases, a)
    BY <1>1, <2>1 DEF Ownership!Stays
  <2>2. ASSUME OwnerIn(aliases', a) = Nowhere,
               NEW q \in Tasks, NEW d \in Devices, Claim(q, a, d)
        PROVE  Ownership!Leaves(a)
    <3>1. [task |-> q, address |-> a, device |-> d] \in Claims
      BY <1>4, <2>2
    <3>. QED
      BY <1>1, <2>2, <3>1 DEF Ownership!Leaves, Ownership!Claimed
  <2>3. ASSUME OwnerIn(aliases, a) = Nowhere, NEW q \in Tasks, NEW d \in Devices,
               Claim(q, a, d), OwnerIn(aliases', a) = d
        PROVE  Ownership!Arrives(a)
    <3>1. [task |-> q, address |-> a, device |-> d] \in Claims
      BY <1>4, <2>3
    <3>. QED
      BY <1>1, <2>3, <3>1 DEF Ownership!Arrives
  <2>. QED
    BY <2>1, <2>2, <2>3
<1>6. \A c \in Claims \ Claims' : Owner'[c.address] = c.device
  <2>. TAKE c \in Claims \ Claims'
  <2>1. /\ c.task \in Tasks /\ c.address \in Aliases /\ c.device \in Devices
        /\ Claim(c.task, c.address, c.device)
    BY DEF Claims, Claim
  <2>2. ~ Claim(c.task, c.address, c.device)'
    BY <2>1 DEF Claims, Claim
  <2>. QED
    BY <1>1, <2>1, <2>2
<1>. QED
  BY <1>2, <1>3, <1>5, <1>6 DEF Ownership!Next

\* Initially every alias range is on an interface, and nobody moves it.
LEMMA InitOwnership == Init => Ownership!Init
<1>. SUFFICES ASSUME Init PROVE Ownership!Init
  OBVIOUS
<1>1. ASSUME NEW a \in Aliases PROVE Owner[a] \in Devices
  <2>1. PICK nic \in [Aliases -> Nics] :
          aliases = [i \in Interfaces |->
                       {b \in Aliases : active[b] = Device(i) /\ nic[b] = NameOf(i)}]
    BY DEF Init
  <2>2. active[a] \in Devices /\ nic[a] \in Nics
    BY DEF Init
  <2>. DEFINE i == <<active[a], nic[a]>>
  <2>3. i \in Interfaces /\ Device(i) = active[a] /\ NameOf(i) = nic[a]
    BY <2>2 DEF Interfaces, Device, NameOf
  <2>4. a \in aliases[i]
    BY <2>1, <2>3
  <2>. QED
    BY <2>3, <2>4, DeviceTyping DEF Owner
<1>2. Owner \in [Aliases -> Devices]
  BY <1>1 DEF Owner
<1>3. Claims = {}
  BY DEF Init, Claims
<1>. QED
  BY <1>2, <1>3 DEF Ownership!Init

\* A PATCH that takes alias ranges from an interface takes those its task is
\* to give to another one.
LEMMA DetachOwnership ==
  ASSUME IInv, IInv', NEW t \in Tasks, NEW p \in detaching[t], Detach(t, p)
  PROVE  Ownership!Next
<1>. USE DEF IInv
<1>1. \A q \in Tasks, a \in Aliases, d \in Devices : Claim(q, a, d) => Claim(q, a, d)'
  BY DEF Detach, Claim
<1>2. CASE UNCHANGED aliases
  BY <1>1, <1>2, StepOfOwnership
<1>3. CASE /\ Accepted(p, p.seen \ p.moved)
           /\ aliases' = [aliases EXCEPT ![p.interface] = p.seen \ p.moved]
  <2>1. /\ p.interface \in Interfaces /\ aliases[p.interface] = p.seen
        /\ aliases'[p.interface] = p.seen \ p.moved
        /\ \A i \in Interfaces \ {p.interface} : aliases'[i] = aliases[i]
    BY <1>3 DEF Accepted, TypeOK, Patch
  <2>2. ASSUME NEW a \in Aliases, a \in p.moved, a \in p.seen
        PROVE  /\ OwnerIn(aliases', a) = Nowhere
               /\ \E q \in Tasks, d \in Devices : Claim(q, a, d)
    <3>1. \A i \in Interfaces : a \notin aliases'[i]
      BY <2>1, <2>2 DEF Single
    <3>2. PICK q \in attaching[t] : a \in q.moved
      BY <2>2 DEF Paired
    <3>3. Device(q.interface) \in Devices
      BY DeviceTyping DEF TypeOK, Patch
    <3>4. Claim(t, a, Device(q.interface))
      BY <3>2 DEF Claim
    <3>. QED
      BY <3>1, <3>3, <3>4, OwnerNowhere
  <2>3. ASSUME NEW a \in Aliases, ~(a \in p.moved /\ a \in p.seen)
        PROVE  OwnerIn(aliases', a) = OwnerIn(aliases, a)
    <3>1. \A i \in Interfaces : a \in aliases[i] <=> a \in aliases'[i]
      BY <2>1, <2>3
    <3>. QED
      BY <3>1, OwnerStays
  <2>. QED
    BY <1>1, <2>2, <2>3, StepOfOwnership
<1>. QED
  BY <1>2, <1>3, DetachOutcome

\* A PATCH that gives alias ranges to an interface is accepted when nobody has
\* them, and is done with when they are there.
LEMMA AttachOwnership ==
  ASSUME IInv, IInv', NEW t \in Tasks, NEW p \in attaching[t], Attach(t, p)
  PROVE  Ownership!Next
<1>. USE DEF IInv
<1>1. /\ p \in Patch /\ p.interface \in Interfaces
      /\ Device(p.interface) \in Devices
  BY DeviceTyping DEF TypeOK, Patch
<1>2. ASSUME aliases' = [aliases EXCEPT ![p.interface] = p.seen \cup p.moved]
      PROVE  \A a \in p.moved : OwnerIn(aliases', a) = Device(p.interface)
  <2>1. \A a \in p.moved : a \in aliases'[p.interface]
    BY <1>1, <1>2 DEF TypeOK
  <2>. QED
    BY <1>1, <2>1, OwnerAt DEF Single
<1>3. \A q \in Tasks, a \in Aliases, d \in Devices :
        Claim(q, a, d) => Claim(q, a, d)' \/ OwnerIn(aliases', a) = d
  <2>. TAKE q \in Tasks, a \in Aliases, d \in Devices
  <2>1. CASE q # t
    <3>1. attaching'[q] = attaching[q]
      BY <2>1 DEF Attach, TypeOK
    <3>. QED
      BY <3>1 DEF Claim
  <2>2. CASE /\ q = t /\ attaching' = [attaching EXCEPT ![t] = @ \ {p}]
             /\ aliases' = [aliases EXCEPT ![p.interface] = p.seen \cup p.moved]
    <3>1. attaching'[t] = attaching[t] \ {p}
      BY <2>2 DEF TypeOK
    <3>. QED
      BY <1>2, <2>2, <3>1 DEF Claim
  <2>3. CASE q = t /\ attaching' = [attaching EXCEPT ![t] = (@ \ {p}) \cup {OneTryLess(p)}]
    <3>1. attaching'[t] = (attaching[t] \ {p}) \cup {OneTryLess(p)}
      BY <2>3 DEF TypeOK
    <3>2. OneTryLess(p).moved = p.moved /\ OneTryLess(p).interface = p.interface
      BY <1>1, TriesTyping, AttachOutcome
    <3>. QED
      BY <2>3, <3>1, <3>2 DEF Claim
  <2>. QED
    BY <2>1, <2>2, <2>3, AttachOutcome
<1>4. CASE UNCHANGED aliases
  BY <1>3, <1>4, StepOfOwnership
<1>5. CASE /\ Accepted(p, p.seen \cup p.moved)
           /\ aliases' = [aliases EXCEPT ![p.interface] = p.seen \cup p.moved]
  <2>1. /\ aliases[p.interface] = p.seen
        /\ aliases'[p.interface] = p.seen \cup p.moved
        /\ \A i \in Interfaces \ {p.interface} :
             aliases'[i] = aliases[i] /\ aliases[i] \cap (p.moved \ p.seen) = {}
    BY <1>1, <1>5 DEF Accepted, TypeOK
  <2>2. ASSUME NEW a \in Aliases, a \in p.moved, a \notin p.seen
        PROVE  /\ OwnerIn(aliases, a) = Nowhere
               /\ \E q \in Tasks, d \in Devices : Claim(q, a, d) /\ OwnerIn(aliases', a) = d
    <3>1. \A i \in Interfaces : a \notin aliases[i]
      BY <2>1, <2>2
    <3>2. Claim(t, a, Device(p.interface))
      BY <2>2 DEF Claim
    <3>. QED
      BY <1>1, <1>2, <1>5, <2>2, <3>1, <3>2, OwnerNowhere
  <2>3. ASSUME NEW a \in Aliases, ~(a \in p.moved /\ a \notin p.seen)
        PROVE  OwnerIn(aliases', a) = OwnerIn(aliases, a)
    <3>1. \A i \in Interfaces : a \in aliases[i] <=> a \in aliases'[i]
      BY <2>1, <2>3
    <3>. QED
      BY <3>1, OwnerStays
  <2>. QED
    BY <1>3, <2>2, <2>3, StepOfOwnership
<1>. QED
  BY <1>4, <1>5, AttachOutcome

\* Every step of the provider is a step of AddressOwnership.
LEMMA NextOwnership ==
  ASSUME IInv, IInv', [Next]_vars
  PROVE  [Ownership!Next]_<<Owner, Claims>>
<1>. USE DEF IInv
<1>1. ASSUME UNCHANGED aliases,
             \A q \in Tasks, a \in Aliases, d \in Devices : Claim(q, a, d) => Claim(q, a, d)'
      PROVE  Ownership!Next
  BY <1>1, StepOfOwnership
<1>2. ASSUME UNCHANGED <<aliases, attaching>> PROVE Ownership!Next
  BY <1>1, <1>2 DEF Claim
<1>3. ASSUME NEW t \in Tasks, Discover(t) PROVE Ownership!Next
  <2>1. UNCHANGED aliases /\ attaching[t] = {}
    BY <1>3 DEF Discover, cloud, Orderly
  <2>2. \A q \in Tasks \ {t} : attaching'[q] = attaching[q]
    BY <1>3, OthersKept
  <2>3. \A q \in Tasks, a \in Aliases, d \in Devices : Claim(q, a, d) => Claim(q, a, d)'
    BY <2>1, <2>2 DEF Claim
  <2>. QED
    BY <1>1, <2>1, <2>3
<1>4. ASSUME NEW d \in Devices, Restart(d) PROVE Ownership!Next
  <2>1. UNCHANGED aliases /\ \A q \in Tasks : attaching'[q] \in {attaching[q], LastTry(attaching[q])}
    BY <1>4 DEF Restart, cloud, LastTry
  <2>2. \A q \in Tasks : \A p \in attaching[q] : \E r \in attaching'[q] :
          p.moved = r.moved /\ p.interface = r.interface
    <3>. TAKE q \in Tasks
    <3>1. CASE attaching'[q] = attaching[q]
      BY <3>1
    <3>2. CASE attaching'[q] = LastTry(attaching[q])
      <4>1. attaching[q] \in SUBSET Patch
        BY DEF TypeOK
      <4>2. \A p \in attaching[q] : \E r \in LastTry(attaching[q]) :
              p.moved = r.moved /\ p.interface = r.interface
        BY <4>1, LastTryTyping
      <4>. QED
        BY <3>2, <4>2
    <3>. QED
      BY <2>1, <3>1, <3>2
  <2>3. \A q \in Tasks, a \in Aliases, e \in Devices : Claim(q, a, e) => Claim(q, a, e)'
    BY <2>2 DEF Claim
  <2>. QED
    BY <1>1, <2>1, <2>3
<1>5. ASSUME NEW t \in Tasks,
             \/ \E d \in Devices, gained \in SUBSET (Aliases \cup Rules) : TakeOver(t, d, gained)
             \/ Refresh(t)
             \/ \E call \in retargets[t] : UpdateRule(t, call)
             \/ \E d \in deleting[t] : DeleteRoute(t, d)
             \/ \E n \in creating[t] : CreateRoute(t, n)
             \/ \E n \in inserting[t] : InsertRoute(t, n)
             \/ Succeed(t)
      PROVE  Ownership!Next
  BY <1>2, <1>5 DEF TakeOver, Refresh, UpdateRule, DeleteRoute, CreateRoute, InsertRoute,
                    Succeed, cloud, nicCalls
<1>6. CASE UNCHANGED vars
  BY <1>2, <1>6 DEF vars, cloud, nicCalls
<1>. QED
  BY <1>3, <1>4, <1>5, <1>6, DetachOwnership, AttachOwnership DEF Next, Done

\* However many tasks overlap, fail or are cut off, and however the calls of one
\* task interleave with those of another, alias ranges move as AddressOwnership
\* says (_updateNics).
THEOREM Implementation == Spec => ImplementsOwnership
<1>1. Init => Ownership!Init
  BY InitOwnership
<1>2. IInv /\ IInv' /\ [Next]_vars => [Ownership!Next]_<<Owner, Claims>>
  BY NextOwnership
<1>. QED
  BY <1>1, <1>2, Invariance, PTL DEF Spec, ImplementsOwnership, Ownership!Spec

-----------------------------------------------------------------------------
(* What the history variables tell.                                        *)

\* An alias range is to be attached where the names are those it had at first,
\* and by a task to its own device.
HomeKept(t) == \A p \in attaching[t] : \A a \in p.moved : home[a] = NameOf(p.interface)
Ours(t)     == \A p \in attaching[t] : Device(p.interface) = task[t].host

\* A task that is alone and under way is the only one under way.
OneBusy == \A t, u \in Tasks : t # u /\ alone[t] /\ Busy(t) => ~Busy(u)

\* How far a task that is alone and has not failed has come: every alias range,
\* rule and route is where it wants it, or has still to be moved, and a route it
\* has deleted is there again or on its way.
Freed(t) ==
  \A i \in Interfaces : \A a \in aliases[i] \cap task[t].wanted :
    \/ Device(i) = task[t].host
    \/ \E p \in detaching[t] : p.interface = i /\ a \in p.moved
Pointed(t) ==
  \A r \in Rules \cap task[t].wanted :
    NamesOurs(task[t], r) \/ \E c \in retargets[t] : c.rule = r
Redirected(t) ==
  \A n \in Routes :
    route[n].hop \in {Deleted, task[t].host} \/ \E d \in deleting[t] : d.route = n
Recreated(t) ==
  \A n \in task[t].routes :
    \/ route[n].hop = task[t].host \/ deleting[t] # {}
    \/ n \in creating[t] \cup inserting[t] \cup refused[t]
Way(t) == Freed(t) /\ Pointed(t) /\ Redirected(t) /\ Recreated(t)
OnItsWay(t) == pc[t] = "update" /\ alone[t] => Way(t)

HInv ==
  /\ NicKept /\ OneBusy /\ alone \in [Tasks -> BOOLEAN]
  /\ \A t \in Tasks : HomeKept(t) /\ Ours(t) /\ OnItsWay(t)

\* The steps of task t.
Step(t) ==
  \/ \E d \in Devices, gained \in SUBSET (Aliases \cup Rules) : TakeOver(t, d, gained)
  \/ Discover(t) \/ Refresh(t)
  \/ \E p \in detaching[t] : Detach(t, p)
  \/ \E p \in attaching[t] : Attach(t, p)
  \/ \E call \in retargets[t] : UpdateRule(t, call)
  \/ \E d \in deleting[t] : DeleteRoute(t, d)
  \/ \E n \in creating[t] : CreateRoute(t, n)
  \/ \E n \in inserting[t] : InsertRoute(t, n)
  \/ Succeed(t)

\* A history variable changes nothing.
LEMMA Underlying == MCSpec => Spec
<1>1. MCInit => Init
  BY DEF MCInit
<1>2. [MCNext]_<<vars, home, alone>> => [Next]_vars
  BY DEF MCNext
<1>. QED
  BY <1>1, <1>2, PTL DEF MCSpec, Spec

\* A task that has overlapped another one stays so.
LEMMA AloneStep ==
  ASSUME alone \in [Tasks -> BOOLEAN], OneBusy, [MCNext]_<<vars, home, alone>>
  PROVE  /\ alone' \in [Tasks -> BOOLEAN]
         /\ \A t \in Tasks : alone'[t] => alone[t]
         /\ OneBusy' /\ UNCHANGED home
<1>1. CASE MCNext
  BY <1>1 DEF MCNext, OneBusy
<1>2. CASE UNCHANGED <<vars, home, alone>>
  <2>1. UNCHANGED <<pc, stage, detaching, attaching, retargets, deleting, creating, inserting>>
    BY <1>2 DEF vars, nicCalls, routeCalls, insertions
  <2>2. \A t \in Tasks : Busy(t)' = Busy(t)
    BY <2>1 DEF Busy, Running, Moving
  <2>. QED
    BY <1>2, <2>2 DEF OneBusy
<1>. QED
  BY <1>1, <1>2

\* A task that takes a step other than its first is under way.
LEMMA Working ==
  ASSUME NEW t \in Tasks, Step(t), ~ Busy(t)
  PROVE  UNCHANGED cloud
<1>1. ASSUME NEW d \in Devices, NEW gained \in SUBSET (Aliases \cup Rules), TakeOver(t, d, gained)
      PROVE  UNCHANGED cloud
  BY <1>1 DEF TakeOver
<1>2. CASE Discover(t) \/ Refresh(t) \/ Succeed(t)
  BY <1>2 DEF Discover, Refresh, Succeed
<1>3. ASSUME NEW p \in detaching[t], Detach(t, p) PROVE FALSE
  BY <1>3 DEF Busy, Running, Moving
<1>4. ASSUME NEW p \in attaching[t], Attach(t, p) PROVE FALSE
  BY <1>4 DEF Attach, Busy, Running, Moving
<1>5. ASSUME NEW call \in retargets[t], UpdateRule(t, call) PROVE FALSE
  BY <1>5 DEF Busy, Running, Moving
<1>6. CASE deleting[t] \cup creating[t] # {}
  BY <1>6 DEF Busy, Running
<1>7. ASSUME NEW n \in inserting[t], InsertRoute(t, n) PROVE FALSE
  BY <1>7 DEF Busy
<1>. QED
  BY <1>1, <1>2, <1>3, <1>4, <1>5, <1>6, <1>7 DEF Step

\* What an attachment leaves to attach is what it was.
LEMMA AttachingKept ==
  ASSUME TypeOK, NEW t \in Tasks, NEW p \in attaching[t], Attach(t, p)
  PROVE  \A q \in attaching'[t] : \E r \in attaching[t] :
           q.moved = r.moved /\ q.interface = r.interface
<1>1. /\ p \in Patch /\ p.tries > 0
      /\ \/ attaching' = [attaching EXCEPT ![t] = @ \ {p}]
         \/ attaching' = [attaching EXCEPT ![t] = (@ \ {p}) \cup {OneTryLess(p)}]
  BY AttachOutcome
<1>2. OneTryLess(p).moved = p.moved /\ OneTryLess(p).interface = p.interface
  BY <1>1, TriesTyping
<1>3. attaching'[t] \subseteq (attaching[t] \ {p}) \cup {OneTryLess(p)}
  BY <1>1 DEF TypeOK
<1>. QED
  BY <1>2, <1>3

\* What a discovery gives to interface i comes from interfaces of its name.
LEMMA AttachmentsApart ==
  ASSUME NEW c, NEW p \in Attachments(c)
  PROVE  /\ Device(p.interface) = c.host
         /\ \A a \in p.moved : \E j \in Interfaces :
              a \in aliases[j] /\ NameOf(j) = NameOf(p.interface)
<1>1. PICK i \in Interfaces :
        /\ Device(i) = c.host
        /\ p = [interface |-> i, seen |-> aliases[i], moved |-> Gained(c, i), tries |-> MaxTries]
  BY DEF Attachments
<1>2. p.interface = i /\ p.moved = Gained(c, i)
  BY <1>1
<1>3. ASSUME NEW a \in Gained(c, i)
      PROVE  \E j \in Interfaces : a \in aliases[j] /\ NameOf(j) = NameOf(i)
  BY <1>3 DEF Gained, Matching
<1>. QED
  BY <1>1, <1>2, <1>3

\* The operations of a discovery that has succeeded.
LEMMA DiscoveryIssued ==
  ASSUME TypeOK, NEW t \in Tasks, Discover(t)
  PROVE  /\ pc[t] = "discover" /\ UNCHANGED cloud
         /\ \/ pc'[t] = "failed" /\ UNCHANGED <<task, nicCalls, retargets, deleting>>
            \/ /\ pc'[t] = "update" /\ task'[t].host = task[t].host
               /\ task'[t].wanted = task[t].wanted
               /\ detaching'[t] = Detachments(task[t])
               /\ attaching'[t] = Attachments(task[t])
               /\ retargets'[t] = {[rule |-> r, tries |-> MaxTries] : r \in RulesToUpdate(task[t])}
               /\ deleting'[t] = RoutesToUpdate(task[t])
               /\ task'[t].routes = {d.route : d \in deleting'[t]}
<1>1. pc[t] = "discover" /\ UNCHANGED cloud
  BY DEF Discover
<1>2. CASE Goto(t, "failed") /\ UNCHANGED <<task, nicCalls, retargets, deleting>>
  BY <1>1, <1>2 DEF Goto, TypeOK
<1>3. CASE /\ detaching' = [detaching EXCEPT ![t] = Detachments(task[t])]
           /\ attaching' = [attaching EXCEPT ![t] = Attachments(task[t])]
           /\ retargets' = [retargets EXCEPT ![t] =
                {[rule |-> r, tries |-> MaxTries] : r \in RulesToUpdate(task[t])}]
           /\ deleting' = [deleting EXCEPT ![t] = RoutesToUpdate(task[t])]
           /\ task' = [task EXCEPT ![t].routes = {d.route : d \in RoutesToUpdate(task[t])}]
           /\ Goto(t, "update")
  <2>1. /\ detaching'[t] = Detachments(task[t]) /\ attaching'[t] = Attachments(task[t])
        /\ deleting'[t] = RoutesToUpdate(task[t])
    BY <1>3 DEF TypeOK
  <2>2. retargets'[t] = {[rule |-> r, tries |-> MaxTries] : r \in RulesToUpdate(task[t])}
    BY <1>3 DEF TypeOK
  <2>3. task'[t].host = task[t].host /\ task'[t].wanted = task[t].wanted
    BY <1>3 DEF TypeOK, Task
  <2>4. pc'[t] = "update"
    BY <1>3 DEF Goto, TypeOK
  <2>5. task'[t].routes = {d.route : d \in RoutesToUpdate(task[t])}
    BY <1>3 DEF TypeOK, Task
  <2>. QED
    BY <1>1, <2>1, <2>2, <2>3, <2>4, <2>5
<1>. QED
  BY <1>2, <1>3 DEF Discover

-----------------------------------------------------------------------------
(* Alias ranges keep to the names of their interfaces.                     *)

LEMMA StepNicKept ==
  ASSUME TypeOK, NicKept, NEW t \in Tasks, HomeKept(t), Step(t), UNCHANGED home
  PROVE  NicKept'
<1>1. ASSUME UNCHANGED aliases PROVE NicKept'
  BY <1>1 DEF NicKept
<1>2. ASSUME NEW p \in detaching[t], Detach(t, p) PROVE NicKept'
  <2>1. CASE /\ Accepted(p, p.seen \ p.moved)
             /\ aliases' = [aliases EXCEPT ![p.interface] = p.seen \ p.moved]
    <3>1. \A i \in Interfaces : aliases'[i] \subseteq aliases[i]
      BY <2>1 DEF Accepted, TypeOK
    <3>. QED
      BY <3>1 DEF NicKept
  <2>. QED
    BY <1>1, <1>2, <2>1, DetachOutcome
<1>3. ASSUME NEW p \in attaching[t], Attach(t, p) PROVE NicKept'
  <2>1. CASE /\ Accepted(p, p.seen \cup p.moved)
             /\ aliases' = [aliases EXCEPT ![p.interface] = p.seen \cup p.moved]
    <3>1. \A i \in Interfaces :
            aliases'[i] \subseteq aliases[i] \cup (IF i = p.interface THEN p.moved ELSE {})
      BY <2>1 DEF Accepted, TypeOK
    <3>2. \A a \in p.moved : home[a] = NameOf(p.interface)
      BY <1>3 DEF HomeKept
    <3>. QED
      BY <3>1, <3>2 DEF NicKept
  <2>. QED
    BY <1>1, <1>3, <2>1, AttachOutcome
<1>4. CASE \/ \E d \in Devices, gained \in SUBSET (Aliases \cup Rules) : TakeOver(t, d, gained)
           \/ Discover(t) \/ Refresh(t)
           \/ \E call \in retargets[t] : UpdateRule(t, call)
           \/ \E d \in deleting[t] : DeleteRoute(t, d)
           \/ \E n \in creating[t] : CreateRoute(t, n)
           \/ \E n \in inserting[t] : InsertRoute(t, n)
           \/ Succeed(t)
  BY <1>1, <1>4 DEF TakeOver, Discover, Refresh, UpdateRule, DeleteRoute, CreateRoute,
                    InsertRoute, Succeed, cloud
<1>. QED
  BY <1>2, <1>3, <1>4 DEF Step

\* What task t is to attach is its own and stays where it belongs.
LEMMA StepHomeKept ==
  ASSUME TypeOK, NicKept, NEW t \in Tasks, Orderly(t), HomeKept(t), Ours(t), Step(t),
         UNCHANGED home
  PROVE  HomeKept(t)' /\ Ours(t)'
<1>1. ASSUME UNCHANGED attaching, task'[t].host = task[t].host PROVE HomeKept(t)' /\ Ours(t)'
  BY <1>1 DEF HomeKept, Ours
<1>2. ASSUME NEW d \in Devices, NEW gained \in SUBSET (Aliases \cup Rules), TakeOver(t, d, gained)
      PROVE  HomeKept(t)' /\ Ours(t)'
  <2>1. attaching'[t] = {}
    BY <1>2 DEF TakeOver, Orderly, nicCalls
  <2>. QED
    BY <2>1 DEF HomeKept, Ours
<1>3. CASE Discover(t)
  <2>1. CASE UNCHANGED <<task, nicCalls>>
    BY <1>1, <2>1 DEF nicCalls
  <2>2. CASE task'[t].host = task[t].host /\ attaching'[t] = Attachments(task[t])
    <3>1. HomeKept(t)'
      BY <2>2, AttachmentsApart DEF HomeKept, NicKept
    <3>2. Ours(t)'
      BY <2>2, AttachmentsApart DEF Ours
    <3>. QED
      BY <3>1, <3>2
  <2>. QED
    BY <1>3, <2>1, <2>2, DiscoveryIssued
<1>4. ASSUME NEW p \in attaching[t], Attach(t, p) PROVE HomeKept(t)' /\ Ours(t)'
  <2>1. UNCHANGED task
    BY <1>4 DEF Attach
  <2>. QED
    BY <1>4, <2>1, AttachingKept DEF HomeKept, Ours
<1>5. CASE \/ Refresh(t)
           \/ \E p \in detaching[t] : Detach(t, p)
           \/ \E call \in retargets[t] : UpdateRule(t, call)
           \/ \E d \in deleting[t] : DeleteRoute(t, d)
           \/ \E n \in creating[t] : CreateRoute(t, n)
           \/ \E n \in inserting[t] : InsertRoute(t, n)
           \/ Succeed(t)
  BY <1>1, <1>5 DEF Refresh, Detach, UpdateRule, DeleteRoute, CreateRoute, InsertRoute,
                    Succeed, nicCalls
<1>. QED
  BY <1>2, <1>3, <1>4, <1>5 DEF Step

-----------------------------------------------------------------------------
(* A task that is alone goes on its way.                                   *)

\* A discovery finds everything that is not where the task wants it.
LEMMA DiscoverWay ==
  ASSUME TypeOK, NEW t \in Tasks, Discover(t), pc'[t] = "update"
  PROVE  Way(t)'
<1>1. /\ UNCHANGED cloud /\ task'[t].host = task[t].host /\ task'[t].wanted = task[t].wanted
      /\ detaching'[t] = Detachments(task[t])
      /\ retargets'[t] = {[rule |-> r, tries |-> MaxTries] : r \in RulesToUpdate(task[t])}
      /\ deleting'[t] = RoutesToUpdate(task[t])
      /\ task'[t].routes = {d.route : d \in deleting'[t]}
  BY DiscoveryIssued
<1>2. Freed(t)'
  <2>1. ASSUME NEW i \in Interfaces, NEW a \in aliases[i] \cap task[t].wanted,
               Device(i) # task[t].host
        PROVE  \E p \in Detachments(task[t]) : p.interface = i /\ a \in p.moved
    <3>. DEFINE p == [interface |-> i, seen |-> aliases[i], moved |-> Matching(task[t], i),
                      tries |-> MaxTries]
    <3>1. a \in Matching(task[t], i)
      BY <2>1 DEF Matching
    <3>2. p \in Detachments(task[t])
      BY <3>1 DEF Detachments
    <3>3. p.interface = i /\ a \in p.moved
      BY <3>1
    <3>. QED
      BY <3>2, <3>3
  <2>. QED
    BY <1>1, <2>1 DEF Freed, cloud
<1>3. Pointed(t)'
  <2>1. ASSUME NEW r \in Rules \cap task[t].wanted, ~NamesOurs(task[t], r)
        PROVE  \E c \in retargets'[t] : c.rule = r
    <3>1. r \in RulesToUpdate(task[t])
      BY <2>1 DEF RulesToUpdate
    <3>2. [rule |-> r, tries |-> MaxTries] \in retargets'[t]
      BY <1>1, <3>1
    <3>3. [rule |-> r, tries |-> MaxTries].rule = r
      OBVIOUS
    <3>. QED
      BY <3>2, <3>3
  <2>. QED
    BY <1>1, <2>1 DEF Pointed, NamesOurs, cloud
<1>4. Redirected(t)'
  <2>1. ASSUME NEW n \in Routes, route[n].hop \notin {Deleted, task[t].host}
        PROVE  \E d \in RoutesToUpdate(task[t]) : d.route = n
    <3>1. [route |-> n, id |-> route[n].id] \in RoutesToUpdate(task[t])
      BY <2>1 DEF RoutesToUpdate
    <3>2. [route |-> n, id |-> route[n].id].route = n
      OBVIOUS
    <3>. QED
      BY <3>1, <3>2
  <2>. QED
    BY <1>1, <2>1 DEF Redirected, cloud
<1>5. Recreated(t)'
  BY <1>1 DEF Recreated
<1>. QED
  BY <1>2, <1>3, <1>4, <1>5 DEF Way

\* An update that rejects is not one under way.
LEMMA NotRejected ==
  ASSUME TypeOK, NEW t \in Tasks, pc[t] = "update", pc'[t] = "update"
  PROVE  ~ Rejected(t)
BY DEF TypeOK, Rejected, Goto

\* A PATCH that takes alias ranges from an interface has taken them, or is
\* made again.
LEMMA DetachWay ==
  ASSUME TypeOK, NEW t \in Tasks, NEW p \in detaching[t], Detach(t, p),
         pc[t] = "update", pc'[t] = "update", Way(t)
  PROVE  Way(t)'
<1>1. UNCHANGED <<target, route, task, retargets, deleting, creating, inserting, refused>>
  BY DEF Detach, routeCalls, insertions
<1>2. p \in Patch
  BY DEF TypeOK
<1>3. CASE /\ Patched(p, p.seen \ p.moved)
           /\ detaching' = [detaching EXCEPT ![t] = detaching[t] \ {p}]
  <2>1. /\ detaching'[t] = detaching[t] \ {p}
        /\ \A i \in Interfaces :
             /\ aliases'[i] \subseteq aliases[i]
             /\ i = p.interface => aliases'[i] \cap p.moved = {}
    BY <1>2, <1>3 DEF Patched, Accepted, TypeOK
  <2>. QED
    BY <1>1, <2>1 DEF Way, Freed, Pointed, NamesOurs, Redirected, Recreated
<1>4. CASE /\ PatchFails(t, p, p.seen \ p.moved) /\ Retriable(p)
           /\ detaching' = [detaching EXCEPT ![t] = (detaching[t] \ {p}) \cup {OneTryLess(p)}]
  <2>1. detaching'[t] = (detaching[t] \ {p}) \cup {OneTryLess(p)}
    BY <1>4 DEF TypeOK
  <2>2. OneTryLess(p).interface = p.interface /\ OneTryLess(p).moved = p.moved
    BY <1>2, <1>4, TriesTyping
  <2>3. \A i \in Interfaces : aliases'[i] \subseteq aliases[i]
    BY <1>2, <1>4 DEF PatchFails, Patched, Accepted, TypeOK
  <2>4. \A q \in detaching[t] : \E r \in detaching'[t] :
          r.interface = q.interface /\ r.moved = q.moved
    BY <2>1, <2>2
  <2>5. Freed(t)'
    BY <1>1, <2>3, <2>4 DEF Way, Freed
  <2>. QED
    BY <1>1, <2>5 DEF Way, Pointed, NamesOurs, Redirected, Recreated
<1>. QED
  BY <1>3, <1>4, NotRejected DEF Detach

\* A PATCH that gives alias ranges to an interface gives them to the task's own.
LEMMA AttachWay ==
  ASSUME TypeOK, NEW t \in Tasks, Ours(t), NEW p \in attaching[t], Attach(t, p), Way(t)
  PROVE  Way(t)'
<1>1. UNCHANGED <<target, route, task, retargets, detaching, deleting, creating, inserting,
                  refused>>
  BY DEF Attach, routeCalls, insertions
<1>2. \A i \in Interfaces : i # p.interface => aliases'[i] = aliases[i]
  <2>1. \/ UNCHANGED aliases
        \/ aliases' = [aliases EXCEPT ![p.interface] = p.seen \cup p.moved]
    BY AttachOutcome
  <2>. QED
    BY <2>1 DEF TypeOK
<1>3. Device(p.interface) = task[t].host
  BY DEF Ours
<1>4. Freed(t)'
  BY <1>1, <1>2, <1>3 DEF Way, Freed
<1>. QED
  BY <1>1, <1>4 DEF Way, Pointed, NamesOurs, Redirected, Recreated

\* A rule that is not to be pointed to the task's device any more has been.
LEMMA RuleWay ==
  ASSUME TypeOK, NEW t \in Tasks, NEW call \in retargets[t], UpdateRule(t, call),
         task[t].host \in Devices, pc[t] = "update", pc'[t] = "update", Way(t)
  PROVE  Way(t)'
<1>1. UNCHANGED <<aliases, route, task, detaching, deleting, creating, inserting, refused>>
  BY DEF UpdateRule, nicCalls, routeCalls, insertions
<1>2. call \in Retarget
  BY DEF TypeOK
<1>3. \A r \in Rules : target'[r] = target[r] \/ (r = call.rule /\ target'[r] = task[t].host)
  BY DEF UpdateRule, TypeOK
<1>6. \A r \in Rules : /\ target'[r] = task[t].host => NamesOurs(task[t], r)'
                       /\ NamesOurs(task[t], r) => NamesOurs(task[t], r)'
  BY <1>1, <1>3, TargetAssumption DEF NamesOurs
<1>4. CASE /\ target' = [target EXCEPT ![call.rule] = task[t].host]
           /\ retargets' = [retargets EXCEPT ![t] = retargets[t] \ {call}]
  <2>1. target'[call.rule] = task[t].host /\ retargets'[t] = retargets[t] \ {call}
    BY <1>2, <1>4 DEF TypeOK, Retarget
  <2>2. Pointed(t)'
    BY <1>1, <1>6, <2>1 DEF Way, Pointed
  <2>. QED
    BY <1>1, <2>2 DEF Way, Freed, Redirected, Recreated
<1>5. CASE /\ Retriable(call)
           /\ retargets' = [retargets EXCEPT ![t] =
                (retargets[t] \ {call}) \cup IF Retriable(call) THEN {OneTryLess(call)} ELSE {}]
  <2>1. retargets'[t] = (retargets[t] \ {call}) \cup {OneTryLess(call)}
    BY <1>5 DEF TypeOK
  <2>2. OneTryLess(call).rule = call.rule
    BY <1>2 DEF OneTryLess, Retarget
  <2>3. \A c \in retargets[t] : \E k \in retargets'[t] : k.rule = c.rule
    BY <2>1, <2>2
  <2>4. Pointed(t)'
    BY <1>1, <1>6, <2>3 DEF Way, Pointed
  <2>. QED
    BY <1>1, <2>4 DEF Way, Freed, Redirected, Recreated
<1>. QED
  BY <1>4, <1>5, NotRejected DEF UpdateRule

\* A route whose deletion has come back is deleted and, after the last one, to
\* be created; one whose creation has come back is being created, and one that
\* is created leads to the task's device.
LEMMA RouteWay ==
  ASSUME TypeOK, NEW t \in Tasks, Orderly(t), RoutesInOrder(t),
         pc[t] = "update", pc'[t] = "update", Way(t),
         \/ \E d \in deleting[t] : DeleteRoute(t, d)
         \/ \E n \in creating[t] : CreateRoute(t, n)
         \/ \E n \in inserting[t] : InsertRoute(t, n)
  PROVE  Way(t)'
<1>1. UNCHANGED <<aliases, target, task, detaching, retargets>>
  BY DEF DeleteRoute, CreateRoute, InsertRoute, cloud, nicCalls
<1>2. ASSUME NEW d \in deleting[t], DeleteRoute(t, d) PROVE Redirected(t)' /\ Recreated(t)'
  <2>1. d.route \in Routes /\ d.route \in task[t].routes /\ ~routesLost[t]
    BY DEF TypeOK, Deletion, RoutesInOrder
  <2>2. /\ route' = [route EXCEPT ![d.route] = [route[d.route] EXCEPT !.hop = Deleted]]
        /\ deleting'[t] = deleting[t] \ {d}
        /\ deleting[t] = {d} => creating'[t] = task[t].routes
    BY <1>2, <2>1, NotRejected DEF DeleteRoute, TypeOK
  <2>3. [route[d.route] EXCEPT !.hop = Deleted].hop = Deleted
    BY <2>1 DEF TypeOK, Route
  <2>4. \A n \in Routes : route'[n].hop = Deleted \/ (n # d.route /\ route'[n] = route[n])
    BY <2>1, <2>2, <2>3 DEF TypeOK
  <2>5. Redirected(t)'
    BY <1>1, <2>2, <2>4 DEF Way, Redirected
  <2>6. Recreated(t)'
    BY <1>1, <2>2 DEF Recreated
  <2>. QED
    BY <2>5, <2>6
<1>3. ASSUME NEW n \in creating[t], CreateRoute(t, n) PROVE Redirected(t)' /\ Recreated(t)'
  <2>1. /\ creating'[t] = creating[t] \ {n} /\ inserting'[t] = inserting[t] \cup {n}
        /\ UNCHANGED <<route, deleting, refused>>
    BY <1>3, NotRejected DEF CreateRoute, cloud, TypeOK
  <2>. QED
    BY <1>1, <2>1 DEF Way, Redirected, Recreated
<1>4. ASSUME NEW n \in inserting[t], InsertRoute(t, n) PROVE Redirected(t)' /\ Recreated(t)'
  <2>1. /\ inserting'[t] = inserting[t] \ {n} /\ n \in Routes
        /\ UNCHANGED <<deleting, creating>>
    BY <1>4, InsertOutcome DEF InsertRoute, routeCalls, TypeOK
  <2>2. CASE route' = [route EXCEPT ![n] = [hop |-> task[t].host, id |-> t]] /\ UNCHANGED refused
    <3>1. /\ route'[n].hop = task[t].host
          /\ \A m \in Routes \ {n} : route'[m] = route[m]
      BY <2>1, <2>2 DEF TypeOK
    <3>2. task[t].routes \subseteq Routes
      BY DEF TypeOK, Task
    <3>. QED
      BY <1>1, <2>1, <2>2, <3>1, <3>2 DEF Way, Redirected, Recreated
  <2>3. CASE UNCHANGED route /\ refused' = [refused EXCEPT ![t] = @ \cup {n}]
    <3>1. refused'[t] = refused[t] \cup {n}
      BY <2>3 DEF TypeOK
    <3>. QED
      BY <1>1, <2>1, <2>3, <3>1 DEF Way, Redirected, Recreated
  <2>. QED
    BY <1>4, <2>2, <2>3, InsertOutcome
<1>5. Redirected(t)' /\ Recreated(t)'
  BY <1>2, <1>3, <1>4
<1>. QED
  BY <1>1, <1>5 DEF Way, Freed, Pointed, NamesOurs

LEMMA StepOnItsWay ==
  ASSUME TypeOK, NEW t \in Tasks, Orderly(t), RoutesInOrder(t), Ours(t), OnItsWay(t), Step(t),
         alone'[t] => alone[t]
  PROVE  OnItsWay(t)'
<1>. SUFFICES ASSUME pc'[t] = "update", alone[t] PROVE Way(t)'
  BY DEF OnItsWay
<1>1. CASE Discover(t)
  BY <1>1, DiscoverWay
<1>2. ASSUME ~ Discover(t) PROVE pc[t] = "update" /\ Way(t)
  <2>1. pc[t] = "update"
    BY <1>2 DEF Step, TakeOver, Refresh, Detach, Attach, UpdateRule, DeleteRoute, CreateRoute,
                InsertRoute, Succeed, Rejected, Goto, TypeOK
  <2>. QED
    BY <2>1 DEF OnItsWay
<1>3. ASSUME NEW d \in Devices, NEW gained \in SUBSET (Aliases \cup Rules), TakeOver(t, d, gained)
      PROVE  FALSE
  BY <1>3 DEF TakeOver, Goto, TypeOK
<1>4. CASE Succeed(t)
  BY <1>4 DEF Succeed, Goto, TypeOK
<1>5. ASSUME pc[t] = "update", Way(t), Refresh(t) PROVE Way(t)'
  <2>1. UNCHANGED <<aliases, target, route, task, detaching, retargets, deleting, creating,
                    inserting, refused>>
    BY <1>5, NotRejected DEF Refresh, cloud, routeCalls, insertions
  <2>. QED
    BY <1>5, <2>1 DEF Way, Freed, Pointed, NamesOurs, Redirected, Recreated
<1>6. ASSUME pc[t] = "update", Way(t),
             NEW p \in detaching[t], Detach(t, p)
      PROVE  Way(t)'
  BY <1>6, DetachWay
<1>7. ASSUME Way(t), NEW p \in attaching[t], Attach(t, p) PROVE Way(t)'
  BY <1>7, AttachWay
<1>8. ASSUME pc[t] = "update", Way(t), NEW call \in retargets[t], UpdateRule(t, call)
      PROVE  Way(t)'
  BY <1>8, RuleWay DEF Orderly
<1>9. ASSUME pc[t] = "update", Way(t),
             \/ \E d \in deleting[t] : DeleteRoute(t, d)
             \/ \E n \in creating[t] : CreateRoute(t, n)
             \/ \E n \in inserting[t] : InsertRoute(t, n)
      PROVE  Way(t)'
  BY <1>9, RouteWay
<1>. QED
  BY <1>1, <1>2, <1>3, <1>4, <1>5, <1>6, <1>7, <1>8, <1>9 DEF Step

-----------------------------------------------------------------------------
(* The invariant of the history.                                           *)

\* Initially every alias range is where it was.
LEMMA InitHInv == MCInit => HInv
<1>. SUFFICES ASSUME MCInit PROVE HInv
  OBVIOUS
<1>1. Init /\ Single
  BY InitIInv DEF MCInit, IInv
<1>2. NicKept
  <2>1. ASSUME NEW i \in Interfaces, NEW a \in aliases[i] PROVE home[a] = NameOf(i)
    <3>1. a \in Aliases
      BY <1>1, <2>1, InitTypeOK DEF TypeOK
    <3>2. (CHOOSE j \in Interfaces : a \in aliases[j]) = i
      BY <1>1, <2>1 DEF Single
    <3>. QED
      BY <3>1, <3>2 DEF MCInit
  <2>. QED
    BY <2>1 DEF NicKept
<1>3. /\ alone \in [Tasks -> BOOLEAN]
      /\ \A t \in Tasks : ~ Busy(t) /\ attaching[t] = {} /\ pc[t] = "idle"
  BY <1>1 DEF MCInit, Init, Busy, Running, Moving, Open
<1>. QED
  BY <1>2, <1>3 DEF HInv, OneBusy, HomeKept, Ours, OnItsWay

\* A task that is not the one that steps keeps what is said of it.
LEMMA OtherKept ==
  ASSUME IInv, OneBusy, NEW t \in Tasks, Step(t), NEW u \in Tasks \ {t},
         HomeKept(u), Ours(u), OnItsWay(u), UNCHANGED home, alone'[u] => alone[u]
  PROVE  HomeKept(u)' /\ Ours(u)' /\ OnItsWay(u)'
<1>1. /\ pc'[u] = pc[u] /\ task'[u] = task[u]
      /\ detaching'[u] = detaching[u] /\ attaching'[u] = attaching[u]
      /\ retargets'[u] = retargets[u] /\ deleting'[u] = deleting[u]
      /\ creating'[u] = creating[u] /\ inserting'[u] = inserting[u]
      /\ refused'[u] = refused[u]
  BY OthersKept DEF Step
<1>2. ASSUME pc[u] = "update", alone[u] PROVE UNCHANGED cloud
  <2>1. ~ Busy(t)
    BY <1>2 DEF OneBusy, Busy, Running, Open
  <2>. QED
    BY <2>1, Working
<1>3. OnItsWay(u)'
  BY <1>1, <1>2 DEF OnItsWay, Way, Freed, Pointed, NamesOurs, Redirected, Recreated, cloud
<1>. QED
  BY <1>1, <1>3 DEF HomeKept, Ours

\* A restart repeats no call in another form.
LEMMA RestartKept ==
  ASSUME TypeOK, NEW d \in Devices, Restart(d), NEW u \in Tasks,
         HomeKept(u), Ours(u), OnItsWay(u), UNCHANGED home, alone'[u] => alone[u]
  PROVE  HomeKept(u)' /\ Ours(u)' /\ OnItsWay(u)'
<1>1. UNCHANGED <<cloud, task, deleting, creating, inserting, refused>>
  BY DEF Restart, insertions
<1>2. \A q \in attaching'[u] : \E p \in attaching[u] :
        q.moved = p.moved /\ q.interface = p.interface
  <2>1. attaching'[u] \in {attaching[u], LastTry(attaching[u])}
    BY DEF Restart, LastTry
  <2>2. attaching[u] \in SUBSET Patch
    BY DEF TypeOK
  <2>3. \A q \in LastTry(attaching[u]) : \E p \in attaching[u] :
          q.moved = p.moved /\ q.interface = p.interface
    BY <2>2, LastTryTyping
  <2>. QED
    BY <2>1, <2>3
<1>3. HomeKept(u)' /\ Ours(u)'
  BY <1>1, <1>2 DEF HomeKept, Ours
<1>4. ASSUME pc'[u] = "update"
      PROVE  /\ pc[u] = "update"
             /\ detaching'[u] = detaching[u] /\ retargets'[u] = retargets[u]
  BY <1>4 DEF Restart
<1>5. OnItsWay(u)'
  BY <1>1, <1>4 DEF OnItsWay, Way, Freed, Pointed, NamesOurs, Redirected, Recreated, cloud
<1>. QED
  BY <1>3, <1>5

LEMMA NextHInv == IInv /\ HInv /\ [MCNext]_<<vars, home, alone>> => HInv'
<1>. SUFFICES ASSUME IInv, HInv, [MCNext]_<<vars, home, alone>> PROVE HInv'
  OBVIOUS
<1>1. /\ alone' \in [Tasks -> BOOLEAN] /\ OneBusy' /\ UNCHANGED home
      /\ \A u \in Tasks : alone'[u] => alone[u]
  BY AloneStep DEF HInv
<1>2. ASSUME NEW t \in Tasks, Step(t) PROVE HInv'
  <2>1. NicKept'
    BY <1>1, <1>2, StepNicKept DEF HInv, IInv
  <2>2. HomeKept(t)' /\ Ours(t)'
    BY <1>1, <1>2, StepHomeKept DEF HInv, IInv
  <2>3. OnItsWay(t)'
    BY <1>1, <1>2, StepOnItsWay DEF HInv, IInv
  <2>4. \A u \in Tasks \ {t} : HomeKept(u)' /\ Ours(u)' /\ OnItsWay(u)'
    BY <1>1, <1>2, OtherKept DEF HInv
  <2>. QED
    BY <1>1, <2>1, <2>2, <2>3, <2>4 DEF HInv
<1>3. ASSUME NEW d \in Devices, Restart(d) PROVE HInv'
  <2>1. \A u \in Tasks : HomeKept(u)' /\ Ours(u)' /\ OnItsWay(u)'
    BY <1>1, <1>3, RestartKept DEF HInv, IInv
  <2>2. NicKept'
    BY <1>1, <1>3 DEF HInv, NicKept, Restart, cloud
  <2>. QED
    BY <1>1, <2>1, <2>2 DEF HInv
<1>4. CASE UNCHANGED vars
  <2>1. UNCHANGED <<aliases, target, route, pc, task, detaching, attaching, retargets, deleting,
                    creating, inserting, refused>>
    BY <1>4 DEF vars, cloud, nicCalls, routeCalls, insertions
  <2>2. \A u \in Tasks : HomeKept(u)' /\ Ours(u)' /\ OnItsWay(u)'
    BY <1>1, <2>1 DEF HInv, HomeKept, Ours, OnItsWay, Way, Freed, Pointed, NamesOurs,
                      Redirected, Recreated
  <2>3. NicKept'
    BY <1>1, <2>1 DEF HInv, NicKept
  <2>. QED
    BY <1>1, <2>2, <2>3 DEF HInv
<1>5. [Next]_vars
  BY DEF MCNext
<1>. QED
  BY <1>2, <1>3, <1>4, <1>5 DEF Next, Done, Step

\* What the history variables tell is so in every state.
THEOREM History == MCSpec => []HInv
<1>. QED
  BY InitHInv, NextHInv, Underlying, Invariance, PTL DEF MCSpec

\* No failover, overlapped or cut off as it may be, brings an alias range to an
\* interface of another name (_discoverNicOperations).
THEOREM NicNames == MCSpec => []NicKept
<1>1. HInv => NicKept
  BY DEF HInv
<1>. QED
  BY <1>1, History, PTL

\* A task that succeeds has nothing left to do.
LEMMA SuccessStep ==
  ASSUME IInv, HInv, [MCNext]_<<vars, home, alone>>,
         NEW t \in Tasks, pc[t] = "update", pc'[t] = "succeeded", alone[t]
  PROVE  /\ \A i \in Interfaces :
              aliases[i] \cap task[t].wanted # {} => Device(i) = task[t].host
         /\ \A r \in Rules \cap task[t].wanted : NamesOurs(task[t], r)
         /\ \A n \in Routes : route[n].hop \in {Deleted, task[t].host}
         /\ \A n \in task[t].routes :
              \/ route[n].hop = task[t].host
              \/ n \in inserting[t] \cup refused[t]
<1>1. Way(t) /\ Paired(t)
  BY DEF HInv, IInv, OnItsWay
<1>2. Succeed(t)
  <2>1. ASSUME NEW u \in Tasks \ {t}, Step(u) PROVE FALSE
    BY <2>1, OthersKept DEF Step
  <2>2. ASSUME NEW d \in Devices, Restart(d) PROVE FALSE
    BY <2>2 DEF Restart
  <2>3. ~ UNCHANGED vars
    BY DEF vars
  <2>4. Step(t)
    BY <2>1, <2>2, <2>3 DEF MCNext, Next, Done, Step
  <2>. QED
    BY <2>4 DEF Step, TakeOver, Discover, Refresh, Detach, Attach, UpdateRule, DeleteRoute,
                CreateRoute, InsertRoute, Rejected, Goto, IInv, TypeOK
<1>3. detaching[t] = {} /\ retargets[t] = {} /\ deleting[t] = {} /\ creating[t] = {}
  BY <1>1, <1>2 DEF Succeed, UpdatesDone, Paired
<1>. QED
  BY <1>1, <1>3 DEF Way, Freed, Pointed, Redirected, Recreated

\* A task that nothing has overlapped and that succeeds leaves its device with
\* every alias range it wants, has pointed to it every rule whose target does
\* not seem to be its own, and has had every route that leads elsewhere deleted
\* and its creation accepted (update).
THEOREM Delivery == MCSpec => SuccessDelivers
<1>1. IInv /\ HInv /\ [MCNext]_<<vars, home, alone>> =>
        [\A t \in Tasks : pc[t] = "update" /\ pc'[t] = "succeeded" /\ alone[t] =>
           /\ \A i \in Interfaces :
                aliases[i] \cap task[t].wanted # {} => Device(i) = task[t].host
           /\ \A r \in Rules \cap task[t].wanted : NamesOurs(task[t], r)
           /\ \A n \in Routes : route[n].hop \in {Deleted, task[t].host}
           /\ \A n \in task[t].routes :
                \/ route[n].hop = task[t].host
                \/ n \in inserting[t] \cup refused[t]]_<<vars, home, alone>>
  BY SuccessStep
<1>. QED
  BY <1>1, History, Underlying, Invariance, PTL DEF MCSpec, SuccessDelivers
=============================================================================
