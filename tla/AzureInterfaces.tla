--------------------------- MODULE AzureInterfaces ---------------------------
(***************************************************************************)
(* The Azure provider (providers/azure/cloud.js): how a task of the        *)
(* failover extension moves ip configurations between network interfaces   *)
(* and redirects user defined routes.                                      *)
(*                                                                         *)
(* Azure has no call that moves one address.  A task lists the interfaces, *)
(* edits the copies it has got, and PUTs whole interfaces back: first      *)
(* those that lose addresses, then those that gain them.  Every PUT is     *)
(* retried, and replaces whatever the interface holds by then.             *)
(***************************************************************************)
EXTENDS Naturals, FiniteSets

CONSTANTS
  Devices,         \* the BIG-IP devices of the cluster
  Tags,            \* values of the tag that pairs interfaces (NIC_TAG)
  Addresses,       \* failover addresses
  Routes,          \* routes whose range the declaration names
  Tasks,           \* slots for tasks, each used at most once
  Overlapping,     \* may a task start while another is under way?
  MaxTries,        \* times _retrier calls a function (20)
  MaxRoleChanges,  \* bound: changes of the HA role
  MaxFaults,       \* bound: calls that fail
  MaxCrashes       \* bound: restarts of a device

ASSUME SwitchAssumption == Overlapping \in BOOLEAN
ASSUME BoundAssumption ==
  /\ MaxTries \in Nat \ {0}
  /\ MaxRoleChanges \in Nat /\ MaxFaults \in Nat /\ MaxCrashes \in Nat
ASSUME NameAssumption == "none" \notin Devices

None == "none"

\* A device has one interface for each value of the tag, which its self
\* addresses, not modelled, tell from those of its peers.
Interfaces == Devices \X Tags
Device(i)  == i[1]
TagOf(i)   == i[2]

VARIABLES
  holds,    \* the failover addresses each interface holds
  nextHop,  \* the device each route points to
  active,   \* the device on which the traffic group of each address is active
  pc,       \* where each task is
  task,     \* what each task knows
  stage,    \* where the promises of its address updates are
  puts,     \* the interfaces it has still to write
  reroutes, \* the routes it has still to redirect
  roleChanges, faults, crashes

budgets == <<roleChanges, faults, crashes>>
calls   == <<stage, puts, reroutes>>
vars    == <<holds, nextHop, active, pc, task, calls, budgets>>

\* The peer interface a task has paired each of its own with, and what it saw
\* on every interface.
Task ==
  [host : Devices \cup {None}, wanted : SUBSET Addresses,
   seen : [Interfaces -> SUBSET Addresses], pairs : SUBSET (Interfaces \X Interfaces)]

\* A PUT of an interface that is still to be tried so many times.
Put     == [interface : Interfaces, content : SUBSET Addresses, tries : 1..MaxTries]
Reroute == [route : Routes, tries : 1..MaxTries]

Open  == {"discover", "update"}
Ended == {"succeeded", "failed", "lost"}

TypeOK ==
  /\ holds \in [Interfaces -> SUBSET Addresses]
  /\ nextHop \in [Routes -> Devices]
  /\ active \in [Addresses -> Devices]
  /\ pc \in [Tasks -> {"idle"} \cup Open \cup Ended]
  /\ task \in [Tasks -> Task]
  /\ stage \in [Tasks -> {"detach", "attach", "broken"}]
  /\ puts \in [Tasks -> SUBSET Put]
  /\ reroutes \in [Tasks -> SUBSET Reroute]
  /\ roleChanges \in 0..MaxRoleChanges
  /\ faults \in 0..MaxFaults
  /\ crashes \in 0..MaxCrashes

Idle == [host |-> None, wanted |-> {}, seen |-> [i \in Interfaces |-> {}], pairs |-> {}]

\* Every address is an ip configuration of one interface of its device.
Init ==
  /\ active \in [Addresses -> Devices]
  /\ \E tag \in [Addresses -> Tags] :
       holds = [i \in Interfaces |->
                  {a \in Addresses : active[a] = Device(i) /\ tag[a] = TagOf(i)}]
  /\ \E d \in Devices : nextHop = [n \in Routes |-> d]
  /\ pc = [t \in Tasks |-> "idle"]
  /\ task = [t \in Tasks |-> Idle]
  /\ stage = [t \in Tasks |-> "detach"]
  /\ puts = [t \in Tasks |-> {}]
  /\ reroutes = [t \in Tasks |-> {}]
  /\ roleChanges = 0 /\ faults = 0 /\ crashes = 0

-----------------------------------------------------------------------------
Goto(t, where) == pc' = [pc EXCEPT ![t] = where]

Fault   == faults < MaxFaults /\ faults' = faults + 1
NoFault == UNCHANGED faults

\* Some traffic groups, with the addresses `gained' or with none, become active
\* on d, which triggers a failover there.  The task learns at its start which
\* addresses it wants.
TakeOver(t, d, gained) ==
  /\ pc[t] = "idle"
  /\ Overlapping \/ \A u \in Tasks : pc[u] \notin Open
  /\ roleChanges < MaxRoleChanges
  /\ roleChanges' = roleChanges + 1
  /\ active' = [a \in Addresses |-> IF a \in gained THEN d ELSE active[a]]
  /\ task' = [task EXCEPT ![t].host = d,
                          ![t].wanted = {a \in Addresses : active'[a] = d}]
  /\ Goto(t, "discover")
  /\ UNCHANGED <<holds, nextHop, calls, faults, crashes>>

-----------------------------------------------------------------------------
(* Discovery.                                                              *)

\* _parseNics: the interfaces of a peer that hold an address d wants, by tag.
Theirs(t, tag) ==
  {i \in Interfaces : Device(i) # task[t].host /\ TagOf(i) = tag
                      /\ holds[i] \cap task[t].wanted # {}}

\* Variant of the next definition: the first match ends both loops.
OnePairing(t) ==
  LET all == {i \in Interfaces : i \in Theirs(t, TagOf(i))} IN
  IF all = {} THEN {{}} ELSE {{<<<<task[t].host, TagOf(i)>>, i>>} : i \in all}

\* The loop over `their' interfaces ends with the first one whose tag matches.
Pairings(t) ==
  LET tags == {g \in Tags : Theirs(t, g) # {}} IN
  {{<<<<task[t].host, g>>, peer[g]>> : g \in tags} :
     peer \in {f \in [tags -> Interfaces] : \A g \in tags : f[g] \in Theirs(t, g)}}

\* The disassociate operations: what is wanted is taken from the peer.
Detachments(c) ==
  {[interface |-> p[2], content |-> c.seen[p[2]] \ c.wanted, tries |-> MaxTries] :
     p \in c.pairs}

\* Variant of the next definition: the interface is given what it gains alone.
GainsAlone(c) ==
  {[interface |-> p[1], content |-> c.seen[p[2]] \cap c.wanted, tries |-> MaxTries] :
     p \in c.pairs}

\* The associate operations: it is added to what the interface was seen with.
Attachments(c) ==
  {[interface |-> p[1], content |-> c.seen[p[1]] \cup (c.seen[p[2]] \cap c.wanted),
    tries |-> MaxTries] : p \in c.pairs}

\* _discoverRouteOperations: routes whose next hop is not an address of d.
Redirections(t) ==
  {[route |-> n, tries |-> MaxTries] : n \in {m \in Routes : nextHop[m] # task[t].host}}

\* Both discoveries; the updates are issued from what they return.
Discover(t) ==
  /\ pc[t] = "discover"
  /\ \/ \E pairs \in Pairings(t) :
          LET c == [task[t] EXCEPT !.seen = holds, !.pairs = pairs] IN
          /\ task' = [task EXCEPT ![t] = c]
          /\ puts' = [puts EXCEPT ![t] = Detachments(c)]
          /\ reroutes' = [reroutes EXCEPT ![t] = Redirections(t)]
          /\ Goto(t, "update")
          /\ NoFault
     \/ Goto(t, "failed") /\ Fault /\ UNCHANGED <<task, puts, reroutes>>
  /\ UNCHANGED <<holds, nextHop, active, stage, roleChanges, crashes>>

-----------------------------------------------------------------------------
(* Updates.                                                                *)

\* Azure refuses an address that another interface holds.
Refused(put) ==
  \E i \in Interfaces \ {put.interface} : holds[i] \cap put.content # {}

\* The Promise.all of the first stage resolves with its last PUT.
LastDetachment(t, put) == stage[t] = "detach" /\ puts[t] = {put}

\* Variant of the next definition: one try too many.
RetriableOnceMore(call) == call.tries > 0

\* retrier rejects when no retries are left.
Retriable(call) == call.tries > 1

\* createOrUpdate: the interface is what the task says.
PutInterface(t, put) ==
  /\ put \in puts[t]
  /\ ~Refused(put)
  /\ holds' = [holds EXCEPT ![put.interface] = put.content]
  /\ LET attaches == LastDetachment(t, put) IN
       /\ stage' = [stage EXCEPT ![t] = IF attaches THEN "attach" ELSE @]
       /\ puts' = [puts EXCEPT ![t] = (@ \ {put}) \cup
                     IF attaches THEN Attachments(task[t]) ELSE {}]
  /\ UNCHANGED <<nextHop, active, pc, task, reroutes, budgets>>

\* A Promise.all rejects, and with it the update.
Rejected(t) == Goto(t, IF pc[t] = "update" THEN "failed" ELSE pc[t])

\* The PUT is rejected, with or without its effect, and is tried again as long
\* as _retrier goes on, whatever has become of the others.
PutFails(t, put) ==
  /\ put \in puts[t]
  /\ \/ (Refused(put) \/ pc[t] = "lost") /\ NoFault /\ UNCHANGED holds
     \/ Fault /\ UNCHANGED holds
     \/ Fault /\ ~Refused(put) /\ holds' = [holds EXCEPT ![put.interface] = put.content]
  /\ \/ /\ Retriable(put)
        /\ puts' = [puts EXCEPT ![t] = (@ \ {put}) \cup {[put EXCEPT !.tries = @ - 1]}]
        /\ UNCHANGED <<pc, stage>>
     \/ /\ ~Retriable(put)
        /\ puts' = [puts EXCEPT ![t] = @ \ {put}]
        /\ stage' = [stage EXCEPT ![t] = "broken"]
        /\ Rejected(t)
  /\ UNCHANGED <<nextHop, active, task, reroutes, roleChanges, crashes>>

\* beginCreateOrUpdate of one route, retried alike.
PutRoute(t, call) ==
  /\ call \in reroutes[t]
  /\ \/ /\ nextHop' = [nextHop EXCEPT ![call.route] = task[t].host]
        /\ reroutes' = [reroutes EXCEPT ![t] = @ \ {call}]
        /\ NoFault /\ UNCHANGED pc
     \/ /\ Fault /\ Retriable(call)
        /\ reroutes' = [reroutes EXCEPT ![t] =
                          (@ \ {call}) \cup {[call EXCEPT !.tries = @ - 1]}]
        /\ UNCHANGED <<nextHop, pc>>
     \/ /\ ~Retriable(call) /\ (Fault \/ (pc[t] = "lost" /\ NoFault))
        /\ reroutes' = [reroutes EXCEPT ![t] = @ \ {call}]
        /\ Rejected(t) /\ UNCHANGED nextHop
  /\ UNCHANGED <<holds, active, task, stage, puts, roleChanges, crashes>>

\* Variant of the next definition: the interfaces are not waited for.
RoutesDone(t) == stage[t] # "broken" /\ reroutes[t] = {}

\* updateAddresses and updateRoutes have resolved.
UpdatesDone(t) == stage[t] # "broken" /\ puts[t] = {} /\ reroutes[t] = {}

Succeed(t) ==
  /\ pc[t] = "update" /\ UpdatesDone(t)
  /\ Goto(t, "succeeded")
  /\ UNCHANGED <<holds, nextHop, active, task, calls, budgets>>

-----------------------------------------------------------------------------
(* The environment.                                                        *)

\* Task t, or a call it has issued, is under way.
Busy(t) == pc[t] \in Open \/ puts[t] # {} \/ reroutes[t] # {}

\* Device d restarts: calls on their way may still take effect, once.
Restart(d) ==
  LET mine == {t \in Tasks : task[t].host = d /\ Busy(t)} IN
  /\ crashes < MaxCrashes /\ crashes' = crashes + 1
  /\ mine # {}
  /\ pc' = [t \in Tasks |-> IF t \in mine THEN "lost" ELSE pc[t]]
  /\ stage' = [t \in Tasks |-> IF t \in mine THEN "broken" ELSE stage[t]]
  /\ puts' = [t \in Tasks |->
                IF t \in mine THEN {[p EXCEPT !.tries = 1] : p \in puts[t]} ELSE puts[t]]
  /\ reroutes' = [t \in Tasks |->
                    IF t \in mine THEN {[n EXCEPT !.tries = 1] : n \in reroutes[t]}
                    ELSE reroutes[t]]
  /\ UNCHANGED <<holds, nextHop, active, task, roleChanges, faults>>

Done == (\A t \in Tasks : ~Busy(t)) /\ UNCHANGED vars

Next ==
  \/ \E t \in Tasks :
       \/ \E d \in Devices, gained \in SUBSET Addresses : TakeOver(t, d, gained)
       \/ Discover(t)
       \/ \E put \in puts[t] : PutInterface(t, put) \/ PutFails(t, put)
       \/ \E call \in reroutes[t] : PutRoute(t, call)
       \/ Succeed(t)
  \/ \E d \in Devices : Restart(d)
  \/ Done

Spec == Init /\ [][Next]_vars
=============================================================================
