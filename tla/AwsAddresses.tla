---------------------------- MODULE AwsAddresses ----------------------------
(***************************************************************************)
(* The addresses of the AWS provider (providers/aws/cloud.js).  A task     *)
(* moves two things side by side:                                          *)
(*                                                                         *)
(* - Elastic IPs whose tag lists private addresses of the devices: each is *)
(*   taken off the address it is on and associated with the one that the   *)
(*   device itself has;                                                    *)
(*                                                                         *)
(* - secondary private addresses of the peers' interfaces.  AWS takes the  *)
(*   Elastic IP off an address that is unassigned; the task remembers it,  *)
(*   and associates it again where it assigns the address.                 *)
(*                                                                         *)
(* _retrier repeats a function that is rejected.  For Elastic IPs that is  *)
(* one call.  For private addresses it is the function of an interface:    *)
(* one call for all its addresses, and, when it assigns them, a chain of   *)
(* calls for each that had an Elastic IP.  A chain that is rejected has    *)
(* the whole function called again, and the other chains go on meanwhile.  *)
(* A device has one interface here that addresses fail over to.            *)
(***************************************************************************)
EXTENDS Naturals, FiniteSets

CONSTANTS
  Devices,         \* the BIG-IP instances of the cluster
  Tagged,          \* Elastic IPs whose tag lists one address of each device
  Addresses,       \* secondary private addresses that fail over
  Tasks,           \* slots for tasks, each used at most once
  Overlapping,     \* may a task start while another is under way?
  MaxTries,        \* times _retrier calls a function (20)
  MaxRoleChanges,  \* bound: changes of the HA role
  MaxFaults,       \* bound: calls that fail
  MaxCrashes       \* bound: restarts of a device

ASSUME SwitchAssumption == Overlapping \in BOOLEAN
ASSUME BoundAssumption ==
  /\ MaxTries \in Nat \ {0}
  /\ MaxRoleChanges \in Nat /\ MaxFaults \in Nat /\ MaxCrashes \in Nat
ASSUME NameAssumption ==
  {"none", "nowhere", "unbound"} \cap (Devices \cup Tasks) = {}

None    == "none"
Nowhere == "nowhere"

\* An association is known by its id: by who made it, and, for the Elastic IP
\* of a private address, by the attempt that made it (the tries that were left).
Id          == Tasks \cup {None}
Association == [by : Tasks \cup {None, "unbound"}, tries : 0..MaxTries]
Original    == [by |-> None, tries |-> 0]
Unbound     == [by |-> "unbound", tries |-> 0]

VARIABLES
  tagged,    \* the device whose address each tagged Elastic IP is on, and the id
  owner,     \* the device that has each secondary private address
  elastic,   \* the association of the Elastic IP of each of them
  active,    \* the device on which the traffic group of each address is active
  pc,        \* where each task is
  task,      \* what each task knows
  publicStage, freeing, taking,          \* its calls on tagged Elastic IPs
  privateStage, unassigning, assigning, chains,  \* its calls on private addresses
  roleChanges, faults, crashes

budgets == <<roleChanges, faults, crashes>>
cloud   == <<tagged, owner, elastic>>
publicCalls  == <<publicStage, freeing, taking>>
privateCalls == <<privateStage, unassigning, assigning, chains>>
vars == <<cloud, active, pc, task, publicCalls, privateCalls, budgets>>

\* public: the addresses that were discovered with an Elastic IP.
Task == [host : Devices \cup {None}, wanted : SUBSET Addresses, public : SUBSET Addresses]

Tries == 1..MaxTries
Freeing     == [eip : Tagged, id : Id, tries : Tries]
Taking      == [eip : Tagged, tries : Tries]
Unassigning == [addresses : SUBSET Addresses, from : Devices, tries : Tries]

\* _associateAddressToNic for the addresses of one peer: the call that assigns
\* them, then the wait for the chains of this attempt.
Assigning == [addresses : SUBSET Addresses, step : {"assign", "reassociate"}, tries : Tries]

\* _reassociatePublicAddressToNic for one address: the call that comes next, the
\* association found on the way, and the attempt that started the chain.
Chains == [address : Addresses, step : {"lookUp", "free", "bind"}, found : Association,
           tries : Tries]

Open  == {"discover", "update"}
Ended == {"succeeded", "failed", "lost"}
Stage == {"first", "second", "broken"}

TypeOK ==
  /\ tagged \in [Tagged -> [at : Devices \cup {Nowhere}, id : Id]]
  /\ owner \in [Addresses -> Devices \cup {Nowhere}]
  /\ elastic \in [Addresses -> Association]
  /\ active \in [Addresses -> Devices]
  /\ pc \in [Tasks -> {"idle"} \cup Open \cup Ended]
  /\ task \in [Tasks -> Task]
  /\ publicStage \in [Tasks -> Stage] /\ privateStage \in [Tasks -> Stage]
  /\ freeing \in [Tasks -> SUBSET Freeing] /\ taking \in [Tasks -> SUBSET Taking]
  /\ unassigning \in [Tasks -> SUBSET Unassigning]
  /\ assigning \in [Tasks -> SUBSET Assigning]
  /\ chains \in [Tasks -> SUBSET Chains]
  /\ roleChanges \in 0..MaxRoleChanges
  /\ faults \in 0..MaxFaults
  /\ crashes \in 0..MaxCrashes

Init ==
  /\ active \in [Addresses -> Devices]
  /\ owner = active
  /\ elastic \in [Addresses -> {Original, Unbound}]
  /\ \E d \in Devices : tagged = [e \in Tagged |-> [at |-> d, id |-> None]]
  /\ pc = [t \in Tasks |-> "idle"]
  /\ task = [t \in Tasks |-> [host |-> None, wanted |-> {}, public |-> {}]]
  /\ publicStage = [t \in Tasks |-> "first"] /\ privateStage = [t \in Tasks |-> "first"]
  /\ freeing = [t \in Tasks |-> {}] /\ taking = [t \in Tasks |-> {}]
  /\ unassigning = [t \in Tasks |-> {}] /\ assigning = [t \in Tasks |-> {}]
  /\ chains = [t \in Tasks |-> {}]
  /\ roleChanges = 0 /\ faults = 0 /\ crashes = 0

-----------------------------------------------------------------------------
Goto(t, where) == pc' = [pc EXCEPT ![t] = where]

Fault   == faults < MaxFaults /\ faults' = faults + 1
NoFault == UNCHANGED faults

\* Some traffic groups, with the addresses `gained' or with none, become active
\* on d, which triggers a failover there.  The task learns at its start which
\* addresses it wants.
TakeOver(t, d, gained) ==
  /\ pc[t] = "idle"
  /\ Overlapping \/ \A u \in Tasks : pc[u] \notin Open
  /\ roleChanges < MaxRoleChanges
  /\ roleChanges' = roleChanges + 1
  /\ active' = [a \in Addresses |-> IF a \in gained THEN d ELSE active[a]]
  /\ task' = [task EXCEPT ![t].host = d,
                          ![t].wanted = {a \in Addresses : active'[a] = d}]
  /\ Goto(t, "discover")
  /\ UNCHANGED <<cloud, publicCalls, privateCalls, faults, crashes>>

-----------------------------------------------------------------------------
(* Discovery.                                                              *)

\* Variant of the next definition: an Elastic IP on no address is passed over.
AssociatedElsewhere(d) == {e \in Tagged : tagged[e].at \notin {d, Nowhere}}

\* _generatePublicAddressOperations: d has an address the tag lists, and the
\* Elastic IP is not on it.
PublicToMove(d) == {e \in Tagged : tagged[e].at # d}

\* _generateAddressOperations, _checkForNicOperations: secondary addresses d
\* wants on an interface of a peer.
PrivateToMove(c) == {a \in c.wanted : owner[a] \notin {c.host, Nowhere}}

\* The Association of the addresses, if they have one.
WithElastic(moved) == {a \in moved : elastic[a] # Unbound}

\* The second stage of the public addresses; it waits for no call if there is
\* none in the first.
Takings(moved) == {[eip |-> e, tries |-> MaxTries] : e \in moved}
Freeings(moved) ==
  {[eip |-> e, id |-> tagged[e].id, tries |-> MaxTries] :
     e \in {f \in moved : tagged[f].at # Nowhere}}

\* One call for all the addresses that are with a peer, and one function to put
\* them on the own interface.
Unassignings(moved) ==
  {[addresses |-> {a \in moved : owner[a] = d}, from |-> d, tries |-> MaxTries] :
     d \in {owner[a] : a \in moved}}
Assignings(moved) ==
  {[addresses |-> {a \in moved : owner[a] = d}, step |-> "assign", tries |-> MaxTries] :
     d \in {owner[a] : a \in moved}}

StageAfter(left) == IF left = {} THEN "second" ELSE "first"

\* The three listings of _discoverAddressOperations, and the issue of the
\* updates by _updateAddresses.
Discover(t) ==
  LET c == task[t]  public == PublicToMove(c.host)  moved == PrivateToMove(c) IN
  /\ pc[t] = "discover"
  /\ \/ /\ freeing' = [freeing EXCEPT ![t] = Freeings(public)]
        /\ taking' = [taking EXCEPT ![t] = Takings(public)]
        /\ publicStage' = [publicStage EXCEPT ![t] = StageAfter(Freeings(public))]
        /\ unassigning' = [unassigning EXCEPT ![t] = Unassignings(moved)]
        /\ assigning' = [assigning EXCEPT ![t] = Assignings(moved)]
        /\ privateStage' = [privateStage EXCEPT ![t] = StageAfter(moved)]
        /\ task' = [task EXCEPT ![t].public = WithElastic(moved)]
        /\ UNCHANGED chains
        /\ Goto(t, "update")
        /\ NoFault
     \/ Goto(t, "failed") /\ Fault /\ UNCHANGED <<task, publicCalls, privateCalls>>
  /\ UNCHANGED <<cloud, active, roleChanges, crashes>>

-----------------------------------------------------------------------------
(* Calls.                                                                  *)

Rejected(t) == Goto(t, IF pc[t] = "update" THEN "failed" ELSE pc[t])

\* A process that has restarted does not learn what became of its calls.
FaultOrLost(t) == Fault \/ (pc[t] = "lost" /\ NoFault)

\* Variants of the next definition: a call is repeated for ever; too often.
RetriedForEver(call) == {call}
RetriedOnceMore(call) == IF call.tries = 0 THEN {} ELSE {[call EXCEPT !.tries = @ - 1]}

\* retrier: what is left of a call that has been rejected.
Retried(call) == IF call.tries = 1 THEN {} ELSE {[call EXCEPT !.tries = @ - 1]}

\* A rejected call is repeated, or rejects the stage and the update.
AfterRejection(t, call) ==
  IF Retried(call) # {} THEN UNCHANGED pc ELSE Rejected(t)
StageAfterRejection(stage, call) == IF Retried(call) # {} THEN stage ELSE "broken"

\* _disassociatePublicAddress by the id that was discovered: it is rejected or
\* does nothing once the Elastic IP is elsewhere.
Free(t, call) ==
  LET left  == freeing[t] \ {call}
      there == tagged[call.eip].id = call.id /\ tagged[call.eip].at # Nowhere
      freed == IF there THEN [tagged EXCEPT ![call.eip].at = Nowhere] ELSE tagged
  IN
  /\ call \in freeing[t]
  /\ \/ /\ tagged' = freed /\ NoFault
        /\ freeing' = [freeing EXCEPT ![t] = left]
        /\ publicStage' = [publicStage EXCEPT ![t] =
                             IF @ = "broken" THEN @ ELSE StageAfter(left)]
        /\ UNCHANGED pc
     \/ /\ \/ ~there /\ NoFault /\ UNCHANGED tagged
           \/ FaultOrLost(t) /\ tagged' \in {tagged, freed}
        /\ freeing' = [freeing EXCEPT ![t] = left \cup Retried(call)]
        /\ publicStage' = [publicStage EXCEPT ![t] = StageAfterRejection(@, call)]
        /\ AfterRejection(t, call)
  /\ UNCHANGED <<owner, elastic, active, task, taking, privateCalls, roleChanges, crashes>>

\* _associatePublicAddress with AllowReassociation: wherever it is now.
Take(t, call) ==
  LET left  == taking[t] \ {call}
      taken == [tagged EXCEPT ![call.eip] = [at |-> task[t].host, id |-> t]]
  IN
  /\ publicStage[t] = "second" /\ call \in taking[t]
  /\ \/ /\ tagged' = taken /\ NoFault
        /\ taking' = [taking EXCEPT ![t] = left]
        /\ UNCHANGED pc
     \/ /\ FaultOrLost(t) /\ tagged' \in {tagged, taken}
        /\ taking' = [taking EXCEPT ![t] = left \cup Retried(call)]
        /\ AfterRejection(t, call)
  /\ UNCHANGED <<owner, elastic, active, task, publicStage, freeing, privateCalls,
                 roleChanges, crashes>>

\* _disassociateAddressFromNic: the Elastic IPs go with the addresses.  The call
\* may be rejected when some of them have left.
Unassign(t, call) ==
  LET left == unassigning[t] \ {call}
      gone == {a \in call.addresses : owner[a] = call.from}
      Gone == /\ owner' = [a \in Addresses |-> IF a \in gone THEN Nowhere ELSE owner[a]]
              /\ elastic' = [a \in Addresses |-> IF a \in gone THEN Unbound ELSE elastic[a]]
  IN
  /\ call \in unassigning[t]
  /\ \/ /\ Gone /\ NoFault
        /\ unassigning' = [unassigning EXCEPT ![t] = left]
        /\ privateStage' = [privateStage EXCEPT ![t] =
                              IF @ = "broken" THEN @ ELSE StageAfter(left)]
        /\ UNCHANGED pc
     \/ /\ \/ gone # call.addresses /\ NoFault /\ UNCHANGED <<owner, elastic>>
           \/ FaultOrLost(t) /\ (Gone \/ UNCHANGED <<owner, elastic>>)
        /\ unassigning' = [unassigning EXCEPT ![t] = left \cup Retried(call)]
        /\ privateStage' = [privateStage EXCEPT ![t] = StageAfterRejection(@, call)]
        /\ AfterRejection(t, call)
  /\ UNCHANGED <<tagged, active, task, publicCalls, assigning, chains, roleChanges, crashes>>

\* The chains that an attempt starts when its addresses are assigned.
Launched(t, batch) ==
  IF pc[t] = "lost" THEN {}
  ELSE {[address |-> a, step |-> "lookUp", found |-> Unbound, tries |-> batch.tries] :
          a \in batch.addresses \cap task[t].public}

\* assignPrivateIpAddresses: refused while another interface has one of them.
Assign(t, batch) ==
  LET here     == {Nowhere, task[t].host}
      assigned == [a \in Addresses |-> IF a \in batch.addresses THEN task[t].host ELSE owner[a]]
      accepted == \A a \in batch.addresses : owner[a] \in here
      waiting  == IF Launched(t, batch) = {} THEN {} ELSE {[batch EXCEPT !.step = "reassociate"]}
  IN
  /\ privateStage[t] = "second" /\ batch \in assigning[t] /\ batch.step = "assign"
  /\ \/ /\ accepted /\ owner' = assigned /\ NoFault
        /\ assigning' = [assigning EXCEPT ![t] = (@ \ {batch}) \cup waiting]
        /\ chains' = [chains EXCEPT ![t] = @ \cup Launched(t, batch)]
        /\ UNCHANGED pc
     \/ /\ \/ ~accepted /\ NoFault /\ UNCHANGED owner
           \/ FaultOrLost(t) /\ UNCHANGED owner
           \/ Fault /\ accepted /\ owner' = assigned
        /\ assigning' = [assigning EXCEPT ![t] = (@ \ {batch}) \cup Retried(batch)]
        /\ AfterRejection(t, batch) /\ UNCHANGED chains
  /\ UNCHANGED <<tagged, elastic, active, task, publicCalls, privateStage, unassigning,
                 roleChanges, crashes>>

\* The batch waits for the chain: it is one of the latest attempt.
WaitsFor(batch, chain) ==
  batch.step = "reassociate" /\ chain.address \in batch.addresses /\ chain.tries = batch.tries

\* A chain goes on or, when it has no next call, is over; the attempt is over
\* with the last of its chains.
Onward(t, chain, next) ==
  LET left == (chains[t] \ {chain}) \cup IF pc[t] = "lost" THEN {} ELSE next
      over == {b \in assigning[t] : WaitsFor(b, chain) /\ \A c \in left : ~WaitsFor(b, c)}
  IN
  /\ chains' = [chains EXCEPT ![t] = left]
  /\ assigning' = [assigning EXCEPT ![t] = @ \ over]
  /\ NoFault /\ UNCHANGED pc

\* A rejected chain has the whole batch assigned again, and the other chains of
\* the attempt go on; the rejection of one that nobody waits for has no effect.
Backward(t, chain) ==
  LET batch == {b \in assigning[t] : WaitsFor(b, chain)}
      again == {[c EXCEPT !.step = "assign"] : c \in UNION {Retried(b) : b \in batch}}
  IN
  /\ chains' = [chains EXCEPT ![t] = @ \ {chain}]
  /\ assigning' = [assigning EXCEPT ![t] = (@ \ batch) \cup again]
  /\ IF batch # {} /\ again = {} THEN Rejected(t) ELSE UNCHANGED pc

\* Where is the Elastic IP?
LookUp(t, chain) ==
  LET found == elastic[chain.address] IN
  /\ chain.step = "lookUp"
  /\ \/ Onward(t, chain, {[chain EXCEPT !.found = found,
                                        !.step = IF found = Unbound THEN "bind" ELSE "free"]})
     \/ FaultOrLost(t) /\ Backward(t, chain)
  /\ UNCHANGED elastic

\* By the association that was found: rejected once it is another.
FreeElastic(t, chain) ==
  LET a == chain.address
      freed == IF elastic[a] = chain.found THEN [elastic EXCEPT ![a] = Unbound] ELSE elastic
  IN
  /\ chain.step = "free"
  /\ \/ elastic' = freed /\ Onward(t, chain, {[chain EXCEPT !.step = "bind"]})
     \/ /\ \/ elastic[a] # chain.found /\ NoFault /\ UNCHANGED elastic
           \/ FaultOrLost(t) /\ elastic' \in {elastic, freed}
        /\ Backward(t, chain)

\* The Elastic IP is associated with the address, which may leave an association
\* of the two as it is; refused if the address has left.
Bind(t, chain) ==
  LET a == chain.address
      kept == {elastic[a]} \ {Unbound}
      bound == {[elastic EXCEPT ![a] = id] : id \in kept \cup {[by |-> t, tries |-> chain.tries]}}
  IN
  /\ chain.step = "bind"
  /\ \/ owner[a] = task[t].host /\ elastic' \in bound /\ Onward(t, chain, {})
     \/ /\ \/ owner[a] # task[t].host /\ NoFault /\ UNCHANGED elastic
           \/ FaultOrLost(t) /\ UNCHANGED elastic
           \/ Fault /\ owner[a] = task[t].host /\ elastic' \in bound
        /\ Backward(t, chain)

Chain(t, chain) ==
  /\ chain \in chains[t]
  /\ LookUp(t, chain) \/ FreeElastic(t, chain) \/ Bind(t, chain)
  /\ UNCHANGED <<tagged, owner, active, task, publicCalls, privateStage, unassigning,
                 roleChanges, crashes>>

\* Variant of the next definition: the batches are not waited for.
AllButBatches(t) ==
  /\ publicStage[t] = "second" /\ privateStage[t] = "second"
  /\ taking[t] = {}

\* _updateAddresses has resolved; it waits for the chains of the latest attempts
\* only.
UpdatesDone(t) ==
  /\ publicStage[t] = "second" /\ privateStage[t] = "second"
  /\ taking[t] = {} /\ assigning[t] = {}

Succeed(t) ==
  /\ pc[t] = "update" /\ UpdatesDone(t)
  /\ Goto(t, "succeeded")
  /\ UNCHANGED <<cloud, active, task, publicCalls, privateCalls, budgets>>

-----------------------------------------------------------------------------
\* Task t, or a call it has issued, is under way.
Busy(t) ==
  \/ pc[t] \in Open
  \/ freeing[t] # {} \/ unassigning[t] # {}
  \/ publicStage[t] = "second" /\ taking[t] # {}
  \/ privateStage[t] = "second" /\ assigning[t] # {}
  \/ chains[t] # {}

\* Device d restarts: a call on its way may still take effect, and nothing
\* follows it, nor is any batch waiting for its chains any more.
Restart(d) ==
  LET mine == {t \in Tasks : task[t].host = d /\ Busy(t)}
      Last(calls) == [t \in Tasks |->
        IF t \in mine THEN {[c EXCEPT !.tries = 1] : c \in calls[t]} ELSE calls[t]]
      Issued == [t \in Tasks |->
        IF t \in mine THEN {c \in assigning[t] : c.step = "assign"} ELSE assigning[t]]
      Cut(stage) == [t \in Tasks |->
        IF t \in mine /\ stage[t] = "first" THEN "broken" ELSE stage[t]]
  IN
  /\ crashes < MaxCrashes /\ crashes' = crashes + 1
  /\ mine # {}
  /\ pc' = [t \in Tasks |-> IF t \in mine THEN "lost" ELSE pc[t]]
  /\ freeing' = Last(freeing) /\ taking' = Last(taking)
  /\ unassigning' = Last(unassigning) /\ assigning' = Last(Issued)
  /\ publicStage' = Cut(publicStage) /\ privateStage' = Cut(privateStage)
  /\ UNCHANGED <<cloud, active, task, chains, roleChanges, faults>>

Done == (\A t \in Tasks : ~Busy(t)) /\ UNCHANGED vars

CloudCall(t) ==
  \/ \E call \in freeing[t] : Free(t, call)
  \/ \E call \in taking[t] : Take(t, call)
  \/ \E call \in unassigning[t] : Unassign(t, call)
  \/ \E call \in assigning[t] : Assign(t, call)
  \/ \E call \in chains[t] : Chain(t, call)

Next ==
  \/ \E t \in Tasks :
       \/ \E d \in Devices, gained \in SUBSET Addresses : TakeOver(t, d, gained)
       \/ Discover(t) \/ CloudCall(t) \/ Succeed(t)
  \/ \E d \in Devices : Restart(d)
  \/ Done

Spec == Init /\ [][Next]_vars

\* Every call comes back, and the timers of _retrier fire.
Fairness == \A t \in Tasks : WF_vars(Discover(t) \/ CloudCall(t) \/ Succeed(t))
=============================================================================
