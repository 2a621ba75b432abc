------------------------- MODULE FailoverTaskProofs -------------------------
(***************************************************************************)
(* Theorems about FailoverTask, for every set of devices, addresses,       *)
(* routes and requests, every switch of the declaration and every bound.   *)
(***************************************************************************)
EXTENDS FailoverTask, TLAPS

(* What the building blocks of the actions return. *)

\* A discovered or empty list of operations is a Discovery.
LEMMA DiscoveryTyping ==
  /\ Null \in Discovery /\ Empty \in Discovery
  /\ \A ops \in SUBSET Op : Found(ops) \in Discovery
  /\ \A x \in Discovery : OrEmpty(x) \in Discovery
  /\ NoOperations \in Operations
  /\ NoWork \in Work
BY DEF Null, Empty, Found, OrEmpty, Discovery, NoOperations, Operations, NoWork, Work

\* A new client is a client.
LEMMA NewClientTyping ==
  ASSUME NEW d \in Devices \cup {None}, NEW kind \in {"trigger", "status", "reset"}
  PROVE  NewClient(d, kind) \in Client
<1>1. 0 \in 0..MaxRetries
  BY BoundAssumption
<1>. QED
  BY <1>1, DiscoveryTyping DEF NewClient, Client

\* Whatever a client uploads is a state file.
LEMMA StateObjectTyping ==
  ASSUME NEW c \in Client, NEW operations \in Operations,
         NEW s \in {"NEVER_RUN", "SUCCEEDED", "FAILED", "RUNNING"}
  PROVE  /\ StateObject(c, s, operations) \in StateFile
         /\ StateObject(c, s, operations).taskState = s
         /\ StateObject(c, s, operations).instance = c.hostname
BY DEF StateObject, StateFile, Client

\* What a client has discovered can be recorded.
LEMMA DiscoveredTyping ==
  ASSUME NEW c \in Client
  PROVE  Discovered(c) \in Operations
BY DEF Discovered, Operations, Client

\* A client keeps its form when it is given operations.
LEMMA ClientTyping ==
  ASSUME NEW c \in Client
  PROVE  /\ \A x \in Operations : [c EXCEPT !.recovery = x] \in Client
         /\ \A x, y \in Discovery : [c EXCEPT !.addresses = x, !.routes = y] \in Client
<1>1. ASSUME NEW x \in Operations PROVE [c EXCEPT !.recovery = x] \in Client
  BY DEF Client
<1>2. ASSUME NEW x \in Discovery, NEW y \in Discovery
      PROVE  [c EXCEPT !.addresses = x, !.routes = y] \in Client
  BY DEF Client
<1>. QED
  BY <1>1, <1>2

\* A detachment changes what is left to detach, and perhaps the stage.
LEMMA DetachedTyping ==
  ASSUME NEW w \in Work, NEW op
  PROVE  /\ Detached(w, op) \in Work
         /\ Detached(w, op).detaching = w.detaching \ {op}
         /\ Detached(w, op).attaching = w.attaching
         /\ Detached(w, op).stranded = w.stranded
         /\ Detached(w, op).stage = "attach" =>
              w.detaching = {op} \/ w.stage = "attach"
<1>. DEFINE v == [w EXCEPT !.detaching = @ \ {op}]
            stage == IF w.detaching = {op} /\ ~w.broken THEN "attach" ELSE w.stage
<1>1. v \in Work
  BY DEF Work
<1>2. stage \in {"detach", "attach"}
  BY DEF Work
<1>3. /\ v.detaching = w.detaching \ {op}
      /\ v.attaching = w.attaching
      /\ v.stranded = w.stranded
  BY DEF Work
<1>4. Detached(w, op) = [v EXCEPT !.stage = stage]
  BY DEF Detached
<1>5. ASSUME NEW u \in Work, NEW x \in {"detach", "attach"}
      PROVE  /\ [u EXCEPT !.stage = x] \in Work
             /\ [u EXCEPT !.stage = x].detaching = u.detaching
             /\ [u EXCEPT !.stage = x].attaching = u.attaching
             /\ [u EXCEPT !.stage = x].stranded = u.stranded
             /\ [u EXCEPT !.stage = x].stage = x
  BY DEF Work
<1>6. stage = "attach" => w.detaching = {op} \/ w.stage = "attach"
  OBVIOUS
<1>. HIDE DEF v, stage
<1>7. /\ [v EXCEPT !.stage = stage] \in Work
      /\ [v EXCEPT !.stage = stage].detaching = v.detaching
      /\ [v EXCEPT !.stage = stage].attaching = v.attaching
      /\ [v EXCEPT !.stage = stage].stranded = v.stranded
      /\ [v EXCEPT !.stage = stage].stage = stage
  BY <1>1, <1>2, <1>5, Zenon
<1>. QED
  BY <1>3, <1>4, <1>6, <1>7, Zenon

\* The initial state is well typed.
LEMMA InitTypeOK == Init => TypeOK
<1>. SUFFICES ASSUME Init PROVE TypeOK
  OBVIOUS
<1>1. stateFile \in StateFile
  BY DiscoveryTyping DEF Init, StateFile
<1>2. client \in [Requests -> Client]
  BY NewClientTyping DEF Init
<1>3. work \in [Requests -> Work]
  BY DiscoveryTyping DEF Init
<1>4. /\ roleChanges \in 0..MaxRoleChanges
      /\ faults \in 0..MaxFaults
      /\ crashes \in 0..MaxCrashes
  BY BoundAssumption DEF Init
<1>5. pc \in [Requests -> {"idle"} \cup Open \cup Finished]
  BY DEF Init
<1>. QED
  BY <1>1, <1>2, <1>3, <1>4, <1>5 DEF Init, TypeOK

\* A fault uses up one of the faults that are left.
LEMMA FaultTyping ==
  ASSUME faults \in 0..MaxFaults, Fault \/ NoFault
  PROVE  faults' \in 0..MaxFaults
BY BoundAssumption DEF Fault, NoFault

\* Both kinds of upload leave a state file.
LEMMA UploadTyping ==
  ASSUME stateFile \in StateFile, faults \in 0..MaxFaults,
         NEW object \in StateFile, Upload(object) \/ UploadFails(object)
  PROVE  stateFile' \in StateFile /\ faults' \in 0..MaxFaults
BY FaultTyping DEF Upload, UploadFails

\* A closed request keeps a client.
LEMMA CloseTyping ==
  ASSUME client \in [Requests -> Client], NEW r \in Requests, NEW where, Close(r, where)
  PROVE  client' \in [Requests -> Client]
<1>1. client[r].host \in Devices \cup {None} /\ client[r].kind \in {"trigger", "status", "reset"}
      /\ client[r].active \in BOOLEAN
  BY DEF Client
<1>2. NewClient(client[r].host, client[r].kind) \in Client
  BY <1>1, NewClientTyping
<1>3. [NewClient(client[r].host, client[r].kind) EXCEPT !.active = client[r].active] \in Client
  BY <1>1, <1>2 DEF Client
<1>. QED
  BY <1>3 DEF Close

\* What a discovery finds is a list of operations on known devices.
LEMMA UpdateTyping ==
  ASSUME owner \in [Addresses -> Devices \cup {Nowhere}], nextHop \in [Routes -> Devices],
         NEW d \in Devices
  PROVE  FirstUpdate(d) \in Discovery /\ SecondUpdate(d) \in Discovery
<1>1. AddressOperations(d) \in SUBSET Op
  BY DEF AddressOperations, Op
<1>2. RouteOperations(d) \in SUBSET Op
  BY DEF RouteOperations, Op
<1>. QED
  BY <1>1, <1>2, DiscoveryTyping DEF FirstUpdate, SecondUpdate

\* A request that has arrived knows its device.  Discovery depends on it: the
\* operations it builds move items to that device.
HostKnown == \A r \in Requests : pc[r] # "idle" => client[r].host \in Devices

\* The steps that handle one request up to execute() keep the state well typed.
LEMMA RequestTypeOK ==
  ASSUME TypeOK, NEW r \in Requests,
         \/ ReadStateFile(r) \/ WriteNeverRun(r) \/ Answer(r) \/ Reset(r)
         \/ \E d \in Devices :
              \/ \E kind \in Kinds : UserRequest(r, d, kind)
              \/ TakeOver(r, d) \/ Reconcile(r, d)
  PROVE  TypeOK'
<1>. USE DEF TypeOK
<1>1. ASSUME ReadStateFile(r) PROVE TypeOK'
  <2>1. faults' \in 0..MaxFaults
    BY <1>1, FaultTyping DEF ReadStateFile
  <2>2. client' \in [Requests -> Client]
    BY <1>1, CloseTyping DEF ReadStateFile
  <2>3. pc' \in [Requests -> {"idle"} \cup Open \cup Finished]
    BY <1>1 DEF ReadStateFile, Close, Goto, ExecuteFrom, Open, Finished
  <2>. QED
    BY <1>1, <2>1, <2>2, <2>3 DEF ReadStateFile, cloud
<1>2. ASSUME WriteNeverRun(r) PROVE TypeOK'
  <2>1. StateObject(client[r], "NEVER_RUN", NoOperations) \in StateFile
    BY DiscoveryTyping, StateObjectTyping
  <2>2. stateFile' \in StateFile /\ faults' \in 0..MaxFaults
    BY <1>2, <2>1, UploadTyping DEF WriteNeverRun
  <2>3. client' \in [Requests -> Client]
    BY <1>2, CloseTyping DEF WriteNeverRun
  <2>4. pc' \in [Requests -> {"idle"} \cup Open \cup Finished]
    BY <1>2 DEF WriteNeverRun, Close, Goto, ExecuteFrom, Open, Finished
  <2>. QED
    BY <1>2, <2>2, <2>3, <2>4 DEF WriteNeverRun, cloud
<1>3. ASSUME Answer(r) PROVE TypeOK'
  <2>1. client' \in [Requests -> Client]
    BY <1>3, CloseTyping DEF Answer
  <2>2. pc' \in [Requests -> {"idle"} \cup Open \cup Finished]
    BY <1>3 DEF Answer, Close, Goto, Open, Finished
  <2>. QED
    BY <1>3, <2>1, <2>2 DEF Answer, cloud, budgets
<1>4. ASSUME Reset(r) PROVE TypeOK'
  <2>1. StateObject(client[r], "SUCCEEDED", NoOperations) \in StateFile
    BY DiscoveryTyping, StateObjectTyping
  <2>2. stateFile' \in StateFile /\ faults' \in 0..MaxFaults
    BY <1>4, <2>1, UploadTyping DEF Reset
  <2>3. client' \in [Requests -> Client]
    BY <1>4, CloseTyping DEF Reset
  <2>4. pc' \in [Requests -> {"idle"} \cup Open \cup Finished]
    BY <1>4 DEF Reset, Close, Goto, Open, Finished
  <2>. QED
    BY <1>4, <2>2, <2>3, <2>4 DEF Reset, cloud
<1>5. ASSUME NEW d \in Devices, NEW kind \in {"trigger", "status", "reset"},
             Arrive(r, d, kind),
             active' \in SUBSET Devices, roleChanges' \in 0..MaxRoleChanges
      PROVE  TypeOK'
  <2>1. client' \in [Requests -> Client]
    BY <1>5, NewClientTyping DEF Arrive
  <2>2. pc' \in [Requests -> {"idle"} \cup Open \cup Finished]
    BY <1>5 DEF Arrive, Goto, Open, Finished
  <2>3. faults' \in 0..MaxFaults
    BY <1>5, FaultTyping DEF Arrive
  <2>. QED
    BY <1>5, <2>1, <2>2, <2>3 DEF Arrive, cloud
<1>6. ASSUME NEW d \in Devices, NEW kind \in Kinds, UserRequest(r, d, kind) PROVE TypeOK'
  BY <1>5, <1>6, KindsAssumption DEF UserRequest
<1>7. ASSUME NEW d \in Devices, TakeOver(r, d) \/ Reconcile(r, d) PROVE TypeOK'
  <2>1. active' \in SUBSET Devices /\ roleChanges' \in 0..MaxRoleChanges
    BY <1>7, BoundAssumption DEF TakeOver, Reconcile
  <2>. QED
    BY <1>5, <1>7, <2>1 DEF TakeOver, Reconcile
<1>. QED
  BY <1>1, <1>2, <1>3, <1>4, <1>6, <1>7

\* The steps of execute() keep the state well typed.
LEMMA TaskTypeOK ==
  ASSUME TypeOK, HostKnown, NEW r \in Requests,
         \/ Snapshot(r) \/ PollFree(r) \/ PollRecover(r) \/ PollAgain(r) \/ GiveUp(r)
         \/ Lock(r) \/ Recover(r) \/ Discover(r) \/ Log(r) \/ Pass(r) \/ Fail(r)
  PROVE  TypeOK'
<1>. USE DEF TypeOK
<1>1. ASSUME Snapshot(r) PROVE TypeOK'
  <2>1. faults' \in 0..MaxFaults
    BY <1>1, FaultTyping DEF Snapshot
  <2>2. client' \in [Requests -> Client]
    <3>. DEFINE c == [client[r] EXCEPT !.hostname = client[r].host,
                                       !.active = (client[r].host \in active),
                                       !.retries = MaxRetries]
    <3>1. MaxRetries \in 0..MaxRetries
      BY BoundAssumption
    <3>2. client[r] \in Client /\ client[r].host \in Devices \cup {None}
      BY DEF Client
    <3>3. c \in Client
      <4>1. ASSUME NEW e \in Client, NEW h \in Devices \cup {None}, NEW n \in 0..MaxRetries,
                   NEW b \in BOOLEAN
            PROVE  [e EXCEPT !.hostname = h, !.active = b, !.retries = n] \in Client
        BY DEF Client
      <4>2. (client[r].host \in active) \in BOOLEAN
        OBVIOUS
      <4>. QED
        BY <3>1, <3>2, <4>1, <4>2
    <3>4. CASE UNCHANGED client
      BY <3>4
    <3>5. CASE client' = [client EXCEPT ![r].hostname = client[r].host,
                                        ![r].active = (client[r].host \in active),
                                        ![r].retries = MaxRetries]
      <4>1. client' = [client EXCEPT ![r] = c]
        BY <3>5
      <4>. QED
        BY <3>3, <4>1
    <3>. QED
      BY <1>1, <3>4, <3>5 DEF Snapshot
  <2>3. pc' \in [Requests -> {"idle"} \cup Open \cup Finished]
    BY <1>1 DEF Snapshot, Goto, Open, Holding
  <2>. QED
    BY <1>1, <2>1, <2>2, <2>3 DEF Snapshot, cloud
<1>2. ASSUME PollFree(r) \/ GiveUp(r) PROVE TypeOK'
  <2>1. pc' \in [Requests -> {"idle"} \cup Open \cup Finished]
    BY <1>2 DEF PollFree, GiveUp, Goto, Open, Holding
  <2>. QED
    BY <1>2, <2>1 DEF PollFree, GiveUp, cloud, budgets
<1>3. ASSUME PollRecover(r) PROVE TypeOK'
  <2>0. stateFile.failoverOperations \in Operations
    BY DEF StateFile
  <2>1. client' \in [Requests -> Client]
    <3>1. client' = [client EXCEPT ![r] =
                       [client[r] EXCEPT !.recovery = stateFile.failoverOperations]]
      BY <1>3 DEF PollRecover
    <3>. QED
      BY <2>0, <3>1, ClientTyping
  <2>2. pc' \in [Requests -> {"idle"} \cup Open \cup Finished]
    BY <1>3 DEF PollRecover, Goto, Open, Holding
  <2>. QED
    BY <1>3, <2>1, <2>2 DEF PollRecover, cloud, budgets
<1>4. ASSUME PollAgain(r) PROVE TypeOK'
  <2>1. client[r].retries \in 0..MaxRetries /\ client[r].retries > 0
    BY <1>4 DEF PollAgain, Client
  <2>2. RetriesLeft(client[r].retries) \in 0..MaxRetries
    BY <2>1, BoundAssumption DEF RetriesLeft
  <2>3. client' \in [Requests -> Client]
    BY <1>4, <2>2 DEF PollAgain, Client
  <2>4. faults' \in 0..MaxFaults
    BY <1>4, FaultTyping DEF PollAgain
  <2>. QED
    BY <1>4, <2>3, <2>4 DEF PollAgain, cloud
<1>5. ASSUME Lock(r) PROVE TypeOK'
  <2>1. StateObject(client[r], "RUNNING", NoOperations) \in StateFile
    BY DiscoveryTyping, StateObjectTyping
  <2>2. stateFile' \in StateFile /\ faults' \in 0..MaxFaults
    BY <1>5, <2>1, UploadTyping DEF Lock
  <2>3. pc' \in [Requests -> {"idle"} \cup Open \cup Finished]
    BY <1>5 DEF Lock, Goto, Open, Holding
  <2>. QED
    BY <1>5, <2>2, <2>3 DEF Lock, cloud
<1>6. ASSUME Recover(r) PROVE TypeOK'
  <2>1. StateObject(client[r], "RUNNING", NoOperations) \in StateFile
    BY DiscoveryTyping, StateObjectTyping
  <2>2. stateFile' \in StateFile /\ faults' \in 0..MaxFaults
    BY <1>6, <2>1, UploadTyping DEF Recover
  <2>3. /\ OrEmpty(client[r].recovery.addresses) \in Discovery
        /\ OrEmpty(client[r].recovery.routes) \in Discovery
    BY DiscoveryTyping DEF Client, Operations
  <2>4. client' \in [Requests -> Client]
    <3>. DEFINE c == [client[r] EXCEPT
                        !.addresses = OrEmpty(client[r].recovery.addresses),
                        !.routes = OrEmpty(client[r].recovery.routes)]
    <3>1. c \in Client
      BY <2>3, ClientTyping
    <3>2. CASE UNCHANGED client
      BY <3>2
    <3>3. CASE client' = [client EXCEPT
                 ![r].addresses = OrEmpty(client[r].recovery.addresses),
                 ![r].routes = OrEmpty(client[r].recovery.routes)]
      <4>1. client' = [client EXCEPT ![r] = c]
        BY <3>3
      <4>. QED
        BY <3>1, <4>1
    <3>. QED
      BY <1>6, <3>2, <3>3 DEF Recover
  <2>5. pc' \in [Requests -> {"idle"} \cup Open \cup Finished]
    BY <1>6 DEF Recover, Goto, Open, Holding
  <2>. QED
    BY <1>6, <2>2, <2>4, <2>5 DEF Recover, cloud
<1>7. ASSUME Discover(r) PROVE TypeOK'
  <2>0. client[r].host \in Devices
    BY <1>7 DEF Discover, HostKnown
  <2>1. faults' \in 0..MaxFaults
    BY <1>7, FaultTyping DEF Discover
  <2>2. client' \in [Requests -> Client]
    <3>1. /\ FirstUpdate(client[r].host) \in Discovery
          /\ SecondUpdate(client[r].host) \in Discovery
          /\ Empty \in Discovery
      BY <2>0, UpdateTyping, DiscoveryTyping
    <3>2. client[r] \in Client
      OBVIOUS
    <3>3. [client[r] EXCEPT !.hasActive = TRUE] \in Client
      BY <3>2 DEF Client
    <3>5. [client[r] EXCEPT !.addresses = Empty, !.routes = Empty] \in Client
      BY <3>1, <3>2, ClientTyping
    <3>6. [client[r] EXCEPT !.hasActive = TRUE, !.addresses = FirstUpdate(client[r].host),
                            !.routes = SecondUpdate(client[r].host)] \in Client
      BY <3>1, <3>3, ClientTyping
    <3>7. \E c \in Client : client' = [client EXCEPT ![r] = c]
      BY <1>7, <3>3, <3>5, <3>6 DEF Discover
    <3>. QED
      BY <3>7
  <2>3. pc' \in [Requests -> {"idle"} \cup Open \cup Finished]
    BY <1>7 DEF Discover, Goto, Open, Holding
  <2>. QED
    BY <1>7, <2>1, <2>2, <2>3 DEF Discover, cloud
<1>8. ASSUME Log(r) PROVE TypeOK'
  <2>1. StateObject(client[r], "RUNNING", Discovered(client[r])) \in StateFile
    BY DiscoveredTyping, StateObjectTyping
  <2>2. stateFile' \in StateFile /\ faults' \in 0..MaxFaults
    BY <1>8, <2>1, UploadTyping DEF Log
  <2>3. client[r].addresses.ops \in SUBSET Op /\ client[r].routes.ops \in SUBSET Op
    BY DEF Client, Discovery
  <2>4. Updates(client[r]) \in Work
    BY <2>3 DEF Updates, NoWork, Work
  <2>5. work' \in [Requests -> Work]
    BY <1>8, <2>4 DEF Log
  <2>6. pc' \in [Requests -> {"idle"} \cup Open \cup Finished]
    BY <1>8 DEF Log, Goto, AfterLog, Open, Holding
  <2>. QED
    BY <1>8, <2>2, <2>5, <2>6 DEF Log, cloud
<1>9. ASSUME Pass(r) PROVE TypeOK'
  <2>1. StateObject(client[r], "SUCCEEDED", Discovered(client[r])) \in StateFile
    BY DiscoveredTyping, StateObjectTyping
  <2>2. stateFile' \in StateFile /\ faults' \in 0..MaxFaults
    BY <1>9, <2>1, UploadTyping DEF Pass
  <2>3. pc' \in [Requests -> {"idle"} \cup Open \cup Finished]
    BY <1>9 DEF Pass, Goto, Open, Holding
  <2>. QED
    BY <1>9, <2>2, <2>3 DEF Pass, cloud
<1>10. ASSUME Fail(r) PROVE TypeOK'
  <2>1. StateObject(client[r], "FAILED", Discovered(client[r])) \in StateFile
    BY DiscoveredTyping, StateObjectTyping
  <2>2. stateFile' \in StateFile /\ faults' \in 0..MaxFaults
    BY <1>10, <2>1, UploadTyping DEF Fail
  <2>3. client' \in [Requests -> Client]
    BY <1>10, CloseTyping DEF Fail
  <2>4. pc' \in [Requests -> {"idle"} \cup Open \cup Finished]
    BY <1>10 DEF Fail, Close, Goto, Finished
  <2>. QED
    BY <1>10, <2>2, <2>3, <2>4 DEF Fail, cloud
<1>. QED
  BY <1>1, <1>2, <1>3, <1>4, <1>5, <1>6, <1>7, <1>8, <1>9, <1>10

\* The calls of the cloud keep the state well typed.
LEMMA CloudTypeOK ==
  ASSUME TypeOK, NEW r \in Requests, CloudCall(r)
  PROVE  TypeOK'
<1>. USE DEF TypeOK
<1>1. ASSUME Rejected(r) \/ UNCHANGED pc
      PROVE  pc' \in [Requests -> {"idle"} \cup Open \cup Finished]
  BY <1>1 DEF Rejected, Open, Holding
<1>2. ASSUME NEW op \in work[r].detaching, DetachAddress(r, op) PROVE TypeOK'
  <2>1. owner' \in [Addresses -> Devices \cup {Nowhere}]
    BY <1>2 DEF DetachAddress
  <2>2. Detached(work[r], op) \in Work
    BY DetachedTyping
  <2>3. work' \in [Requests -> Work]
    <3>1. \/ work' = [work EXCEPT ![r] = Detached(work[r], op)]
          \/ work' = [work EXCEPT ![r].detaching = @ \ {op}, ![r].broken = TRUE]
      BY <1>2 DEF DetachAddress
    <3>2. CASE work' = [work EXCEPT ![r] = Detached(work[r], op)]
      BY <2>2, <3>2
    <3>3. CASE work' = [work EXCEPT ![r].detaching = @ \ {op}, ![r].broken = TRUE]
      <4>. DEFINE w == [work[r] EXCEPT !.detaching = @ \ {op}, !.broken = TRUE]
      <4>1. w \in Work
        BY DEF Work
      <4>2. work' = [work EXCEPT ![r] = w]
        BY <3>3
      <4>. QED
        BY <4>1, <4>2
    <3>. QED
      BY <3>1, <3>2, <3>3
  <2>4. faults' \in 0..MaxFaults
    BY <1>2, FaultTyping DEF DetachAddress
  <2>. QED
    BY <1>1, <1>2, <2>1, <2>3, <2>4 DEF DetachAddress
<1>3. ASSUME NEW op \in work[r].attaching, AttachAddress(r, op) PROVE TypeOK'
  <2>0. op \in Op
    BY <1>3 DEF Work
  <2>1. owner' \in [Addresses -> Devices \cup {Nowhere}]
    BY <1>3, <2>0 DEF AttachAddress, Op
  <2>2. work' \in [Requests -> Work]
    <3>. DEFINE w == [work[r] EXCEPT !.attaching = @ \ {op}]
                v == [work[r] EXCEPT !.attaching = @ \ {op}, !.broken = TRUE,
                                     !.stranded = @ \cup {op}]
    <3>1. w \in Work /\ v \in Work
      BY <2>0 DEF Work
    <3>2. work' = [work EXCEPT ![r] = w] \/ work' = [work EXCEPT ![r] = v]
      BY <1>3 DEF AttachAddress
    <3>. QED
      BY <3>1, <3>2
  <2>3. faults' \in 0..MaxFaults
    BY <1>3, FaultTyping DEF AttachAddress
  <2>. QED
    BY <1>1, <1>3, <2>1, <2>2, <2>3 DEF AttachAddress
<1>4. ASSUME NEW op \in work[r].rerouting, UpdateRoute(r, op) PROVE TypeOK'
  <2>0. op \in Op
    BY <1>4 DEF Work
  <2>1. nextHop' \in [Routes -> Devices]
    BY <1>4, <2>0 DEF UpdateRoute, Op
  <2>2. work' \in [Requests -> Work]
    BY <1>4 DEF UpdateRoute, Work
  <2>3. faults' \in 0..MaxFaults
    BY <1>4, FaultTyping DEF UpdateRoute
  <2>. QED
    BY <1>1, <1>4, <2>1, <2>2, <2>3 DEF UpdateRoute
<1>. QED
  BY <1>2, <1>3, <1>4 DEF CloudCall

\* Restarts and the passing of time keep the state well typed.
LEMMA EnvironmentTypeOK ==
  ASSUME TypeOK, TimePasses \/ Done \/ \E d \in Devices : Restart(d)
  PROVE  TypeOK'
<1>. USE DEF TypeOK
<1>1. ASSUME TimePasses PROVE TypeOK'
  BY <1>1 DEF TimePasses, StateFile, cloud, budgets
<1>2. ASSUME NEW d \in Devices, Restart(d) PROVE TypeOK'
  <2>1. pc' \in [Requests -> {"idle"} \cup Open \cup Finished]
    BY <1>2 DEF Restart, Finished
  <2>2. \A r \in Requests : [work[r] EXCEPT !.broken = TRUE] \in Work
    BY DEF Work
  <2>3. work' \in [Requests -> Work]
    BY <1>2, <2>2 DEF Restart
  <2>4. crashes' \in 0..MaxCrashes
    BY <1>2, BoundAssumption DEF Restart
  <2>. QED
    BY <1>2, <2>1, <2>3, <2>4 DEF Restart, cloud
<1>3. ASSUME Done PROVE TypeOK'
  BY <1>3 DEF Done, vars, cloud, budgets
<1>. QED
  BY <1>1, <1>2, <1>3

-----------------------------------------------------------------------------
(* The inductive invariant.                                                *)

\* The requests whose task has not issued any cloud update.
BeforeUpdate ==
  {"idle", "read", "neverRun", "snapshot", "wait", "lock", "recover", "discover",
   "log", "reset"}

\* What a task has in hand: it detaches only what it is going to attach, it
\* attaches when nothing is left to detach, and it has nothing in hand before
\* its second upload.
WorkOrdered ==
  \A r \in Requests :
    /\ work[r].detaching \subseteq work[r].attaching
    /\ work[r].stage = "attach" => work[r].detaching = {}
    /\ pc[r] \in BeforeUpdate => work[r].attaching \cup work[r].stranded = {}

IInv == TypeOK /\ HostKnown /\ LockHasHolder /\ WorkOrdered /\ UnassignedIsCarried

\* The initial state satisfies the invariant.
LEMMA InitIInv == Init => IInv
<1>. SUFFICES ASSUME Init PROVE IInv
  OBVIOUS
<1>1. TypeOK
  BY InitTypeOK
<1>2. HostKnown
  BY DEF Init, HostKnown
<1>3. LockHasHolder
  BY DEF Init, LockHasHolder
<1>4. WorkOrdered
  BY DEF Init, WorkOrdered, NoWork
<1>5. UnassignedIsCarried
  BY NameAssumption DEF Init, UnassignedIsCarried, Nowhere
<1>. QED
  BY <1>1, <1>2, <1>3, <1>4, <1>5 DEF IInv

\* The type invariant is preserved by every step.
LEMMA NextTypeOK == IInv /\ [Next]_vars => TypeOK'
<1>. SUFFICES ASSUME IInv, [Next]_vars PROVE TypeOK'
  OBVIOUS
<1>1. CASE UNCHANGED vars
  BY <1>1 DEF IInv, TypeOK, vars, cloud, budgets
<1>2. CASE Next
  BY <1>2, RequestTypeOK, TaskTypeOK, CloudTypeOK, EnvironmentTypeOK
     DEF Next, Continue, IInv
<1>. QED
  BY <1>1, <1>2

\* A request keeps its device; only its arrival sets it.
LEMMA NextHostKnown == IInv /\ [Next]_vars => HostKnown'
<1>. SUFFICES ASSUME IInv, [Next]_vars PROVE HostKnown'
  OBVIOUS
<1>. USE DEF IInv, TypeOK, HostKnown
<1>1. CASE UNCHANGED vars
  BY <1>1 DEF vars
<1>2. ASSUME NEW r \in Requests, NEW where \in Finished, Close(r, where), pc[r] # "idle"
      PROVE  HostKnown'
  BY <1>2 DEF Close, Goto, NewClient
<1>3. ASSUME NEW r \in Requests, NEW d \in Devices, NEW kind, Arrive(r, d, kind)
      PROVE  HostKnown'
  BY <1>3 DEF Arrive, Goto, NewClient
<1>4. ASSUME NEW r \in Requests, NEW where, Goto(r, where), pc[r] # "idle",
             \A q \in Requests : client'[q].host = client[q].host
      PROVE  HostKnown'
  BY <1>4 DEF Goto
<1>5. ASSUME NEW r \in Requests, Continue(r) PROVE HostKnown'
  <2>1. CASE ReadStateFile(r) \/ WriteNeverRun(r) \/ Answer(r) \/ Reset(r) \/ Fail(r)
    <3>1. pc[r] # "idle"
      BY <2>1 DEF ReadStateFile, WriteNeverRun, Answer, Reset, Fail
    <3>2. \/ \E where \in Finished : Close(r, where)
          \/ \E where : Goto(r, where) /\ UNCHANGED client
      BY <2>1 DEF ReadStateFile, WriteNeverRun, Answer, Reset, Fail, Finished
    <3>. QED
      BY <1>2, <1>4, <3>1, <3>2
  <2>2. CASE Snapshot(r) \/ PollRecover(r) \/ Recover(r) \/ Discover(r)
    <3>1. pc[r] # "idle" /\ \E where : Goto(r, where)
      BY <2>2 DEF Snapshot, PollRecover, Recover, Discover
    <3>2. \A q \in Requests : client'[q].host = client[q].host
      BY <2>2 DEF Snapshot, PollRecover, Recover, Discover, Client
    <3>. QED
      BY <1>4, <3>1, <3>2
  <2>3. CASE PollAgain(r)
    BY <2>3 DEF PollAgain, Client
  <2>4. CASE PollFree(r) \/ GiveUp(r) \/ Lock(r) \/ Log(r) \/ Pass(r)
    BY <2>4, <1>4 DEF PollFree, GiveUp, Lock, Log, Pass
  <2>. QED
    BY <1>5, <2>1, <2>2, <2>3, <2>4 DEF Continue
<1>6. ASSUME NEW r \in Requests, CloudCall(r) PROVE HostKnown'
  BY <1>6 DEF CloudCall, DetachAddress, AttachAddress, UpdateRoute, Rejected
<1>7. ASSUME NEW d \in Devices, Restart(d) PROVE HostKnown'
  BY <1>7 DEF Restart, Open, Holding
<1>8. CASE TimePasses \/ Done
  BY <1>8 DEF TimePasses, Done, vars
<1>. QED
  BY <1>1, <1>3, <1>5, <1>6, <1>7, <1>8 DEF Next, UserRequest, TakeOver, Reconcile

\* A record of a running task keeps its holder.  A step either leaves the file
\* to the same task and every holder where it is, or replaces the record by
\* one of a task that is not running, or makes the task that uploads the holder.
LEMMA NextLockHasHolder == IInv /\ [Next]_vars => LockHasHolder'
<1>. DEFINE Holders == Holding \cup {"crashed", "unrecorded"}
            Keeps == \A q \in Requests :
                       pc[q] \in Holders =>
                         pc'[q] \in Holders /\ client'[q].hostname = client[q].hostname
            SameTask == /\ stateFile'.taskState = stateFile.taskState
                        /\ stateFile'.instance = stateFile.instance
<1>. SUFFICES ASSUME IInv, [Next]_vars PROVE LockHasHolder'
  OBVIOUS
<1>. USE DEF IInv, TypeOK
<1>1. ASSUME SameTask, Keeps PROVE LockHasHolder'
  BY <1>1 DEF LockHasHolder
<1>2. ASSUME stateFile'.taskState # "RUNNING" PROVE LockHasHolder'
  BY <1>2 DEF LockHasHolder
<1>3. ASSUME NEW r \in Requests, pc'[r] \in Holders,
             stateFile'.instance = client'[r].hostname
      PROVE  LockHasHolder'
  BY <1>3 DEF LockHasHolder
<1>4. ASSUME NEW r \in Requests, NEW where, Goto(r, where), UNCHANGED client,
             pc[r] \in Holders => where \in Holders
      PROVE  Keeps
  BY <1>4 DEF Goto
<1>5. ASSUME NEW r \in Requests, NEW where, Close(r, where), pc[r] \notin Holders
      PROVE  Keeps
  BY <1>5 DEF Close, Goto
<1>6. ASSUME NEW r \in Requests, NEW where, Goto(r, where), pc[r] \notin Holders,
             \A q \in Requests \ {r} : client'[q] = client[q]
      PROVE  Keeps
  BY <1>6 DEF Goto
<1>7. ASSUME NEW r \in Requests, NEW d, NEW kind, Arrive(r, d, kind) PROVE LockHasHolder'
  <2>1. UNCHANGED stateFile /\ pc[r] \notin Holders
    BY <1>7 DEF Arrive, Holding
  <2>2. Keeps
    BY <1>6, <1>7, <2>1 DEF Arrive
  <2>. QED
    BY <1>1, <2>1, <2>2
<1>8. ASSUME NEW r \in Requests, ReadStateFile(r) \/ Answer(r) PROVE LockHasHolder'
  <2>1. UNCHANGED stateFile /\ pc[r] \notin Holders
    BY <1>8 DEF ReadStateFile, Answer, Holding
  <2>2. Keeps
    BY <1>4, <1>5, <1>8, <2>1 DEF ReadStateFile, Answer
  <2>. QED
    BY <1>1, <2>1, <2>2
<1>9. ASSUME NEW r \in Requests, WriteNeverRun(r) \/ Reset(r) PROVE LockHasHolder'
  <2>1. \/ UNCHANGED stateFile
        \/ stateFile'.taskState # "RUNNING"
    BY <1>9 DEF WriteNeverRun, Reset, Upload, UploadFails, StateObject
  <2>2. pc[r] \notin Holders
    BY <1>9 DEF WriteNeverRun, Reset, Holding
  <2>3. Keeps
    BY <1>4, <1>5, <1>9, <2>2 DEF WriteNeverRun, Reset
  <2>. QED
    BY <1>1, <1>2, <2>1, <2>3
<1>10. ASSUME NEW r \in Requests,
              Snapshot(r) \/ PollFree(r) \/ PollRecover(r) \/ GiveUp(r)
       PROVE  LockHasHolder'
  <2>1. UNCHANGED stateFile /\ pc[r] \notin Holders
    BY <1>10 DEF Snapshot, PollFree, PollRecover, GiveUp, Holding
  <2>2. /\ \E where : Goto(r, where)
        /\ \A q \in Requests \ {r} : client'[q] = client[q]
    BY <1>10 DEF Snapshot, PollFree, PollRecover, GiveUp
  <2>3. Keeps
    BY <1>6, <2>1, <2>2
  <2>. QED
    BY <1>1, <2>1, <2>3
<1>11. ASSUME NEW r \in Requests, PollAgain(r) PROVE LockHasHolder'
  <2>1. UNCHANGED <<stateFile, pc>> /\ pc[r] \notin Holders
    BY <1>11 DEF PollAgain, Holding
  <2>2. Keeps
    BY <1>11, <2>1 DEF PollAgain
  <2>. QED
    BY <1>1, <2>1, <2>2
<1>12. ASSUME NEW r \in Requests, Lock(r) \/ Recover(r) \/ Log(r) PROVE LockHasHolder'
  <2>1. pc'[r] \in Holders
    BY <1>12 DEF Lock, Recover, Log, Goto, AfterLog, Holding
  <2>2. /\ \A q \in Requests : client'[q].hostname = client[q].hostname
        /\ \A q \in Requests \ {r} : pc'[q] = pc[q]
    BY <1>12 DEF Lock, Recover, Log, Goto, Client
  <2>3. \/ UNCHANGED stateFile
        \/ stateFile'.instance = client[r].hostname
    BY <1>12 DEF Lock, Recover, Log, Upload, UploadFails, StateObject
  <2>. QED
    BY <1>1, <1>3, <2>1, <2>2, <2>3
<1>13. ASSUME NEW r \in Requests, Discover(r) PROVE LockHasHolder'
  <2>1. UNCHANGED stateFile /\ pc'[r] \in Holders
    BY <1>13 DEF Discover, Goto, Holding
  <2>2. /\ \A q \in Requests : client'[q].hostname = client[q].hostname
        /\ \A q \in Requests \ {r} : pc'[q] = pc[q]
    <3>1. \A q \in Requests \ {r} : pc'[q] = pc[q] /\ client'[q] = client[q]
      BY <1>13 DEF Discover, Goto
    <3>2. client[r] \in Client
      OBVIOUS
    <3>3. \/ client' = [client EXCEPT ![r].addresses = Empty, ![r].routes = Empty]
          \/ client' = [client EXCEPT ![r].hasActive = TRUE,
                                      ![r].addresses = FirstUpdate(client[r].host),
                                      ![r].routes = SecondUpdate(client[r].host)]
          \/ client' = [client EXCEPT ![r].hasActive = TRUE]
      BY <1>13 DEF Discover
    <3>4. client'[r].hostname = client[r].hostname
      BY <3>2, <3>3 DEF Client
    <3>. QED
      BY <3>1, <3>4
  <2>. QED
    BY <1>1, <2>1, <2>2
<1>14. ASSUME NEW r \in Requests, Pass(r) PROVE LockHasHolder'
  <2>1. CASE Goto(r, "fail")
    <3>1. Keeps
      BY <1>4, <1>14, <2>1 DEF Pass, Holding
    <3>. QED
      BY <1>1, <1>2, <1>14, <3>1 DEF Pass, Upload, UploadFails, StateObject
  <2>2. CASE Upload(StateObject(client[r], "SUCCEEDED", Discovered(client[r])))
    BY <1>2, <2>2 DEF Upload, StateObject
  <2>. QED
    BY <1>14, <2>1, <2>2 DEF Pass
<1>15. ASSUME NEW r \in Requests, Fail(r) PROVE LockHasHolder'
  <2>1. CASE Goto(r, "unrecorded") /\ UNCHANGED client
    <3>1. Keeps
      BY <1>4, <2>1
    <3>. QED
      BY <1>1, <1>2, <1>15, <3>1 DEF Fail, Upload, UploadFails, StateObject
  <2>2. CASE Upload(StateObject(client[r], "FAILED", Discovered(client[r])))
    BY <1>2, <2>2 DEF Upload, StateObject
  <2>. QED
    BY <1>15, <2>1, <2>2 DEF Fail
<1>16. ASSUME NEW r \in Requests, CloudCall(r) PROVE LockHasHolder'
  <2>1. UNCHANGED <<stateFile, client>> /\ (Rejected(r) \/ UNCHANGED pc)
    BY <1>16 DEF CloudCall, DetachAddress, AttachAddress, UpdateRoute
  <2>2. Keeps
    BY <2>1 DEF Rejected, Holding
  <2>. QED
    BY <1>1, <2>1, <2>2
<1>17. ASSUME NEW d \in Devices, Restart(d) PROVE LockHasHolder'
  <2>1. UNCHANGED <<stateFile, client>>
    BY <1>17 DEF Restart
  <2>2. Keeps
    BY <1>17, <2>1 DEF Restart, Open
  <2>. QED
    BY <1>1, <2>1, <2>2
<1>18. ASSUME TimePasses \/ UNCHANGED vars PROVE LockHasHolder'
  <2>1. SameTask /\ Keeps
    BY <1>18 DEF TimePasses, vars, StateFile
  <2>. QED
    BY <1>1, <2>1
<1>19. ASSUME NEW r \in Requests, Continue(r) PROVE LockHasHolder'
  BY <1>8, <1>9, <1>10, <1>11, <1>12, <1>13, <1>14, <1>15, <1>19 DEF Continue
<1>. QED
  BY <1>7, <1>16, <1>17, <1>18, <1>19 DEF Next, UserRequest, TakeOver, Reconcile, Done

\* The steps of a request other than its second upload leave what its task has
\* in hand, and do not take it back to before that upload.
LEMMA WorkKept ==
  ASSUME TypeOK, NEW r \in Requests,
         \/ Continue(r) /\ ~Log(r)
         \/ \E d \in Devices, kind \in {"trigger", "status", "reset"} : Arrive(r, d, kind)
  PROVE  /\ UNCHANGED work
         /\ \A q \in Requests : pc'[q] \in BeforeUpdate => pc[q] \in BeforeUpdate
<1>. USE DEF TypeOK, BeforeUpdate
<1>1. ASSUME NEW where, pc[r] \in BeforeUpdate \/ where \notin BeforeUpdate,
             Goto(r, where) \/ Close(r, where)
      PROVE  \A q \in Requests : pc'[q] \in BeforeUpdate => pc[q] \in BeforeUpdate
  BY <1>1 DEF Goto, Close
<1>2. CASE ReadStateFile(r) \/ WriteNeverRun(r) \/ Answer(r) \/ Reset(r)
  <2>1. /\ UNCHANGED work
        /\ \/ pc[r] \in BeforeUpdate /\ \E where : Goto(r, where) \/ Close(r, where)
           \/ Close(r, "closed")
    BY <1>2 DEF ReadStateFile, WriteNeverRun, Answer, Reset
  <2>. QED
    BY <1>1, <2>1
<1>3. CASE Snapshot(r) \/ PollFree(r) \/ PollRecover(r) \/ GiveUp(r)
           \/ Lock(r) \/ Recover(r) \/ Discover(r)
  <2>1. UNCHANGED work /\ pc[r] \in BeforeUpdate /\ \E where : Goto(r, where)
    BY <1>3 DEF Snapshot, PollFree, PollRecover, GiveUp, Lock, Recover, Discover
  <2>. QED
    BY <1>1, <2>1
<1>4. CASE PollAgain(r)
  BY <1>4 DEF PollAgain
<1>5. CASE Pass(r) \/ Fail(r)
  <2>1. /\ UNCHANGED work
        /\ \E where \in {"answer", "fail", "closed", "unrecorded"} :
             Goto(r, where) \/ Close(r, where)
    BY <1>5 DEF Pass, Fail
  <2>. QED
    BY <1>1, <2>1
<1>6. ASSUME NEW d \in Devices, NEW kind \in {"trigger", "status", "reset"},
             Arrive(r, d, kind)
      PROVE  /\ UNCHANGED work
             /\ \A q \in Requests : pc'[q] \in BeforeUpdate => pc[q] \in BeforeUpdate
  <2>1. UNCHANGED work /\ pc[r] \in BeforeUpdate /\ \E where : Goto(r, where)
    BY <1>6 DEF Arrive
  <2>. QED
    BY <1>1, <2>1
<1>. QED
  BY <1>2, <1>3, <1>4, <1>5, <1>6 DEF Continue

\* A task detaches what it will attach, in order.
LEMMA NextWorkOrdered == IInv /\ [Next]_vars => WorkOrdered'
<1>. SUFFICES ASSUME IInv, [Next]_vars PROVE WorkOrdered'
  OBVIOUS
<1>. USE DEF IInv, TypeOK
<1>1. ASSUME UNCHANGED work,
             \A q \in Requests : pc'[q] \in BeforeUpdate => pc[q] \in BeforeUpdate
      PROVE  WorkOrdered'
  BY <1>1 DEF WorkOrdered
<1>2. ASSUME NEW r \in Requests, Log(r) PROVE WorkOrdered'
  <2>1. /\ Updates(client[r]).detaching = Updates(client[r]).attaching
        /\ Updates(client[r]).stage = "detach"
    BY DEF Updates, NoWork
  <2>2. pc'[r] \notin BeforeUpdate /\ \A q \in Requests \ {r} : pc'[q] = pc[q]
    BY <1>2 DEF Log, Goto, AfterLog, BeforeUpdate
  <2>3. work' = [work EXCEPT ![r] = Updates(client[r])] \/ UNCHANGED work
    BY <1>2 DEF Log
  <2>. QED
    BY <2>1, <2>2, <2>3 DEF WorkOrdered
<1>3. ASSUME NEW r \in Requests, NEW w \in Work,
             work' = [work EXCEPT ![r] = w],
             w.detaching \subseteq w.attaching,
             w.stage = "attach" => w.detaching = {},
             work[r].attaching # {}, Rejected(r) \/ UNCHANGED pc
      PROVE  WorkOrdered'
  <2>1. pc[r] \notin BeforeUpdate
    BY <1>3 DEF WorkOrdered
  <2>2. \A q \in Requests : pc'[q] \in BeforeUpdate => pc[q] \in BeforeUpdate
    BY <1>3 DEF Rejected, BeforeUpdate
  <2>. QED
    BY <1>3, <2>1, <2>2 DEF WorkOrdered
<1>4. ASSUME NEW r \in Requests, NEW op \in work[r].detaching, DetachAddress(r, op)
      PROVE  WorkOrdered'
  <2>1. work[r] \in Work /\ op \in work[r].attaching
    BY DEF WorkOrdered
  <2>2. CASE work' = [work EXCEPT ![r] = Detached(work[r], op)]
    <3>1. /\ Detached(work[r], op) \in Work
          /\ Detached(work[r], op).detaching = work[r].detaching \ {op}
          /\ Detached(work[r], op).attaching = work[r].attaching
          /\ Detached(work[r], op).stage = "attach" =>
               work[r].detaching = {op} \/ work[r].stage = "attach"
      BY <2>1, DetachedTyping
    <3>. QED
      <4>1. work'[r] = Detached(work[r], op) /\ \A q \in Requests \ {r} : work'[q] = work[q]
        BY <2>1, <2>2
      <4>2. \A q \in Requests : pc'[q] \in BeforeUpdate => pc[q] \in BeforeUpdate
        BY <1>4, <2>2, <3>1 DEF DetachAddress, Rejected, BeforeUpdate
      <4>. QED
        BY <2>1, <3>1, <4>1, <4>2 DEF WorkOrdered
  <2>3. CASE work' = [work EXCEPT ![r].detaching = @ \ {op}, ![r].broken = TRUE]
    <3>. DEFINE w == [work[r] EXCEPT !.detaching = @ \ {op}, !.broken = TRUE]
    <3>1. /\ w \in Work
          /\ w.detaching = work[r].detaching \ {op}
          /\ w.attaching = work[r].attaching
          /\ w.stage = work[r].stage
      BY <2>1 DEF Work
    <3>2. work' = [work EXCEPT ![r] = w]
      BY <2>3
    <3>. HIDE DEF w
    <3>. QED
      BY <1>3, <1>4, <2>1, <3>1, <3>2 DEF DetachAddress, WorkOrdered
  <2>. QED
    BY <1>4, <2>2, <2>3 DEF DetachAddress
<1>5. ASSUME NEW r \in Requests, NEW op \in work[r].attaching, AttachAddress(r, op)
      PROVE  WorkOrdered'
  <2>1. work[r] \in Work /\ op \in Op /\ work[r].detaching = {}
    BY <1>5 DEF WorkOrdered, AttachAddress, Work
  <2>2. \E w \in Work : /\ work' = [work EXCEPT ![r] = w]
                        /\ w.detaching = {}
    <3>1. CASE work' = [work EXCEPT ![r].attaching = @ \ {op}]
      <4>1. /\ [work[r] EXCEPT !.attaching = @ \ {op}] \in Work
            /\ [work[r] EXCEPT !.attaching = @ \ {op}].detaching = {}
        BY <2>1 DEF Work
      <4>. QED
        BY <3>1, <4>1
    <3>2. CASE work' = [work EXCEPT ![r].attaching = @ \ {op}, ![r].broken = TRUE,
                                    ![r].stranded = @ \cup {op}]
      <4>. DEFINE w == [work[r] EXCEPT !.attaching = @ \ {op}, !.broken = TRUE,
                                       !.stranded = @ \cup {op}]
      <4>1. w \in Work /\ w.detaching = {}
        BY <2>1 DEF Work
      <4>2. work' = [work EXCEPT ![r] = w]
        BY <3>2
      <4>. QED
        BY <4>1, <4>2
    <3>. QED
      BY <1>5, <3>1, <3>2 DEF AttachAddress
  <2>. QED
    BY <1>3, <1>5, <2>2 DEF AttachAddress
<1>6. ASSUME NEW r \in Requests, NEW op \in work[r].rerouting, UpdateRoute(r, op)
      PROVE  WorkOrdered'
  <2>1. \A q \in Requests : /\ work'[q].detaching = work[q].detaching
                            /\ work'[q].attaching = work[q].attaching
                            /\ work'[q].stranded = work[q].stranded
                            /\ work'[q].stage = work[q].stage
    BY <1>6 DEF UpdateRoute, Work
  <2>2. \A q \in Requests : pc'[q] \in BeforeUpdate => pc[q] \in BeforeUpdate
    BY <1>6 DEF UpdateRoute, Rejected, BeforeUpdate
  <2>. QED
    BY <2>1, <2>2 DEF WorkOrdered
<1>7. ASSUME NEW d \in Devices, Restart(d) PROVE WorkOrdered'
  <2>1. \A q \in Requests : /\ work'[q].detaching = work[q].detaching
                            /\ work'[q].attaching = work[q].attaching
                            /\ work'[q].stranded = work[q].stranded
                            /\ work'[q].stage = work[q].stage
    BY <1>7 DEF Restart, Work
  <2>2. \A q \in Requests : pc'[q] \in BeforeUpdate => pc[q] \in BeforeUpdate
    BY <1>7 DEF Restart, BeforeUpdate
  <2>. QED
    BY <2>1, <2>2 DEF WorkOrdered
<1>8. ASSUME TimePasses \/ UNCHANGED vars PROVE WorkOrdered'
  BY <1>1, <1>8 DEF TimePasses, vars
<1>9. ASSUME NEW r \in Requests, Continue(r) \/ CloudCall(r) PROVE WorkOrdered'
  BY <1>1, <1>2, <1>4, <1>5, <1>6, <1>9, WorkKept DEF CloudCall
<1>10. ASSUME NEW r \in Requests, NEW d \in Devices,
              \/ \E kind \in Kinds : UserRequest(r, d, kind)
              \/ TakeOver(r, d) \/ Reconcile(r, d)
       PROVE  WorkOrdered'
  BY <1>1, <1>10, WorkKept, KindsAssumption DEF UserRequest, TakeOver, Reconcile
<1>. QED
  BY <1>7, <1>8, <1>9, <1>10 DEF Next, Done

\* An address that a step leaves on no interface is carried after it: it was
\* carried before by a task that keeps it in hand, or this step detached it.
LEMMA NextUnassignedIsCarried == IInv /\ [Next]_vars => UnassignedIsCarried'
<1>. SUFFICES ASSUME IInv, [Next]_vars PROVE UnassignedIsCarried'
  OBVIOUS
<1>. USE DEF IInv, TypeOK
<1>1. ASSUME UNCHANGED owner,
             \A q \in Requests :
               /\ work'[q].detaching \subseteq work[q].detaching
               /\ work[q].attaching \cup work[q].stranded
                    \subseteq work'[q].attaching \cup work'[q].stranded
      PROVE  UnassignedIsCarried'
  BY <1>1 DEF UnassignedIsCarried, Carries
<1>2. ASSUME UNCHANGED owner, UNCHANGED work PROVE UnassignedIsCarried'
  BY <1>1, <1>2
<1>3. ASSUME NEW r \in Requests, Log(r) PROVE UnassignedIsCarried'
  <2>1. work[r].attaching \cup work[r].stranded = {}
    BY <1>3 DEF Log, WorkOrdered, BeforeUpdate
  <2>2. UNCHANGED owner /\ \A q \in Requests \ {r} : work'[q] = work[q]
    BY <1>3 DEF Log, cloud
  <2>3. \A a \in Addresses : ~Carries(r, a)
    BY <2>1 DEF Carries
  <2>. QED
    BY <2>2, <2>3 DEF UnassignedIsCarried, Carries
<1>4. ASSUME NEW r \in Requests, NEW op \in work[r].detaching, DetachAddress(r, op)
      PROVE  UnassignedIsCarried'
  <2>1. work[r] \in Work /\ op \in work[r].attaching
    BY DEF WorkOrdered
  <2>2. /\ work'[r].detaching = work[r].detaching \ {op}
        /\ work'[r].attaching = work[r].attaching
        /\ work'[r].stranded = work[r].stranded
        /\ \A q \in Requests \ {r} : work'[q] = work[q]
    <3>1. CASE work' = [work EXCEPT ![r] = Detached(work[r], op)]
      <4>1. /\ Detached(work[r], op).detaching = work[r].detaching \ {op}
            /\ Detached(work[r], op).attaching = work[r].attaching
            /\ Detached(work[r], op).stranded = work[r].stranded
        BY <2>1, DetachedTyping
      <4>. QED
        BY <3>1, <4>1
    <3>2. CASE work' = [work EXCEPT ![r].detaching = @ \ {op}, ![r].broken = TRUE]
      BY <2>1, <3>2 DEF Work
    <3>. QED
      BY <1>4, <3>1, <3>2 DEF DetachAddress
  <2>3. \A a \in Addresses : owner'[a] = Nowhere => owner[a] = Nowhere \/ a = op.item
    BY <1>4 DEF DetachAddress
  <2>4. \A q \in Requests, a \in Addresses : Carries(q, a) => Carries(q, a)'
    BY <2>2 DEF Carries
  <2>5. Carries(r, op.item)'
    BY <2>1, <2>2 DEF Carries
  <2>. QED
    BY <2>3, <2>4, <2>5 DEF UnassignedIsCarried
<1>5. ASSUME NEW r \in Requests, NEW op \in work[r].attaching, AttachAddress(r, op)
      PROVE  UnassignedIsCarried'
  <2>1. work[r] \in Work /\ work[r].detaching = {}
    BY <1>5 DEF AttachAddress, WorkOrdered
  <2>2. op \in Op
    BY <1>5 DEF Work
  <2>3. CASE /\ owner' = [owner EXCEPT ![op.item] = op.to]
             /\ work' = [work EXCEPT ![r].attaching = @ \ {op}]
    <3>1. \A a \in Addresses : owner'[a] = Nowhere => owner[a] = Nowhere /\ a # op.item
      BY <2>2, <2>3, NameAssumption DEF Op, Nowhere
    <3>2. /\ work'[r].detaching = work[r].detaching
          /\ work'[r].attaching = work[r].attaching \ {op}
          /\ work'[r].stranded = work[r].stranded
          /\ \A q \in Requests \ {r} : work'[q] = work[q]
      BY <2>1, <2>3 DEF Work
    <3>3. \A q \in Requests, a \in Addresses : a # op.item /\ Carries(q, a) => Carries(q, a)'
      BY <3>2 DEF Carries
    <3>. QED
      BY <3>1, <3>3 DEF UnassignedIsCarried
  <2>4. CASE /\ UNCHANGED owner
             /\ work' = [work EXCEPT ![r].attaching = @ \ {op}, ![r].broken = TRUE,
                                     ![r].stranded = @ \cup {op}]
    <3>1. /\ work'[r].detaching = work[r].detaching
          /\ work'[r].attaching = work[r].attaching \ {op}
          /\ work'[r].stranded = work[r].stranded \cup {op}
          /\ \A q \in Requests \ {r} : work'[q] = work[q]
      BY <2>1, <2>4 DEF Work
    <3>. QED
      BY <1>1, <2>4, <3>1
  <2>. QED
    BY <1>5, <2>3, <2>4 DEF AttachAddress
<1>6. ASSUME NEW r \in Requests, NEW op \in work[r].rerouting, UpdateRoute(r, op)
      PROVE  UnassignedIsCarried'
  <2>1. UNCHANGED owner /\ \A q \in Requests :
          /\ work'[q].detaching = work[q].detaching
          /\ work'[q].attaching = work[q].attaching
          /\ work'[q].stranded = work[q].stranded
    BY <1>6 DEF UpdateRoute, Work
  <2>. QED
    BY <1>1, <2>1
<1>7. ASSUME NEW d \in Devices, Restart(d) PROVE UnassignedIsCarried'
  <2>1. UNCHANGED owner /\ \A q \in Requests :
          /\ work'[q].detaching = work[q].detaching
          /\ work'[q].attaching = work[q].attaching
          /\ work'[q].stranded = work[q].stranded
    BY <1>7 DEF Restart, cloud, Work
  <2>. QED
    BY <1>1, <2>1
<1>8. ASSUME TimePasses \/ UNCHANGED vars PROVE UnassignedIsCarried'
  BY <1>2, <1>8 DEF TimePasses, vars, cloud
<1>9. ASSUME NEW r \in Requests, Continue(r), ~Log(r) PROVE UnassignedIsCarried'
  <2>1. UNCHANGED owner
    BY <1>9 DEF Continue, ReadStateFile, WriteNeverRun, Answer, Reset, Snapshot,
                PollFree, PollRecover, PollAgain, GiveUp, Lock, Recover, Discover,
                Pass, Fail, cloud
  <2>. QED
    BY <1>2, <1>9, <2>1, WorkKept
<1>10. ASSUME NEW r \in Requests, NEW d \in Devices,
              \/ \E kind \in Kinds : UserRequest(r, d, kind)
              \/ TakeOver(r, d) \/ Reconcile(r, d)
       PROVE  UnassignedIsCarried'
  BY <1>2, <1>10 DEF UserRequest, TakeOver, Reconcile, Arrive, cloud
<1>11. ASSUME NEW r \in Requests, CloudCall(r) PROVE UnassignedIsCarried'
  BY <1>4, <1>5, <1>6, <1>11 DEF CloudCall
<1>. QED
  BY <1>3, <1>7, <1>8, <1>9, <1>10, <1>11 DEF Next, Done

-----------------------------------------------------------------------------
(* Theorems.                                                               *)

\* The invariant is inductive and holds initially.
THEOREM Invariance == Spec => []IInv
<1>1. Init => IInv
  BY InitIInv
<1>2. IInv /\ [Next]_vars => IInv'
  BY NextTypeOK, NextHostKnown, NextLockHasHolder, NextWorkOrdered,
     NextUnassignedIsCarried DEF IInv
<1>. QED
  BY <1>1, <1>2, PTL DEF Spec

\* The state file, the clients and the calls in progress keep their form in
\* every behaviour of the failover task, whatever fails or restarts.
THEOREM TypeCorrect == Spec => []TypeOK
<1>1. IInv => TypeOK
  BY DEF IInv
<1>. QED
  BY <1>1, Invariance, PTL

\* No path through execute() ends with its task still recorded as running,
\* unless the device restarted or the storage refused the last upload.
THEOREM LockNeverLeaks == Spec => []LockHasHolder
<1>1. IInv => LockHasHolder
  BY DEF IInv
<1>. QED
  BY <1>1, Invariance, PTL

\* However many tasks overlap, an address that is on no interface is one that
\* some task detached and is to attach, or was kept from attaching.
THEOREM NoAddressFallsBetween == Spec => []UnassignedIsCarried
<1>1. IInv => UnassignedIsCarried
  BY DEF IInv
<1>. QED
  BY <1>1, Invariance, PTL
=============================================================================
