---------------------------- MODULE FailoverTask ----------------------------
(***************************************************************************)
(* The failover task: what the devices of a BIG-IP cluster do when a       *)
(* failover is triggered (failover.js), the REST requests that start it,   *)
(* ask for its state or reset it (restWorkers/main.js, /trigger and        *)
(* /reset), and the two things all of them share: the state file in cloud  *)
(* storage and the cloud objects themselves.                               *)
(*                                                                         *)
(* One step is one asynchronous call of the code together with the         *)
(* synchronous code that runs on its result: between two steps any other   *)
(* request, on this device or on another one, may run.  A call of the      *)
(* cloud or of the device may fail; a device may restart; the HA role may  *)
(* move, and both devices may be active for a while.                       *)
(***************************************************************************)
EXTENDS Naturals, FiniteSets

CONSTANTS
  Devices,           \* the BIG-IP devices of the cluster
  Addresses,         \* failover addresses (ip configurations, private or alias IPs)
  Routes,            \* objects redirected by one call (routes, next hops)
  Requests,          \* slots for REST requests, each used at most once
  Kinds,             \* the requests users may send: "trigger", "status", "reset"
  AddressesEnabled,  \* the declaration enables failoverAddresses
  RoutesEnabled,     \* the declaration enables failoverRoutes
  MaxRetries,        \* polls of the state file before a task gives up (400)
  SlowCloud,         \* may a task outlive RUNNING_TASK_MAX_MS?
  MaxOpen,           \* bound: requests in progress at the same time
  MaxRoleChanges,    \* bound: changes of the HA role
  MaxFaults,         \* bound: calls that fail
  MaxCrashes         \* bound: restarts of a device

ASSUME ItemsAssumption == Addresses \cap Routes = {}
ASSUME KindsAssumption == Kinds \subseteq {"trigger", "status", "reset"}
ASSUME SwitchAssumption ==
  AddressesEnabled \in BOOLEAN /\ RoutesEnabled \in BOOLEAN /\ SlowCloud \in BOOLEAN
ASSUME BoundAssumption ==
  /\ MaxRetries \in Nat \ {0}
  /\ MaxOpen \in Nat /\ MaxRoleChanges \in Nat
  /\ MaxFaults \in Nat /\ MaxCrashes \in Nat
ASSUME NameAssumption == {"none", "nowhere"} \cap Devices = {}

None    == "none"     \* the instance an upload names when the hostname is not known
Nowhere == "nowhere"  \* where an address is that no network interface holds

VARIABLES
  stateFile,    \* the state file in cloud storage
  active,       \* the devices that hold the traffic group
  owner,        \* the device whose interface holds each address
  nextHop,      \* the device each route points to
  pc,           \* where each request is
  client,       \* the FailoverClient of each request
  work,         \* the cloud updates each request has issued
  roleChanges, faults, crashes

budgets == <<roleChanges, faults, crashes>>
cloud   == <<owner, nextHop>>
vars    == <<stateFile, active, cloud, pc, client, work, budgets>>

-----------------------------------------------------------------------------
(* Values.                                                                 *)

\* One change of a cloud object: move `item' from one device to another.
Op == [item : Addresses \cup Routes, from : Devices, to : Devices]

\* What a field such as addressDiscovery holds: null, {} or the operations a
\* provider discovered.  Null is falsy, the other two are not.
Discovery == [truthy : BOOLEAN, ops : SUBSET Op]
Null       == [truthy |-> FALSE, ops |-> {}]
Empty      == [truthy |-> TRUE,  ops |-> {}]
Found(ops) == [truthy |-> TRUE,  ops |-> ops]
OrEmpty(x) == IF x.truthy THEN x ELSE Empty

\* failoverOperations of the state file; {} reads as two undefined fields.
Operations   == [addresses : Discovery, routes : Discovery]
NoOperations == [addresses |-> Null, routes |-> Null]

\* "ABSENT" stands for a missing file.  The time stamp is "old" once it is
\* more than RUNNING_TASK_MAX_MS in the past.
StateFile ==
  [taskState : {"ABSENT", "NEVER_RUN", "SUCCEEDED", "FAILED", "RUNNING"},
   instance : Devices \cup {None},
   timestamp : {"fresh", "old"},
   failoverOperations : Operations]

\* recovery is recoveryOperations; active is what the task keeps of
\* trafficGroupStats; retries is the retrier's maxRetries.
Client ==
  [host : Devices \cup {None}, kind : {"trigger", "status", "reset"},
   hostname : Devices \cup {None}, active : BOOLEAN, retries : 0..MaxRetries,
   hasActive : BOOLEAN, recovery : Operations,
   addresses : Discovery, routes : Discovery]

\* The constructor of FailoverClient.
NewClient(d, kind) ==
  [host |-> d, kind |-> kind, hostname |-> None, active |-> FALSE,
   retries |-> 0, hasActive |-> FALSE, recovery |-> NoOperations,
   addresses |-> Null, routes |-> Null]

\* The promises of updateAddresses and updateRoutes.  Addresses move in two
\* stages, each a Promise.all: every address is detached, then every address
\* is attached.  `broken' means that the first stage will not be followed by
\* the second; `stranded' are the addresses whose attachment failed.
Work ==
  [stage : {"detach", "attach"}, detaching : SUBSET Op, attaching : SUBSET Op,
   stranded : SUBSET Op, rerouting : SUBSET Op, broken : BOOLEAN]
NoWork ==
  [stage |-> "detach", detaching |-> {}, attaching |-> {},
   stranded |-> {}, rerouting |-> {}, broken |-> FALSE]

-----------------------------------------------------------------------------
(* Positions of a request.  A request in Holding has put its task in the   *)
(* state file and will replace it; "crashed" and "unrecorded" are the ways *)
(* out that leave it there: a restart, and a failure whose own record      *)
(* could not be written.                                                   *)

Holding  == {"discover", "log", "update", "fail"}
Open     == {"read", "neverRun", "snapshot", "wait", "lock", "recover",
             "answer", "reset"} \cup Holding
Finished == {"closed", "crashed", "unrecorded"}

TypeOK ==
  /\ stateFile \in StateFile
  /\ active \in SUBSET Devices
  /\ owner \in [Addresses -> Devices \cup {Nowhere}]
  /\ nextHop \in [Routes -> Devices]
  /\ pc \in [Requests -> {"idle"} \cup Open \cup Finished]
  /\ client \in [Requests -> Client]
  /\ work \in [Requests -> Work]
  /\ roleChanges \in 0..MaxRoleChanges
  /\ faults \in 0..MaxFaults
  /\ crashes \in 0..MaxCrashes

\* The deployment a declaration describes: one active device, which the
\* cloud objects point to, and no state file yet.
Init ==
  /\ stateFile = [taskState |-> "ABSENT", instance |-> None,
                  timestamp |-> "fresh", failoverOperations |-> NoOperations]
  /\ \E d \in Devices : /\ active = {d}
                        /\ owner = [a \in Addresses |-> d]
                        /\ nextHop = [n \in Routes |-> d]
  /\ pc = [r \in Requests |-> "idle"]
  /\ client = [r \in Requests |-> NewClient(None, "trigger")]
  /\ work = [r \in Requests |-> NoWork]
  /\ roleChanges = 0 /\ faults = 0 /\ crashes = 0

-----------------------------------------------------------------------------
(* Building blocks.                                                        *)

Goto(r, where) == pc' = [pc EXCEPT ![r] = where]

\* The request is answered.  Nothing uses its client again, except that calls
\* to the cloud it has issued may still be on their way.
Close(r, where) ==
  /\ Goto(r, where)
  /\ client' = [client EXCEPT ![r] =
                  [NewClient(@.host, @.kind) EXCEPT !.active = client[r].active]]

Fault == faults < MaxFaults /\ faults' = faults + 1
NoFault == UNCHANGED faults

\* _createStateObject: what client c uploads.
StateObject(c, taskState, operations) ==
  [taskState |-> taskState, instance |-> c.hostname,
   timestamp |-> "fresh", failoverOperations |-> operations]

Discovered(c) == [addresses |-> c.addresses, routes |-> c.routes]

\* uploadDataToStorage: it succeeds, or it is rejected, and then the file may
\* or may not have been replaced.
Upload(object)       == stateFile' = object /\ NoFault
UploadFails(object)  == stateFile' \in {stateFile, object} /\ Fault

-----------------------------------------------------------------------------
(* Requests arrive.                                                        *)

\* processRequest and init(): a new client reads the configuration and asks
\* the provider and the device to initialise; when one of them rejects the
\* answer is a 500 and nothing else has happened.
Arrive(r, d, kind) ==
  /\ pc[r] = "idle"
  /\ Cardinality({q \in Requests : pc[q] \in Open}) < MaxOpen
  /\ client' = [client EXCEPT ![r] = NewClient(d, kind)]
  /\ \/ Goto(r, IF kind = "reset" THEN "reset" ELSE "read") /\ NoFault
     \/ Goto(r, "closed") /\ Fault
  /\ UNCHANGED <<stateFile, cloud, work, crashes>>

\* A user, or a script of the user's, sends a request.
UserRequest(r, d, kind) ==
  /\ kind \in Kinds
  /\ Arrive(r, d, kind)
  /\ UNCHANGED <<active, roleChanges>>

\* The cluster makes d active: tgactive triggers a failover on d.  The peers
\* notice at once, or keep the role until they are reconciled.
TakeOver(r, d) ==
  /\ d \notin active
  /\ roleChanges < MaxRoleChanges
  /\ active' \in {{d}, active \cup {d}}
  /\ roleChanges' = roleChanges + 1
  /\ Arrive(r, d, "trigger")

\* Two active devices are reconciled in favour of d: tgrefresh triggers a
\* failover on d.
Reconcile(r, d) ==
  /\ d \in active /\ active # {d}
  /\ roleChanges < MaxRoleChanges
  /\ active' = {d}
  /\ roleChanges' = roleChanges + 1
  /\ Arrive(r, d, "trigger")

-----------------------------------------------------------------------------
(* getTaskStateFile, POST /trigger up to execute(), GET /trigger.          *)

\* execute() does nothing when the declaration enables neither kind of object.
ExecuteFrom == IF AddressesEnabled \/ RoutesEnabled THEN "snapshot" ELSE "answer"

\* The task in the file is running and is this device's.
AlreadyExecuting(r) ==
  stateFile.taskState = "RUNNING" /\ stateFile.instance = client[r].host

ReadStateFile(r) ==
  /\ pc[r] = "read"
  /\ \/ /\ stateFile.taskState = "ABSENT"
        /\ Goto(r, "neverRun") /\ NoFault
        /\ UNCHANGED client
     \/ /\ stateFile.taskState # "ABSENT" /\ client[r].kind = "trigger"
        /\ Goto(r, IF AlreadyExecuting(r) THEN "answer" ELSE ExecuteFrom)
        /\ NoFault
        /\ UNCHANGED client
     \/ /\ stateFile.taskState # "ABSENT" /\ client[r].kind = "status"
        /\ Close(r, "closed") /\ NoFault
     \/ Close(r, "closed") /\ Fault
  /\ UNCHANGED <<stateFile, active, cloud, work, roleChanges, crashes>>

\* The file was missing when it was read: it is created now.
WriteNeverRun(r) ==
  LET object == StateObject(client[r], "NEVER_RUN", NoOperations) IN
  /\ pc[r] = "neverRun"
  /\ \/ /\ Upload(object)
        /\ client[r].kind = "trigger"
        /\ Goto(r, ExecuteFrom)
        /\ UNCHANGED client
     \/ Upload(object) /\ client[r].kind = "status" /\ Close(r, "closed")
     \/ UploadFails(object) /\ Close(r, "closed")
  /\ UNCHANGED <<active, cloud, work, roleChanges, crashes>>

\* getTaskStateFile at the end of POST /trigger.  The file is never missing
\* here, so that all it decides is the answer.
Answer(r) ==
  /\ pc[r] = "answer"
  /\ Close(r, "closed")
  /\ UNCHANGED <<stateFile, active, cloud, work, budgets>>

\* resetFailoverState.  Its client has not asked the device for its hostname;
\* an upload that fails becomes a 500.
Reset(r) ==
  LET object == StateObject(client[r], "SUCCEEDED", NoOperations) IN
  /\ pc[r] = "reset"
  /\ Upload(object) \/ UploadFails(object)
  /\ Close(r, "closed")
  /\ UNCHANGED <<active, cloud, work, roleChanges, crashes>>

-----------------------------------------------------------------------------
(* execute(): the device is asked, then the running task is waited for.    *)

\* _getDeviceObjects.  Who is active is read here, once, and used much later.
\* A failure is swallowed, and the first use of the missing result throws.
Snapshot(r) ==
  LET d == client[r].host IN
  /\ pc[r] = "snapshot"
  /\ \/ /\ client' = [client EXCEPT ![r].hostname = d,
                                    ![r].active = (d \in active),
                                    ![r].retries = MaxRetries]
        /\ Goto(r, "wait") /\ NoFault
     \/ /\ Fault
        /\ Goto(r, "fail")
        /\ UNCHANGED client
  /\ UNCHANGED <<stateFile, active, cloud, work, roleChanges, crashes>>

\* Variants of the next definition: the counter is not passed on; it is
\* passed on the wrong way round.
RetriesKept(n) == n
RetriesGrown(n) == n + 1

\* retrier: what is left after one more rejected call.
RetriesLeft(n) == n - 1

\* Variant of the next definition: the right field, compared the wrong way round.
TimeDriftReversed(file) == file.timestamp = "fresh"

\* _checkTaskState compares the clock with data.timeStamp.
TimeDriftExceeded(file) == "timeStamp" \in DOMAIN file /\ file.timeStamp = "old"

\* Nothing runs, or nothing ever ran: go ahead.
PollFree(r) ==
  /\ pc[r] = "wait" /\ client[r].retries > 0
  /\ stateFile.taskState \in {"ABSENT", "NEVER_RUN", "SUCCEEDED"}
  /\ Goto(r, "lock")
  /\ UNCHANGED <<stateFile, active, cloud, client, work, budgets>>

\* Variant of the next definition: whatever was recorded is taken up.
AlwaysRecoverable(operations) == TRUE

\* _getRecoveryOperations refuses operations that are both missing.
Recoverable(operations) == operations.addresses.truthy \/ operations.routes.truthy

\* The last task failed, or is held to have taken too long: recover it.
PollRecover(r) ==
  /\ pc[r] = "wait" /\ client[r].retries > 0
  /\ \/ stateFile.taskState = "FAILED"
     \/ stateFile.taskState = "RUNNING" /\ TimeDriftExceeded(stateFile)
  /\ client' = [client EXCEPT ![r].recovery = stateFile.failoverOperations]
  /\ Goto(r, IF Recoverable(stateFile.failoverOperations) THEN "recover" ELSE "fail")
  /\ UNCHANGED <<stateFile, active, cloud, work, budgets>>

\* A task is running, or the download is rejected: try again in three seconds.
PollAgain(r) ==
  /\ pc[r] = "wait" /\ client[r].retries > 0
  /\ \/ stateFile.taskState = "RUNNING" /\ ~TimeDriftExceeded(stateFile) /\ NoFault
     \/ Fault
  /\ client' = [client EXCEPT ![r].retries = RetriesLeft(@)]
  /\ UNCHANGED <<stateFile, active, cloud, pc, work, roleChanges, crashes>>

\* No retries are left: the last error is thrown.
GiveUp(r) ==
  /\ pc[r] = "wait" /\ client[r].retries = 0
  /\ Goto(r, "fail")
  /\ UNCHANGED <<stateFile, active, cloud, client, work, budgets>>

-----------------------------------------------------------------------------
(* The task takes the state file, discovers and logs what it will do.      *)

\* The first upload of a task that recovers nothing.
Lock(r) ==
  LET object == StateObject(client[r], "RUNNING", NoOperations) IN
  /\ pc[r] = "lock"
  /\ \/ Upload(object) /\ Goto(r, "discover")
     \/ UploadFails(object) /\ Goto(r, "fail")
  /\ UNCHANGED <<active, cloud, client, work, roleChanges, crashes>>

\* The first upload of a task that recovers: it replaces the operations it
\* has just read, which only the client now holds.
Recover(r) ==
  LET c == client[r]
      object == StateObject(c, "RUNNING", NoOperations)
  IN
  /\ pc[r] = "recover"
  /\ \/ /\ Upload(object)
        /\ client' = [client EXCEPT ![r].addresses = OrEmpty(c.recovery.addresses),
                                    ![r].routes = OrEmpty(c.recovery.routes)]
        /\ Goto(r, "log")
     \/ UploadFails(object) /\ Goto(r, "fail") /\ UNCHANGED client
  /\ UNCHANGED <<active, cloud, work, roleChanges, crashes>>

\* updateAddresses and updateRoutes with discoverOnly: what has to move to d.
\* An address that no interface holds is not seen.
AddressOperations(d) ==
  {[item |-> a, from |-> owner[a], to |-> d] :
     a \in {b \in Addresses : owner[b] \notin {d, Nowhere}}}
RouteOperations(d) ==
  {[item |-> n, from |-> nextHop[n], to |-> d] :
     n \in {m \in Routes : nextHop[m] # d}}

\* _getFailoverDiscovery returns one entry per enabled kind of object, and
\* execute() takes updates[0] for the addresses and updates[1] for the routes.
FirstUpdate(d) ==
  Found(IF AddressesEnabled THEN AddressOperations(d) ELSE RouteOperations(d))

\* Variant of the next definition: the second entry is lost.
SecondUpdateLost(d) == IF AddressesEnabled THEN Empty ELSE Found(RouteOperations(d))

SecondUpdate(d) ==
  IF AddressesEnabled /\ RoutesEnabled THEN Found(RouteOperations(d)) ELSE Empty

Discover(r) ==
  LET c == client[r] IN
  /\ pc[r] = "discover"
  /\ \/ /\ ~c.active /\ NoFault
        /\ client' = [client EXCEPT ![r].addresses = Empty, ![r].routes = Empty]
        /\ Goto(r, "log")
     \/ /\ c.active /\ NoFault
        /\ client' = [client EXCEPT ![r].hasActive = TRUE,
                                    ![r].addresses = FirstUpdate(c.host),
                                    ![r].routes = SecondUpdate(c.host)]
        /\ Goto(r, "log")
     \/ /\ c.active /\ Fault
        /\ client' = [client EXCEPT ![r].hasActive = TRUE]
        /\ Goto(r, "fail")
  /\ UNCHANGED <<stateFile, active, cloud, work, roleChanges, crashes>>

\* The update calls of a task: none when this.hasActiveTrafficGroups is false.
Updates(c) ==
  [NoWork EXCEPT
     !.detaching = IF c.hasActive /\ AddressesEnabled THEN c.addresses.ops ELSE {},
     !.attaching = IF c.hasActive /\ AddressesEnabled THEN c.addresses.ops ELSE {},
     !.rerouting = IF c.hasActive /\ RoutesEnabled THEN c.routes.ops ELSE {}]

\* Variant of the next definition: a task that has nothing to update returns
\* from execute() instead of going on to its last upload.
AfterLogReturns(c) == IF c.hasActive THEN "update" ELSE "answer"

AfterLog(c) == "update"

\* The second upload; the calls that update the cloud are issued with it.
Log(r) ==
  LET c == client[r]
      object == StateObject(c, "RUNNING", Discovered(c))
  IN
  /\ pc[r] = "log"
  /\ \/ /\ Upload(object)
        /\ work' = [work EXCEPT ![r] = Updates(c)]
        /\ Goto(r, AfterLog(c))
     \/ UploadFails(object) /\ Goto(r, "fail") /\ UNCHANGED work
  /\ UNCHANGED <<active, cloud, client, roleChanges, crashes>>

-----------------------------------------------------------------------------
(* The cloud updates.  The calls of one Promise.all complete in any order; *)
(* one rejection makes execute() go to its catch while the others go on.   *)

\* Promise.all rejects.
Rejected(r) == pc' = [pc EXCEPT ![r] = IF @ = "update" THEN "fail" ELSE @]

\* Variant of the next definition: an address is forgotten with its detachment.
DetachedAndForgotten(w, op) ==
  [w EXCEPT !.detaching = @ \ {op}, !.attaching = @ \ {op},
            !.stage = IF w.detaching = {op} /\ ~w.broken THEN "attach" ELSE @]

\* When the last detachment resolves the attachments are issued.
Detached(w, op) ==
  [w EXCEPT !.detaching = @ \ {op},
            !.stage = IF w.detaching = {op} /\ ~w.broken THEN "attach" ELSE @]

\* An address is taken off the interface it was discovered on.  If it is no
\* longer there the call does nothing or is rejected.
DetachAddress(r, op) ==
  /\ op \in work[r].detaching
  /\ \/ /\ owner' = IF owner[op.item] = op.from
                    THEN [owner EXCEPT ![op.item] = Nowhere] ELSE owner
        /\ work' = [work EXCEPT ![r] = Detached(work[r], op)]
        /\ NoFault
        /\ UNCHANGED pc
     \/ /\ Fault \/ (owner[op.item] # op.from /\ NoFault)
        /\ work' = [work EXCEPT ![r].detaching = @ \ {op}, ![r].broken = TRUE]
        /\ Rejected(r)
        /\ UNCHANGED owner
  /\ UNCHANGED <<stateFile, active, nextHop, client, roleChanges, crashes>>

\* An address is put on the interface of the task's device; the cloud refuses
\* one that another interface holds.
AttachAddress(r, op) ==
  /\ work[r].stage = "attach" /\ op \in work[r].attaching
  /\ \/ /\ owner[op.item] \in {Nowhere, op.to}
        /\ owner' = [owner EXCEPT ![op.item] = op.to]
        /\ work' = [work EXCEPT ![r].attaching = @ \ {op}]
        /\ NoFault
        /\ UNCHANGED pc
     \/ /\ Fault \/ (owner[op.item] \notin {Nowhere, op.to} /\ NoFault)
        /\ work' = [work EXCEPT ![r].attaching = @ \ {op}, ![r].broken = TRUE,
                                ![r].stranded = @ \cup {op}]
        /\ Rejected(r)
        /\ UNCHANGED owner
  /\ UNCHANGED <<stateFile, active, nextHop, client, roleChanges, crashes>>

\* A route is pointed to the task's device, wherever it points now.
UpdateRoute(r, op) ==
  /\ op \in work[r].rerouting
  /\ work' = [work EXCEPT ![r].rerouting = @ \ {op}]
  /\ \/ /\ nextHop' = [nextHop EXCEPT ![op.item] = op.to]
        /\ NoFault
        /\ UNCHANGED pc
     \/ Fault /\ Rejected(r) /\ UNCHANGED nextHop
  /\ UNCHANGED <<stateFile, active, owner, client, roleChanges, crashes>>

\* Variant of the next definition: the promise of updateRoutes is dropped.
UpdatingAddresses(r) == work[r].detaching \cup work[r].attaching # {}

\* The calls whose promises updateAddresses and updateRoutes still wait for.
Updating(r) ==
  work[r].detaching \cup work[r].attaching \cup work[r].rerouting # {}

-----------------------------------------------------------------------------
(* The end of a task.                                                      *)

\* Everything resolved.
Pass(r) ==
  LET object == StateObject(client[r], "SUCCEEDED", Discovered(client[r])) IN
  /\ pc[r] = "update" /\ ~Updating(r)
  /\ \/ Upload(object) /\ Goto(r, "answer")
     \/ UploadFails(object) /\ Goto(r, "fail")
  /\ UNCHANGED <<active, cloud, client, work, roleChanges, crashes>>

\* The catch of execute(): the failure is recorded, and thrown to the caller,
\* which answers 500, whether it could be recorded or not.
Fail(r) ==
  LET object == StateObject(client[r], "FAILED", Discovered(client[r])) IN
  /\ pc[r] = "fail"
  /\ \/ Upload(object) /\ Close(r, "closed")
     \/ UploadFails(object) /\ Goto(r, "unrecorded") /\ UNCHANGED client
  /\ UNCHANGED <<active, cloud, work, roleChanges, crashes>>

-----------------------------------------------------------------------------
(* The environment.                                                        *)

\* The REST worker of d restarts: its requests are gone.  Calls it had issued
\* may still take effect, but nothing follows them.
Restart(d) ==
  LET mine == {r \in Requests : client[r].host = d} IN
  /\ crashes < MaxCrashes
  /\ \E r \in mine : pc[r] \in Open
  /\ crashes' = crashes + 1
  /\ pc' = [r \in Requests |->
              IF r \notin mine \/ pc[r] \notin Open THEN pc[r]
              ELSE IF pc[r] \in Holding THEN "crashed" ELSE "closed"]
  /\ work' = [r \in Requests |->
                IF r \in mine THEN [work[r] EXCEPT !.broken = TRUE] ELSE work[r]]
  /\ UNCHANGED <<stateFile, active, cloud, client, roleChanges, faults>>

\* RUNNING_TASK_MAX_MS pass without an upload.
TimePasses ==
  /\ SlowCloud
  /\ stateFile.taskState = "RUNNING" /\ stateFile.timestamp = "fresh"
  /\ stateFile' = [stateFile EXCEPT !.timestamp = "old"]
  /\ UNCHANGED <<active, cloud, pc, client, work, budgets>>

\* No request is in progress and every call has come back.
Quiet ==
  \A r \in Requests :
    /\ pc[r] \notin Open
    /\ work[r].detaching \cup work[r].rerouting = {}
    /\ work[r].stage = "attach" => work[r].attaching = {}

\* The bounds on what the environment does may leave nothing to happen.
Done == Quiet /\ UNCHANGED vars

\* The steps of a request, those of its cloud calls apart.
Continue(r) ==
  \/ ReadStateFile(r) \/ WriteNeverRun(r) \/ Answer(r) \/ Reset(r)
  \/ Snapshot(r)
  \/ PollFree(r) \/ PollRecover(r) \/ PollAgain(r) \/ GiveUp(r)
  \/ Lock(r) \/ Recover(r) \/ Discover(r) \/ Log(r) \/ Pass(r) \/ Fail(r)

CloudCall(r) ==
  \/ \E op \in work[r].detaching : DetachAddress(r, op)
  \/ \E op \in work[r].attaching : AttachAddress(r, op)
  \/ \E op \in work[r].rerouting : UpdateRoute(r, op)

Next ==
  \/ \E r \in Requests, d \in Devices :
       \/ \E kind \in Kinds : UserRequest(r, d, kind)
       \/ TakeOver(r, d)
       \/ Reconcile(r, d)
  \/ \E r \in Requests : Continue(r) \/ CloudCall(r)
  \/ \E d \in Devices : Restart(d)
  \/ TimePasses
  \/ Done

Spec == Init /\ [][Next]_vars

\* Promises settle: every call of the device, of the storage and of the cloud
\* comes back, and the timer of the retrier fires.
Fairness == \A r \in Requests : WF_vars(Continue(r)) /\ WF_vars(CloudCall(r))

FairSpec == Spec /\ Fairness

-----------------------------------------------------------------------------
(* Properties.                                                             *)

\* A task recorded as running belongs to a request that is still going to
\* replace the record, or that was cut off by a restart or by a storage that
\* refused its last upload: no path through execute() leaves the lock behind.
LockHasHolder ==
  stateFile.taskState = "RUNNING" =>
    \E r \in Requests :
      /\ client[r].hostname = stateFile.instance
      /\ pc[r] \in Holding \cup {"crashed", "unrecorded"}

\* Operations that task r has half done: the address is detached, and not
\* attached.
Carries(r, a) ==
  \E op \in work[r].attaching \cup work[r].stranded :
    op.item = a /\ op \notin work[r].detaching

\* An address that no interface holds, and that no discovery will see again,
\* was detached by a task that is about to attach it or has failed to: two
\* tasks that move the same address do not lose it between them.
UnassignedIsCarried ==
  \A a \in Addresses : owner[a] = Nowhere => \E r \in Requests : Carries(r, a)

\* Who is to bring which address to which device: what a task has still to
\* attach, or could not.
Claims ==
  {c \in [task : Requests, address : Addresses, device : Devices] :
     \E op \in work[c.task].attaching \cup work[c.task].stranded :
       op.item = c.address /\ op.to = c.device}

\* However tasks overlap, fail or are cut off, addresses move as
\* AddressOwnership says: one leaves a device only when a task has claimed it,
\* goes to a device only from no other and on its claim, and a claim ends
\* only when it is met (_reassociateAddresses).
Ownership == INSTANCE AddressOwnership WITH Tasks <- Requests, claims <- Claims
ImplementsOwnership == Ownership!Spec

\* Where the operations of a record say their items should be, they are.
Performed(operations) ==
  \A op \in operations.addresses.ops \cup operations.routes.ops :
    IF op.item \in Addresses THEN owner[op.item] = op.to ELSE nextHop[op.item] = op.to

\* A task recorded as succeeded has performed the operations it recorded.
SuccessIsReal ==
  stateFile.taskState = "SUCCEEDED" => Performed(stateFile.failoverOperations)

\* Once every triggered failover is over, the active device has what fails over.
AddressesFollowActive ==
  Quiet => \A d \in Devices : active = {d} => \A a \in Addresses : owner[a] = d
RoutesFollowActive ==
  Quiet => \A d \in Devices : active = {d} => \A n \in Routes : nextHop[n] = d

\* Every request is answered, or lost with its device: a task waits for a
\* running one only so long.
EveryRequestAnswered ==
  \A r \in Requests : pc[r] \in Open ~> pc[r] \in Finished
=============================================================================
