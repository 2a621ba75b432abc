# Verification of the F5 Cloud Failover extension

TLA+ models of the Cloud Failover iControl LX extension, the TLC runs that
check them and the TLAPS proofs about them. Paths are relative to the
repository; `failover.js`, `main.js`, `config.js`, `device.js` and `util.js`
stand for the files of `src/nodejs` (and `src/nodejs/restWorkers`).

## 1. The system

A cluster of BIG-IP devices shares a set of floating addresses and routes. The
cloud does not follow gratuitous ARP, so that when the active device changes
the extension, which runs on every device, moves the cloud objects: the device
that became active runs its `tgactive` script, which POSTs to its own
`/trigger` endpoint. There is no process that coordinates the devices: they
share a state file in cloud storage, which they download and upload whole, and
the cloud objects.

| component | state | operations | talks to |
|---|---|---|---|
| Failover task (`failover.js`) | one `FailoverClient` per request: hostname, traffic groups, discovered operations, recovery operations | `init`, `execute`, `resetFailoverState`, `getTaskStateFile`, `getFailoverStatusAndObjects` | state file, provider, device |
| State file (cloud storage) | `taskState`, `instance`, `timestamp`, `failoverOperations` | upload, download | every device |
| REST worker (`main.js`) | none between requests | `/declare`, `/trigger`, `/reset`, `/inspect`, `/info` | the others |
| Configuration worker (`config.js`) | the declaration in memory and in a data group; two trigger scripts | `processConfigRequest`, `getConfig` | device |
| Device client (`device.js`) | port, user | reads of the device's configuration, data groups, shell commands | BIG-IP |
| Retrier (`util.js`, `providers/abstract`) | retries left, passed from call to call | `retrier` | |
| AWS, Azure, GCP providers | what one discovery read | `updateAddresses`, `updateRoutes`, storage | cloud APIs |
| Validator, schema, telemetry, logger, factory | none | | |

All code of one device runs on one thread; a promise callback runs to its end
before another one starts. Interleaving happens between callbacks, and between
devices at any time.

What is hard here, and what each part has to get right:

* **Failover task.** The lock (a RUNNING record in the state file) is taken by a
  poll followed by an upload, on storage that has no compare-and-swap; the
  role of the device is read long before it is used; the cloud updates are a
  set of calls that complete in any order, of which one rejection abandons the
  others while they are still running; a restart leaves a record and half-done
  updates behind. It should leave every address with the device that is
  active, lose none of them, never leave the lock held by nobody, and end.
* **Configuration worker.** Every request of a process shares one object; the
  data group is created by a check followed by a creation; a declaration
  consists of a write, a save and two scripts. What was accepted should be in
  force after a restart.
* **Providers.** Discovery takes a snapshot that is executed later, by calls
  that are each retried, and that go on after one of them has rejected the
  update. Azure writes whole interfaces; GCP deletes routes and creates them
  again; AWS takes the Elastic IP off an address that it unassigns. They
  should lose no address and no route, end, and succeed only when everything
  is where it belongs.
* **Address selection.** What a device takes over is computed from lists that
  are read one by one while roles move, and names are compared by substring.
  No two devices should take one address, and no address should be missed.
* **REST worker.** What it skips, what it waits for, and that it answers.

`PROJECT.json` lists these hazards at the lines where they bite.

## 2. Modules

| module | what it is | extends or instantiates |
|---|---|---|
| `AddressOwnership` | what moving addresses promises: the abstract specification | |
| `AddressOwnershipProofs` | what follows from it | `AddressOwnership` |
| `FailoverTask` | the core: every device and request, the state file, the role, the cloud calls of AWS, faults and restarts | `AddressOwnership` |
| `FailoverTaskProofs`, `FailoverTaskSteps` | theorems about it: invariants; what no step does, that it implements `AddressOwnership`, and what undisturbed failovers achieve | `FailoverTask` |
| `AddressSelection`, `AddressSelectionProofs` | which addresses a device takes over and where it points its routes | |
| `AwsAddresses`, `AwsAddressesProofs` | Elastic IPs and secondary private addresses | |
| `AzureInterfaces`, `AzureInterfacesProofs` | ip configurations and user defined routes | |
| `GcpProvider`, `GcpProviderProofs` | alias ranges, forwarding rules and routes | `AddressOwnership` |
| `ConfigWorker`, `ConfigWorkerProofs` | declarations, data group, trigger scripts | |
| `MC...` | instances for TLC: symmetry, history variables, the properties that need them | `MCAwsAddresses`: `AddressOwnership` |
| `MCFailoverHistory` | `MCFailoverTask` with history variables: who holds the lock alone, and whether a failure blocks | `MCFailoverTask` |

How they fit together: `FailoverTask` takes as given that a device is active
and which addresses fail over, which `AddressSelection` computes; its cloud
calls are single calls that succeed or fail, which the modules of the providers
take apart into discoveries, stages and retries, without the state file. They
therefore assume nothing about how tasks exclude each other: tasks overlap
there as they do when the lock is lost or a task is held to have failed.
`AddressOwnership` is what they have in common.

`FailoverTask` and `ConfigWorker` share no variable: the declaration of the one
is fixed, and the other does not look at the state file. They meet where a
trigger reads the configuration (`failover.init()`), which can fail in both.

The theorems about properties that need a history variable are about `MCSpec`
of the `MC` module, which adds the variable to every step and forbids none.

What could come next: a module of the REST worker's dispatch and status codes;
the state file and one of the providers in one module, for the retries of a
task that lost the lock.

## 3. The core: `FailoverTask`

One step is one asynchronous call with the synchronous code that runs on its
result. A request `r` is at `pc[r]`:

| `pc` | code | action |
|---|---|---|
| idle | a request arrives, `init()` | `UserRequest`, `TakeOver` (`tgactive`), `Reconcile` (`tgrefresh`) |
| read, neverRun | `getTaskStateFile`, first use; the skip of `main.js:220` | `ReadStateFile`, `WriteNeverRun` |
| snapshot | `_getDeviceObjects` | `Snapshot` |
| wait | `_waitForTask`, `_checkTaskState`, `retrier` | `PollFree`, `PollRecover`, `PollAgain`, `GiveUp` |
| lock, recover | the first RUNNING upload of `execute()`, or of `_getRecoveryOperations` | `Lock`, `Recover` |
| discover | `_getTrafficGroups`, `_getFailoverDiscovery` | `Discover` |
| log | the second RUNNING upload, and the issue of the updates | `Log` |
| update | `updateAddresses`, `updateRoutes` | `DetachAddress`, `AttachAddress`, `UpdateRoute`, then `Pass` |
| fail | the catch of `execute()` | `Fail` |
| answer | the second `getTaskStateFile` of POST `/trigger` | `Answer` |
| reset | `resetFailoverState` | `Reset` |
| closed, crashed, unrecorded | answered; cut off by a restart while it held the lock; failed without being able to record it | |

`client[r]` is the `FailoverClient`, `work[r]` the calls it has issued to the
cloud and that have not come back. They outlive the request: after a rejection
or a restart, calls already issued still take effect, but the attach stage
does not start. `stateFile`, `owner` (the device whose interface holds an
address, or `Nowhere`) and `nextHop` are the shared world; `active` is the HA
role, which the environment moves. The trigger scripts make every change of
the role send a trigger to the device that gained it.

Abstractions:

* An address stands for the addresses one interface gives up to its
  counterpart in one call, a route for the routes one call redirects. The
  cloud's answers are those of the AWS provider: a detachment from an
  interface that no longer holds the address does nothing or fails, an
  attachment of an address that another interface holds is refused, a route is
  replaced wherever it points.
* A call that is retried by the provider is one call that succeeds or fails. A
  failed upload may have replaced the file all the same.
* One traffic group: `active` is a set of devices.
* `timestamp` is fresh or older than ten minutes (`TimePasses`).
* The polls of a running task are counted; `MaxRetries` stands for 400.
* The declaration is fixed, the same on every device.

`Done` allows stuttering once no request is in progress, so that TLC's deadlock
check finds every other way to get stuck; no configuration switches it off.

### Runs

| run | question | instance |
|---|---|---|
| `Overlap` | does the lock always have a holder, and does it exclude whoever comes after; is a detached address always somebody's to attach, and do addresses move as `AddressOwnership` says; does a failure without operations block every failover until a reset? | 2 devices, 2 addresses, 3 requests of any kind, 2 at a time, 2 role changes, 1 fault, 1 restart |
| `Serial` | do failovers that do not overlap do what they are for? | 2 addresses, 1 route, 4 requests one at a time, 3 role changes |
| `Answered` | is every request answered or lost with its device? | 2 requests at a time, 1 fault, 1 restart, slow cloud, fairness |

Two tasks at a time are enough for a race on the state file or on an address
(every pair of steps that conflict belongs to two requests), a third request
sees what they left behind. One retry is enough to reach both `PollAgain` and
`GiveUp`; two devices because a cluster has two. Symmetry (devices, addresses,
requests) is used for safety only.

The other runs confirm disagreements between the code and what the repository
says of it; each is a finding in `PROJECT.json`:

| run | what the repository says | what the code does |
|---|---|---|
| `Flapping` | recovers from flapping (contributing/README.md:259-274) | with three overlapping triggers, and nothing that fails or gives up, the standby device ends up with the addresses |
| `Recovery` | recovers failed events (contributing/README.md:44) | a recovering task records success without performing what it recovers |

The model has more behaviours of this kind that no run is kept for. With
`failoverAddresses` disabled (`AddressesEnabled` FALSE) the route discovery is at
index 0 of the updates and taken for the addresses (`failover.js:137`): no route
is ever updated, against contributing/README.md:14. The limit on
the time of a running task ("enforce maximum time allotment", `failover.js:497`)
reads `timeStamp`, while the state file has `timestamp`: it never applies
(`TimeDriftExceeded`). The record of a detached address is erased by the first
upload of the task that recovers it (`failover.js:376`), before anything is
recovered; `Recover` shows it. A status request that found no state file writes
NEVER_RUN (`failover.js:460`) over the record of a failover that started
meanwhile. After a restart in the middle of a task its RUNNING record makes the
device answer its own triggers with "Failover is already executing"
(`main.js:220`) until another device, or a reset, replaces the record.

The lock is two calls, a poll and an upload, so that two tasks that have both
polled a free file run side by side. `LockExcludes` says what it does all the
same, with the history variable `exclusive` of `MCFailoverHistory`: once a task
has put its record in the file and nobody else had found the file free before,
no other one gets through `_waitForTask` until it has finished its updates.
`FailureBlocks` is the other side of the record, with the history variable
`blocked`: a failure that leaves no operations, once the requests of the time
are over, keeps every later task of any device from taking the file, until a
user resets it.

In `Flapping` `MaxRetries` is large enough that no task gives up waiting: the
shortest trace has three changes of the role, three triggers that overlap, and no
rejected call; the bound is not reached.

`AddressesFollowActive`, `RoutesFollowActive` and `SuccessIsReal` thus hold in
`Serial`, which has neither overlap nor faults, and fail in the runs above:
the two together say under which circumstances the extension keeps its
promise.

### Fairness

`FairSpec` assumes weak fairness of the steps of every request and of its cloud
calls: promises settle (each call of the device, the storage and the cloud
comes back, with a result or an error), and the timer of the retrier fires.
Nothing is assumed of users, of the role, of faults, restarts or time. Node's
event loop runs every settled callback, so that a request that can continue
does.

## 4. Declarations: `ConfigWorker`

One device, its configuration worker, its data group and its two trigger
scripts. A request is at `pc[r]`:

| `pc` | code | action |
|---|---|---|
| idle | `processConfigRequest` up to the first call: validation, `setConfig` | `Declare`; `Get` for GET `/declare` |
| lookUp | `createDataGroup`: does the data group exist? | `LookUp` |
| modify, create | the write that follows from the answer | `Modify`, `Create` |
| save | `saveConfig` | `Save` |
| scripts | `Promise.all` of two `_updateTriggerScript`; each script goes from `cat` to `echo` to `done` in `job[r]` | `ReadScript`, `WriteScript`, then `ScriptsUpdated` |
| init | `failover.init()` | `Accept` |
| load | `_loadStateFromStore` | `Load` |

`this.state` is either the module's constant object or one parsed from the data
group. `isDefault` says which, `default` and `own` are the configurations of the
two: an assignment to the constant's config is seen by every later load that
finds no data group, and no load replaces `this.state`. `dataGroup` is in the
running configuration, `saved` in the one the device boots from.
`RestartProcess` loses the memory and the requests in progress,
`RebootDevice` also what was not saved; the scripts are files and stay.

Abstractions: a declaration is a model value, and whether it is valid a choice;
a script is whether it calls the failover script of old and how often it
triggers the extension (`Content`; the count stops at two, which is already
wrong). A call that fails may have had its effect all the same. After a script
has been rejected the request is answered, while the other script is carried
on, as `Promise.all` does. A shell command that a restart cuts off has either
taken place or not. That `JSON.parse` of the data group could fail is left out:
only the worker writes it.

| run | question | instance |
|---|---|---|
| `Declarations` | do the scripts trigger once, and does an accepted declaration survive a reboot, when requests overlap; is one that nothing overlapped the one in force, whatever came before? | 2 declarations, 3 requests at a time, 2 faults, 1 restart |

Two overlapping declarations make every race (on the memory, the data group or
a script), the third request sees or completes what they left. A declaration that
another request overlaps need not be the one in force when it is accepted;
`AcceptedAsDeclared` is therefore asked of the others, which the history
variable `alone` of `MCConfigWorker` tells. No configuration switches the deadlock check off.

The module has no liveness property: nothing in it waits for another request,
and each call is made once.

One more disagreement is in the model without a run of its own: a first
declaration that could not be stored has altered the module's constant
(`config.js:74`), and GET `/declare` lists it until the process restarts
(`config.js:103`, faq.rst:231).

## 5. What moving an address promises: `AddressOwnership`

The abstract specification has two variables: `owner`, the device that has each
address, and `claims`, who is to bring which address where. An address leaves a
device only while somebody claims it, arrives only from nowhere and on a claim
for that device, and a claim ends only when the address is where it was claimed
for. Everything else, when tasks start, fail, are retried or cut off, is left
open. From this alone follows that no address is forgotten (`NoneForgotten`).

| implementation | `owner` | `claims` | shown by |
|---|---|---|---|
| `FailoverTask` | `owner` | the operations in `attaching` and `stranded` | `Overlap`, theorem |
| `GcpProvider` | the device of the interface that has the alias range | the PATCHes in `attaching`, given up or not | `Gcp`, theorem |
| `AwsAddresses` | `owner`, of the private addresses | the addresses of the batches in `assigning` before their assignment, and what failed tasks have left of them (the history variable `claims`) | `Aws`, `AwsBatches`, theorem |

Azure does not implement it: a whole interface is written as it was read at
discovery, so that the PUT of one task drops what another one has added to the
interface meanwhile, and nobody claims the address that is lost.
`LostOnlyInTrouble` says what holds there instead: an address is lost only by a
task that failed, was cut off or was overlapped.

## 6. The Azure provider: `AzureInterfaces`

| code (`providers/azure/cloud.js`) | action |
|---|---|
| a role change, and the trigger that follows | `TakeOver` |
| `_discoverAddressOperations`, `_parseNics`, `_discoverRouteOperations` | `Discover` |
| `_updateAddresses`: PUT of one interface, in two stages | `PutInterface`, `PutFails` |
| `_updateRoutes`: PUT of one route | `PutRoute` |
| both have resolved | `Succeed` |
| the process is restarted | `Restart` |

A call carries the tries it has left (`_retrier`); when none is left its
`Promise.all` rejects, the stage is `broken` and the second one never comes,
while the other calls go on. A call that fails may have had its effect. After
a restart a call on its way takes effect once or not at all. An interface is
paired with the first interface of a peer that has its tag and an address that
is wanted. External: Azure refuses an address that another interface holds.

Run `Azure` (2 devices, 2 tags, 2 addresses, 3 tasks that start one after the
other, 2 tries, 2 faults, 1 restart) asks whether a task that nothing overlaps
moves what it wants to the interface of the same tag and nothing else
(`SuccessDelivers`), whether after such tasks every address is with the device
its group is active on (`AddressesFollowActive`), and what can lose an address
(`LostOnlyInTrouble`). `Overlapping` is FALSE: tasks start when no other one is
open, but the calls of tasks that failed or were cut off are still under way,
which is what remains of overlap when the state file does its work. The history
variable `alone` of `MCAzureInterfaces` tells the tasks that even those have not
touched. Three tasks are one that moves, one whose calls are left over, and one
that meets them; two tries are one retry; two tags make a task with two
interfaces in each stage.

## 7. The GCP provider: `GcpProvider`

| code (`providers/gcp/cloud.js`) | action |
|---|---|
| `_discoverNicOperations`, `_discoverFwdRuleOperations`, `_discoverRouteOperations` | `Discover` |
| the listing of the instances at the start of `updateAddresses` | `Refresh` |
| `_updateNics`: PATCH of one interface, in two stages | `Detach`, `Attach` |
| `_updateFwdRules`: `setTarget` | `UpdateRule` |
| `_updateRoutes`: all deletions, then all creations, without retries | `DeleteRoute`, `CreateRoute` |
| Google carries out a creation that it has accepted | `InsertRoute` (external) |

Interfaces are written as they were read, as in Azure, but with the fingerprint
they were read with: GCP refuses a PATCH of an interface that has changed since
(external, as is that one alias range is on one interface). That is what makes
the provider implement `AddressOwnership` where Azure does not. `routesLost`
says that a deletion or creation has been rejected or cut off, after which no
more creations are issued. A route is known by the id it got when it was
created, so that a deletion of one that another task has recreated is rejected.

A deletion is waited for until its operation has ended (`operation.promise()`,
`cloud.js:920-924`); a creation is not (`cloud.js:926-932`): the POST resolves
when Google has accepted it. The model has the two apart: `CreateRoute` is the
POST, `inserting` the operations that Google is still at, `InsertRoute` their
end, which nobody reads if it is an error (`refused`). A restart of the device
does not stop them.

Whether a forwarding rule has to be updated is tested with indexOf on the URL it
sends to (`cloud.js:757`). `NameWithin` is the relation that indexOf computes:
the name of our target instance occurs in the URL of theirs, as `ti-1` does in
`.../targetInstances/ti-10` (`NamesOurs`). Nothing is assumed of it but that each
name occurs in its own URL.

| run | question | instance |
|---|---|---|
| `Gcp` | does every missing route have a task, or an operation of Google's, that answers for it (`MissingRouteIsCarried`); is a success by oneself as complete as the code makes it (`SuccessDelivers`); do alias ranges move as `AddressOwnership` says, and stay on interfaces of one name (`NicKept`, with the history variable `home`)? | 2 devices of which one's name is within the other's, 2 interfaces each, 1 alias range, 1 rule, 1 route, 2 overlapping tasks, 2 tries, 2 faults, 1 restart |

With two tasks every race on an interface or a route happens. One alias range is
enough for stale PATCHes (the interface changes when it leaves) and for ranges
on the wrong interface; a second one on the same interface, or a second route,
adds no conflict of another kind, and the theorems are about any number.

`SuccessDelivers` says what a success means: the alias ranges are there, a rule
sends to the device or to an instance whose URL contains its name, and a
route exists with the device as its hop or is with Google. That this is less
than one would expect are disagreements that the model has without a run of
their own, each with a single task that succeeds:

* an accepted creation ends in an error, and the route that was "Updated routes
  successfully" (`cloud.js:934`) does not exist, nor does any later discovery
  find it;
* the name of the device's target instance occurs in that of its peer's, and
  the rule stays with the standby device, although "Forwarding rule targets [...]
  are associated with the network interface of the active BIG-IP device"
  (contributing/README.md:258).

Another one is a failure: a device that is active but wants no addresses has
nothing to do ("No failoverAddresses to discover", `cloud.js:588`), and yet its
update throws on the fields that `_discoverAddressOperations` then leaves out
(`Refresh`), and the task fails.

Near `cloud.js:745` the code tests the length of one list of target instances
and takes the first element of another; the labels involved are not modelled.

## 8. The AWS provider: `AwsAddresses`

| code (`providers/aws/cloud.js`) | action |
|---|---|
| `_discoverAddressOperations` and its three listings | `Discover` |
| `_disassociatePublicAddress`, `_associatePublicAddress` | `Free`, `Take` |
| `_disassociateAddressFromNic` | `Unassign` |
| `_associateAddressToNic`: one call for all addresses of an interface | `Assign` |
| `_reassociatePublicAddressToNic`, for each address that had an Elastic IP | `Chain`: `LookUp`, `FreeElastic`, `Bind` |

Public and private addresses move side by side, each in two stages. Private
addresses move in batches, one for each peer's interface: one call unassigns all
of them (`Unassigning`), one function assigns them (`Assigning`). AWS takes
the Elastic IP off a private address that is unassigned; the task remembers
which addresses had one (`public`). When a batch has been assigned it starts a
chain of up to three calls for each of those (`chains`), and waits for them.

`_retrier` repeats the function of the batch. When one chain is rejected the
batch is assigned again, with new chains for all its addresses, and the other
chains of the attempt before go on, waited for by nobody (`WaitsFor` compares
the tries that were left when an attempt started; `Abandoned`). What they do
still takes effect. An association is known by its id, the task and attempt
that made it; freeing by an id that has changed is rejected or does nothing,
and associating again what is already associated may keep the id (external, as
is that an address is refused while another interface has it). A device has one
interface here that addresses fail over to: several are several batches, which
share no address.

| run | question | instance |
|---|---|---|
| `Aws` | has a task that succeeds by itself moved everything (`SuccessDelivers`); do private addresses move as `AddressOwnership` says; does every update end with all its calls (`UpdatesEnd`)? | 2 devices, 1 tagged Elastic IP, 1 secondary address with or without one, 2 overlapping tasks, 2 tries, 1 fault, 1 restart |
| `AwsBatches` | who can lose the Elastic IP of an address (`ElasticLostInTrouble`, with the history variables `had`, `alone` and `strayed`), and does `AddressOwnership` still hold? | 2 secondary addresses in one batch, each with or without an Elastic IP, 2 tasks one after the other, 2 tries, 2 faults |

`UpdatesEnd` is under `Fairness`: calls come back and the timers of `_retrier`
fire, which Node's event loop guarantees as long as each call ends or times out.
In `AwsBatches` tasks start one after the other, but the calls and abandoned
chains of the first are still under way when the second starts. Two addresses
are the one whose chain is rejected and the one whose chain goes on; the two
faults are its rejection and that of the chain that goes on.

`ElasticLostInTrouble` says: an Elastic IP is lost only by a task that has
not succeeded, or was overlapped, or has a chain for it under way, or whose last
chain for it was an abandoned one. The last case is real, and is the finding
`AwsReassociated`: a single task, two addresses, two rejected calls. The chain of
the first address is rejected and the batch assigned again; the second address
is associated by its new chain; then its old chain takes the Elastic IP off, and
is rejected before it has associated it again, which nobody learns. The task has
succeeded "when all addresses are reassociated" (`cloud.js:686`), and the address
has no Elastic IP. The new attempt starts after `_retrier`'s interval, so that the
old chain must be that slow or itself delayed.

That an Elastic IP can be forgotten at all is worth knowing: after a failover
cut off between the unassignment and the association the next task finds the
address without an Elastic IP, or does not find it, and nothing tells it that
there was one.

## 9. What a device takes over: `AddressSelection`

`FailoverTask` has one traffic group and a fixed set of addresses. Here groups,
self IPs, virtual addresses, SNATs and NATs are configured, a device's task
reads the statistics, the self IPs and the floating addresses in any order
(`Read`), while groups move (`MoveGroup`), users edit (`Reassign`) and tags
disappear (`Untag`), and then selects (`Select`: `_getTrafficGroups`,
`_getFailoverAddresses`, `_parseConfig`, and `_discoverNextHopAddress` of
`providers/abstract/cloud.js`). Strings are names; `Contains` is the relation
that indexOf computes between them, and `Bare` strips mask and route domain.

Run `Selection` has two groups of which one name contains the other
(traffic-group-1 and traffic-group-10), a NAT that differs from a self IP only
in its route domain, and two ranges of which one is a suffix of the other, with
two changes while the lists are read. `TakenTwiceOnlyByName` says in which
three ways two devices that saw the same cluster can take the same address:
hostnames overlap, group names overlap, or addresses coincide once stripped.
The instance reaches the second and third; overlapping hostnames are covered by
the theorem. `NoneMissed` and `NextHopsDiffer` are about the other half.

## 10. Proofs

### `FailoverTaskProofs`

For every set of devices, addresses, routes and requests, every switch of the
declaration and every bound, from the assumptions named in `FailoverTask`
(addresses and routes are different things, the bounds are natural numbers,
at least one poll, no device is called "none" or "nowhere"):

* `TypeCorrect`: `Spec => []TypeOK`;
* `LockNeverLeaks`: `Spec => []LockHasHolder`;
* `NoAddressFallsBetween`: `Spec => []UnassignedIsCarried`.

They follow from `Invariance`: `Spec => []IInv`, where `IInv` is the conjunction of
the three and of what makes them inductive: `HostKnown` (a request that is under
way has a device, so that what its discovery lists is well formed) and
`WorkOrdered` (a request that has not issued its updates carries nothing; what
is to be detached is to be attached; in the attach stage nothing is left to be
detached). Without the last part a detached address could be dropped together
with its operation. There is one lemma for each conjunct, with one step for
each action.

### `ConfigWorkerProofs`

For every set of declarations, scripts and requests and every bound, from the
assumptions named in `ConfigWorker` (the markers for "nothing declared" and "no
data group" are not declarations, the bounds are natural numbers):

* `TypeCorrect`: `Spec => []TypeOK`;
* `ScriptsTriggerOnce`: `Spec => []TriggersOnce`;
* `DeclarationPersists`: `Spec => []AcceptedSurvives`;
* `DeclarationInForce`: `MCSpec => AcceptedAsDeclared`.

The inductive invariant adds to these what each request knows while it is under
way: `EchoesUntriggered` (what it is about to write was read without a trigger,
so that two writers write the same count), `CarriesDeclaration` and `StoreKept`
(what is written, and then saved, is a declaration: a data group that exists is
never removed by the extension, and a reboot removes it only with the requests
that relied on it) and `ScriptsKept` (a request that waits for its scripts is
done only with those that trigger: a rejected script makes it leave the
wait). `ScriptStep` states the one change a step can make to a script; the
lemmas for each conjunct use it.

`DeclarationInForce` has an invariant of its own, `HInv`: `Sole` (a request that
nobody has overlapped is the only open one) and `InForce`, how far it has come:
memory holds its declaration from the start, the data group from the write,
the saved configuration from the save, and the answer shows it at the end.
Nothing is asked of the requests before it, whose abandoned scripts may still
be written meanwhile.

### `FailoverTaskSteps`

From the same assumptions as `FailoverTaskProofs`, what no step does:

* `Exclusion`: `MCSpec => LockExcludes`, over the history variable `exclusive` of
  `MCFailoverHistory`. While a task is alone, from its poll to the end of its
  updates, the record in the state file is its own RUNNING record, because
  everybody else who would write it has to poll first; and a poll that finds it
  goes on waiting (the time limit never applies).
* `FailureBlocksAll`: `MCSpec => []FailureBlocks`. Every task that comes while the
  record stands polls it, finds nothing to recover and records the same failure
  again; and nobody but these writes it.
* `Implementation`: `Spec => ImplementsOwnership`. `StepOfOwnership` restates a
  step of the abstract specification in terms of the operations of the
  requests; then each action keeps the claims, or meets the one it ends, and
  `WorkOrdered` provides the claim when an address is detached.

And what failovers achieve when nothing disturbs them:

* `AddressesDelivered`: `Undisturbed` and `Spec` give `[]AddressesFollowActive`;
* `RoutesDelivered`: with `RoutesEnabled` also `[]RoutesFollowActive`;
* `SuccessesReal`: `[]SuccessIsReal`.

`Undisturbed` are the circumstances of run `Serial`: one request at a time,
finitely many of them, no fault, no restart, and `failoverAddresses` enabled.
They are not weakened further because the promise fails without them: runs
`Flapping` (requests that overlap) and `Recovery` (a fault) are the
counterexamples, and with addresses disabled no route moves at all. One request at a time includes the
ones that changes of the role send, so that the role moves between requests,
any number of times; user requests of every kind come in between, and the
numbers of devices, addresses, routes and requests are arbitrary.

`SInv` is the invariant. `Smooth`: a task comes through without failing, and has
nothing in hand unless it updates the cloud. `Current`: what it has read of the
role and of the cloud is still so when it is used. `Performing`: what it has
still to detach, attach or redirect it can, and the rest is on its device.
`Following`: the device that is alone active has everything, or the request
that is in progress is about to see to it. `AddressesFollowActive` and
`RoutesFollowActive` are not inductive by themselves: they speak only of the
moments when nothing is in progress.

### `AddressOwnershipProofs`

* `NothingForgotten`: what every implementation inherits. It needs that `Nowhere`
  is not a device.

### `GcpProviderProofs`

For every set of devices, interfaces, alias ranges, rules, routes and tasks and
every bound, from the assumptions named in `GcpProvider`:

* `TypeCorrect`: `Spec => []TypeOK`, and with it that no call is tried more often
  than the retrier allows;
* `RoutesCarried`: `Spec => []MissingRouteIsCarried`;
* `Implementation`: `Spec => ImplementsOwnership`;
* `NicNames`: `MCSpec => []NicKept`;
* `Delivery`: `MCSpec => SuccessDelivers`.

`IInv` adds `Orderly` (a task under way has a device, and nothing to do before its
discovery), `Paired` (what is to be detached is to be attached, and nothing is
left to detach in the attach stage), `Single` (a range is on one interface at
most), `RoutesInOrder` (a task that has lost a deletion or a creation has failed)
and `Answered`, the strengthening of `MissingRouteIsCarried`: what answers for a
missing route is a task that has failed, or has deletions left, or still has to
ask for the creation of this very route, or else an operation that Google has
accepted for it. Without the last part a task could pass from its last deletion
to success.

The last two theorems rest on `HInv`, over the history variables `home` and
`alone`. `HomeKept` (a range is still to be attached only where the names are
those it had at first) makes `NicKept` inductive. For `Delivery`, a task that
nobody has overlapped is the only one under way (`OneBusy`), and `OnItsWay` says
how far it has come: every range it wants that some interface has is on its own
device or still to be detached (`Freed`), every rule it wants has a target whose
URL contains its name or a call for it (`Pointed`), every route that exists leads
there or is to be deleted (`Redirected`), and one that it has deleted is there
again, or to be asked for, or with Google (`Recreated`). What a failed or cut off task left behind is
included: the task starts from whatever it discovers.

### `AzureInterfacesProofs`

For every set of devices, tags, addresses, routes and tasks, overlapping or
not, and every bound, from the assumptions named in `AzureInterfaces`:

* `TypeCorrect`: `MCSpec => []TypeOK`;
* `NoQuietLoss`: `MCSpec => []LostOnlyInTrouble`;
* `Delivery`: with two devices at most, `MCSpec => SuccessDelivers`;
* `FollowActive`: with two devices at most, `MCSpec => []AddressesFollowActive`.

`AtMostTwoDevices` is what the user guide supports ("2 BIG-IP systems in
Active/Standby", docs/userguide/azure.rst:14). The invariant says of a task that
nobody has overlapped that every interface outside its pairs is as it was read
(`Untouched`), and one in a pair as it is to be written or still to be written
(`Written`); `Complete` and `Paired` say that its pairs cover all that is
wanted, each tag once; `SawAll` that it has read every address if none can have
been lost before. `LostOnlyInTrouble` would not be inductive without the last.

### `AwsAddressesProofs`

For every set of devices, Elastic IPs, addresses and tasks, overlapping or not,
and every bound, from the assumptions named in `AwsAddresses`:

* `TypeCorrect`: `MCSpec => []TypeOK`;
* `ElasticKept`: `MCSpec => []ElasticLostInTrouble`;
* `Delivery`: `MCSpec => SuccessDelivers`;
* `Implementation`: `MCSpec => ImplementsOwnership`.

`Staged` orders the two stages, on each side. `OnItsWay` follows a task that
nobody has overlapped: an Elastic IP is with its device or has a call that will
take it (`Taken`), an address is with its device, with nobody, or about to be
unassigned (`Unassigned`), and the Elastic IP that an unassignment takes off is
bound again, or its address is in a batch still to be assigned, or has a chain,
or lost it to an abandoned one (`Rebound`; `Looking` says what the chains look
for). When a task succeeds no batch waits for a chain, so that what chains are
left are abandoned: whichever ends last has bound the Elastic IP or is in
`strayed`. `LostBefore` keeps the blame where it belongs: an address that was
discovered without the Elastic IP it once had was left so by another task.

For `Implementation`, `CInv` adds that what is to be assigned is claimed and that
the other claims are those of tasks that have failed or were cut off
(`Claiming`), so that an address that is unassigned, which `Staged` has in a
batch that is not assigned yet, is claimed. What remains is that a task in good
standing lets go of an address only where it has assigned it.

### `AddressSelectionProofs`

For every cluster, configuration and declaration and every relation between the
names that contains each name with itself:

* `TypeCorrect`: `Spec => []TypeOK`; a next hop that is chosen is an address;
* `OnlyByName`: `Spec => []TakenTwiceOnlyByName`;
* `Complete`: `Spec => []NoneMissed`;
* `HopsApart`: `Spec => []NextHopsDiffer`.

`Chosen` ties what a finished task holds to what it read, which nothing touches
until its next task.

### What is left to TLC

Only model-checked: liveness (`EveryRequestAnswered`, `UpdatesEnd`), which needs
fairness and ENABLED, out of the prover's reach. Every invariant, every action
property and every refinement of the passing runs is stated by a theorem. That
a promise fails is shown by the runs that expect a violation. The proofs use no
recursive operator.

## 11. Not modelled

* `/inspect` and `/info` (`getFailoverStatusAndObjects`) change no state; nor
  does the dispatch of requests to 400 and 405 answers. POST `/trigger` answers
  with `taskState.code` (`main.js:228`), which nothing has set on that path: a
  matter of one line that a model adds nothing to.
* The providers' `init`: metadata, tokens and credentials, the lookup of the
  bucket or storage account. They keep what they read once and do not change it;
  when one fails, `init()` fails, which `Arrive` has.
* The discovery of the management port in the device client, and the log level
  in the configuration worker.
* The validator and the schema: whether a declaration is valid is a choice in
  `ConfigWorker`. The cloud factory, the logger and telemetry keep no state that
  another part reads.
* Scripts, packaging, documentation and examples are not part of the running
  extension.
