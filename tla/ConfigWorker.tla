---------------------------- MODULE ConfigWorker ----------------------------
(***************************************************************************)
(* The configuration of one device: POST and GET /declare                  *)
(* (restWorkers/main.js), the configuration worker that serves them        *)
(* (config.js), the data group it keeps the declaration in (device.js) and *)
(* the two scripts through which the cluster triggers a failover.          *)
(*                                                                         *)
(* One step is one call of the device together with the code that runs on  *)
(* its result.  All requests of a process share this.state; requests       *)
(* overlap, calls fail, the process restarts and the device reboots.       *)
(***************************************************************************)
EXTENDS Naturals, FiniteSets

CONSTANTS
  Declarations,  \* the valid declarations
  Scripts,       \* the trigger scripts, tgactive and tgrefresh
  Requests,      \* slots for REST requests, each used at most once
  MaxOpen,       \* bound: requests in progress at the same time
  MaxFaults,     \* bound: calls that fail
  MaxRestarts    \* bound: restarts of the process and reboots of the device

Blank  == "{}"      \* the config of DFL_OBJECT_IN_STATE before anyone changes it
Absent == "absent"  \* there is no data group

ASSUME DeclarationAssumption == {Blank, Absent} \cap Declarations = {}
ASSUME BoundAssumption ==
  MaxOpen \in Nat /\ MaxFaults \in Nat /\ MaxRestarts \in Nat

VARIABLES
  default,    \* the config of DFL_OBJECT_IN_STATE
  isDefault,  \* this.state is that very object
  own,        \* the config of this.state when it is an object of its own
  dataGroup,  \* the data group in the running configuration of the device
  saved,      \* the data group in the configuration the device boots from
  script,     \* the contents of each trigger script
  pc,         \* where each request is
  declared,   \* the declaration each request carries
  answer,     \* the declaration each request is answered with
  job,        \* where each request is with each script
  contents,   \* what each request has read of each script
  faults, restarts

memory == <<default, isDefault, own>>
device == <<dataGroup, saved, script>>
vars   == <<memory, device, pc, declared, answer, job, contents, faults, restarts>>

-----------------------------------------------------------------------------
Config == Declarations \cup {Blank}
Stored == Declarations \cup {Absent}

\* What matters of a script: whether it calls the failover script of old, and
\* how often it triggers the extension.
Content == [legacy : {"absent", "enabled", "disabled"}, triggers : 0..2]

Open     == {"lookUp", "modify", "create", "save", "scripts", "init", "load"}
Finished == {"accepted", "listed", "refused", "lost"}

TypeOK ==
  /\ default \in Config /\ isDefault \in BOOLEAN /\ own \in Config
  /\ dataGroup \in Stored /\ saved \in Stored
  /\ script \in [Scripts -> Content]
  /\ pc \in [Requests -> {"idle"} \cup Open \cup Finished]
  /\ declared \in [Requests -> Config]
  /\ answer \in [Requests -> Config]
  /\ job \in [Requests -> [Scripts -> {"none", "cat", "echo", "done"}]]
  /\ contents \in [Requests -> [Scripts -> Content]]
  /\ faults \in 0..MaxFaults /\ restarts \in 0..MaxRestarts

\* A process that has started on a device nobody has declared anything to.
Init ==
  /\ default = Blank /\ isDefault = TRUE /\ own = Blank
  /\ dataGroup = Absent /\ saved = Absent
  /\ script \in [Scripts -> [legacy : {"absent", "enabled"}, triggers : {0}]]
  /\ pc = [r \in Requests |-> "idle"]
  /\ declared = [r \in Requests |-> Blank]
  /\ answer = [r \in Requests |-> Blank]
  /\ job = [r \in Requests |-> [s \in Scripts |-> "none"]]
  /\ contents = [r \in Requests |->
                   [s \in Scripts |-> [legacy |-> "absent", triggers |-> 0]]]
  /\ faults = 0 /\ restarts = 0

-----------------------------------------------------------------------------
Goto(r, where) == pc' = [pc EXCEPT ![r] = where]
Fault   == faults < MaxFaults /\ faults' = faults + 1
NoFault == UNCHANGED faults

\* A call of request r is rejected: the answer is a 500.
Refuse(r) == Fault /\ Goto(r, "refused")

\* this.state.config.
Current == IF isDefault THEN default ELSE own

\* Variant of the next definition: a missing data group is not told apart.
LoadedAsFound == dataGroup

\* _loadStateFromStore: without a data group, DFL_OBJECT_IN_STATE itself.
LoadedFromStore == IF dataGroup = Absent THEN default ELSE dataGroup

Room == Cardinality({q \in Requests : pc[q] \in Open}) < MaxOpen

-----------------------------------------------------------------------------
(* POST /declare.                                                          *)

\* A declaration that is not valid is refused.  setConfig puts a valid one
\* into this.state before anything is stored.
Declare(r, c) ==
  /\ pc[r] = "idle" /\ Room
  /\ \/ /\ Goto(r, "lookUp")
        /\ declared' = [declared EXCEPT ![r] = c]
        /\ IF isDefault THEN default' = c /\ UNCHANGED own
                        ELSE own' = c /\ UNCHANGED default
     \/ Goto(r, "refused") /\ UNCHANGED <<declared, default, own>>
  /\ UNCHANGED <<isDefault, device, answer, job, contents, faults, restarts>>

\* createDataGroup asks first whether the data group exists.
LookUp(r) ==
  /\ pc[r] = "lookUp"
  /\ \/ Goto(r, IF dataGroup = Absent THEN "create" ELSE "modify") /\ NoFault
     \/ Refuse(r)
  /\ UNCHANGED <<memory, device, declared, answer, job, contents, restarts>>

\* The record was encoded when the request arrived.
Written(r) == declared[r]

Modify(r) ==
  /\ pc[r] = "modify"
  /\ \/ dataGroup' = Written(r) /\ Goto(r, "save") /\ NoFault
     \/ dataGroup' \in {dataGroup, Written(r)} /\ Refuse(r)
  /\ UNCHANGED <<memory, saved, script, declared, answer, job, contents, restarts>>

\* The device refuses to create a data group that has come to exist meanwhile.
Create(r) ==
  /\ pc[r] = "create"
  /\ \/ dataGroup = Absent /\ dataGroup' = Written(r) /\ Goto(r, "save") /\ NoFault
     \/ dataGroup # Absent /\ UNCHANGED dataGroup /\ Goto(r, "refused") /\ NoFault
     \/ dataGroup = Absent /\ dataGroup' \in {dataGroup, Written(r)} /\ Refuse(r)
  /\ UNCHANGED <<memory, saved, script, declared, answer, job, contents, restarts>>

\* Variant of the next definition: the running configuration is not saved.
SavedAlready == saved

SavedConfig == dataGroup

\* saveConfig; the scripts are read next, both at once.
Save(r) ==
  /\ pc[r] = "save"
  /\ \/ /\ saved' = SavedConfig /\ Goto(r, "scripts") /\ NoFault
        /\ job' = [job EXCEPT ![r] = [s \in Scripts |-> "cat"]]
     \/ saved' \in {saved, SavedConfig} /\ Refuse(r) /\ UNCHANGED job
  /\ UNCHANGED <<memory, dataGroup, script, declared, answer, contents, restarts>>

-----------------------------------------------------------------------------
(* _updateTriggerScript: the script is read and, when it has to change,    *)
(* written as a whole.                                                     *)

\* Promise.all of the two scripts rejects; the other one is carried on.
Abandon(r) ==
  /\ Fault
  /\ pc' = [pc EXCEPT ![r] = IF @ = "scripts" THEN "refused" ELSE @]

\* Variant of the next definition: the comment is not looked for.
AlwaysInstalls(content) == TRUE

NeedsTrigger(content) == content.triggers = 0

ReadScript(r, s) ==
  /\ job[r][s] = "cat"
  /\ \/ /\ contents' = [contents EXCEPT ![r][s] = script[s]]
        /\ job' = [job EXCEPT ![r][s] = IF NeedsTrigger(script[s]) THEN "echo" ELSE "done"]
        /\ NoFault
        /\ UNCHANGED pc
     \/ job' = [job EXCEPT ![r][s] = "done"] /\ Abandon(r) /\ UNCHANGED contents
  /\ UNCHANGED <<memory, device, declared, answer, restarts>>

\* The call of the old script is commented out, the trigger appended.
WithTrigger(content) ==
  [legacy   |-> IF content.legacy = "enabled" THEN "disabled" ELSE content.legacy,
   triggers |-> IF content.triggers < 2 THEN content.triggers + 1 ELSE 2]

WriteScript(r, s) ==
  /\ job[r][s] = "echo"
  /\ job' = [job EXCEPT ![r][s] = "done"]
  /\ \/ /\ script' = [script EXCEPT ![s] = WithTrigger(contents[r][s])]
        /\ NoFault
        /\ UNCHANGED pc
     \/ /\ script' \in {script, [script EXCEPT ![s] = WithTrigger(contents[r][s])]}
        /\ Abandon(r)
  /\ UNCHANGED <<memory, dataGroup, saved, declared, answer, contents, restarts>>

\* Variant of the next definition: the first script to be done is enough.
SomeScriptDone(r) == \E s \in Scripts : job[r][s] = "done"

ScriptsDone(r) == \A s \in Scripts : job[r][s] = "done"

\* The answer will be this.state.config as it is now.
ScriptsUpdated(r) ==
  /\ pc[r] = "scripts" /\ ScriptsDone(r)
  /\ answer' = [answer EXCEPT ![r] = Current]
  /\ Goto(r, "init")
  /\ UNCHANGED <<memory, device, declared, job, contents, faults, restarts>>

\* failover.init(): the configuration is loaded again, and the provider it
\* names and the device must initialise.
Accept(r) ==
  /\ pc[r] = "init"
  /\ \/ Goto(r, IF LoadedFromStore = Blank THEN "refused" ELSE "accepted") /\ NoFault
     \/ Refuse(r)
  /\ UNCHANGED <<memory, device, declared, answer, job, contents, restarts>>

-----------------------------------------------------------------------------
(* GET /declare.                                                           *)

Get(r) ==
  /\ pc[r] = "idle" /\ Room
  /\ Goto(r, "load")
  /\ UNCHANGED <<memory, device, declared, answer, job, contents, faults, restarts>>

Load(r) ==
  /\ pc[r] = "load"
  /\ \/ /\ answer' = [answer EXCEPT ![r] = LoadedFromStore]
        /\ Goto(r, "listed") /\ NoFault
     \/ Refuse(r) /\ UNCHANGED answer
  /\ UNCHANGED <<memory, device, declared, job, contents, restarts>>

-----------------------------------------------------------------------------
(* Restarts.                                                               *)

\* init() of a new process: DFL_OBJECT_IN_STATE is new, and this.state is that
\* object or the one parsed from the data group.
StartWith(stored) ==
  /\ default' = Blank
  /\ isDefault' = (stored = Absent)
  /\ own' = IF stored = Absent THEN Blank ELSE stored
  /\ restarts < MaxRestarts /\ restarts' = restarts + 1
  /\ pc' = [r \in Requests |-> IF pc[r] \in Open THEN "lost" ELSE pc[r]]
  /\ job' = [r \in Requests |-> [s \in Scripts |-> "none"]]
  /\ UNCHANGED <<script, saved, declared, answer, contents, faults>>

RestartProcess == StartWith(dataGroup) /\ UNCHANGED dataGroup

\* The device boots from its saved configuration.
RebootDevice == StartWith(saved) /\ dataGroup' = saved

Quiet == \A r \in Requests :
  pc[r] \notin Open /\ \A s \in Scripts : job[r][s] \notin {"cat", "echo"}

\* Every slot for a request may have been used.
Done == Quiet /\ UNCHANGED vars

Next ==
  \/ \E r \in Requests :
       \/ \E c \in Declarations : Declare(r, c)
       \/ LookUp(r) \/ Modify(r) \/ Create(r) \/ Save(r)
       \/ \E s \in Scripts : ReadScript(r, s) \/ WriteScript(r, s)
       \/ ScriptsUpdated(r) \/ Accept(r)
       \/ Get(r) \/ Load(r)
  \/ RestartProcess \/ RebootDevice
  \/ Done

Spec == Init /\ [][Next]_vars

-----------------------------------------------------------------------------
(* Properties.                                                             *)

\* However declarations overlap, fail or are cut off, a script triggers the
\* extension at most once, and not together with the failover script of old:
\* two failovers at a time would undo each other's work.
TriggersOnce ==
  \A s \in Scripts : /\ script[s].triggers <= 1
                     /\ script[s].triggers = 1 => script[s].legacy # "enabled"

\* "it will be saved to the persistent BIG-IP configuration store which is
\* loaded on reboot": once a declaration has been accepted the device boots
\* with a declaration, and both scripts trigger the extension.
AcceptedSurvives ==
  \A r \in Requests : pc[r] = "accepted" =>
    saved # Absent /\ \A s \in Scripts : script[s].triggers > 0
=============================================================================
