------------------------- MODULE ConfigWorkerProofs -------------------------
(***************************************************************************)
(* Theorems about ConfigWorker, for every set of declarations, scripts and *)
(* requests and every bound.                                               *)
(***************************************************************************)
EXTENDS MCConfigWorker, TLAPS

\* A script that a request is about to write has not been triggered from yet
\* in the contents the request has read.
EchoesUntriggered ==
  \A r \in Requests, s \in Scripts : job[r][s] = "echo" => contents[r][s].triggers = 0

\* A request that is about to store something carries a declaration.
CarriesDeclaration ==
  \A r \in Requests :
    pc[r] \in {"lookUp", "modify", "create", "save"} => declared[r] \in Declarations

\* A request that has looked the data group up modifies or saves one that
\* exists, and from the scripts on the device boots with a declaration.
StoreKept ==
  \A r \in Requests :
    /\ pc[r] \in {"modify", "save"} => dataGroup # Absent
    /\ pc[r] \in {"scripts", "init", "accepted"} => saved # Absent

\* A request that waits for its scripts has not finished with one that does
\* not trigger the extension; past the scripts none is left.
ScriptsKept ==
  \A r \in Requests, s \in Scripts :
    /\ pc[r] = "scripts" /\ job[r][s] = "done" => script[s].triggers > 0
    /\ pc[r] \in {"init", "accepted"} => script[s].triggers > 0

IInv ==
  /\ TypeOK /\ CarriesDeclaration /\ EchoesUntriggered
  /\ TriggersOnce /\ StoreKept /\ ScriptsKept

\* Writing a script that does not trigger the extension yet.
LEMMA WithTriggerTyping ==
  ASSUME NEW content \in Content
  PROVE  /\ WithTrigger(content) \in Content
         /\ WithTrigger(content).triggers > 0
         /\ WithTrigger(content).legacy # "enabled"
         /\ content.triggers = 0 => WithTrigger(content).triggers = 1
BY DEF WithTrigger, Content

\* What is kept of each request for each script, with one entry changed.
LEMMA EntryChanged ==
  ASSUME NEW Values, NEW f \in [Requests -> [Scripts -> Values]],
         NEW r \in Requests, NEW s \in Scripts, NEW v \in Values,
         NEW g, g = [f EXCEPT ![r][s] = v]
  PROVE  /\ g \in [Requests -> [Scripts -> Values]]
         /\ g[r][s] = v
         /\ \A q \in Requests, t \in Scripts : q # r \/ t # s => g[q][t] = f[q][t]
<1>1. g = [f EXCEPT ![r] = [f[r] EXCEPT ![s] = v]]
  OBVIOUS
<1>2. [f[r] EXCEPT ![s] = v] \in [Scripts -> Values]
  OBVIOUS
<1>. QED
  BY <1>1, <1>2

\* A rejected call is counted.
LEMMA FaultTyping ==
  ASSUME faults \in 0..MaxFaults, Fault \/ NoFault
  PROVE  faults' \in 0..MaxFaults
BY BoundAssumption DEF Fault, NoFault

\* What a load returns is a configuration.
LEMMA LoadTyping ==
  ASSUME TypeOK
  PROVE  LoadedFromStore \in Config /\ Current \in Config
BY DEF TypeOK, LoadedFromStore, Current, Config, Stored

\* The invariant holds when the process starts.
LEMMA InitIInv == Init => IInv
<1>. SUFFICES ASSUME Init PROVE IInv
  OBVIOUS
<1>1. TypeOK
  BY BoundAssumption DEF Init, TypeOK, Config, Stored, Content
<1>2. CarriesDeclaration /\ EchoesUntriggered /\ StoreKept /\ ScriptsKept
  BY DEF Init, CarriesDeclaration, EchoesUntriggered, StoreKept, ScriptsKept
<1>3. TriggersOnce
  BY DEF Init, TriggersOnce
<1>. QED
  BY <1>1, <1>2, <1>3 DEF IInv

\* Every step keeps the state well typed.
LEMMA NextTypeOK == TypeOK /\ CarriesDeclaration /\ [Next]_vars => TypeOK'
<1>. SUFFICES ASSUME TypeOK, CarriesDeclaration, [Next]_vars PROVE TypeOK'
  OBVIOUS
<1>. USE DEF TypeOK, memory, device
<1>1. ASSUME NEW r \in Requests, NEW c \in Declarations, Declare(r, c) PROVE TypeOK'
  <2>1. pc' \in [Requests -> {"idle"} \cup Open \cup Finished]
    BY <1>1 DEF Declare, Goto, Open, Finished
  <2>2. default' \in Config /\ own' \in Config /\ declared' \in [Requests -> Config]
    BY <1>1 DEF Declare, Config
  <2>. QED
    BY <1>1, <2>1, <2>2 DEF Declare
<1>2. ASSUME NEW r \in Requests, LookUp(r) PROVE TypeOK'
  <2>1. faults' \in 0..MaxFaults
    BY <1>2, FaultTyping DEF LookUp, Refuse
  <2>. QED
    BY <1>2, <2>1 DEF LookUp, Refuse, Goto, Open, Finished
<1>3. ASSUME NEW r \in Requests, Modify(r) \/ Create(r) \/ Save(r) PROVE TypeOK'
  <2>1. faults' \in 0..MaxFaults
    BY <1>3, FaultTyping DEF Modify, Create, Save, Refuse
  <2>2. pc' \in [Requests -> {"idle"} \cup Open \cup Finished]
    BY <1>3 DEF Modify, Create, Save, Refuse, Goto, Open, Finished
  <2>3. dataGroup' \in Stored /\ saved' \in Stored
    <3>1. pc[r] \in {"modify", "create"} => Written(r) \in Stored
      BY DEF CarriesDeclaration, Written, Stored
    <3>2. pc[r] = "save" => SavedConfig \in Stored
      BY DEF SavedConfig
    <3>. QED
      BY <1>3, <3>1, <3>2 DEF Modify, Create, Save
  <2>4. job' \in [Requests -> [Scripts -> {"none", "cat", "echo", "done"}]]
    BY <1>3 DEF Modify, Create, Save
  <2>. QED
    BY <1>3, <2>1, <2>2, <2>3, <2>4 DEF Modify, Create, Save
<1>4. ASSUME NEW r \in Requests, NEW s \in Scripts, ReadScript(r, s) \/ WriteScript(r, s)
      PROVE  TypeOK'
  <2>1. faults' \in 0..MaxFaults
    BY <1>4, FaultTyping DEF ReadScript, WriteScript, Abandon
  <2>2. pc' \in [Requests -> {"idle"} \cup Open \cup Finished]
    BY <1>4 DEF ReadScript, WriteScript, Abandon, Open, Finished
  <2>3. script' \in [Scripts -> Content]
    <3>1. contents[r][s] \in Content
      OBVIOUS
    <3>2. WithTrigger(contents[r][s]) \in Content
      BY <3>1, WithTriggerTyping
    <3>3. [script EXCEPT ![s] = WithTrigger(contents[r][s])] \in [Scripts -> Content]
      BY <3>2
    <3>4. \/ script' = script
          \/ script' = [script EXCEPT ![s] = WithTrigger(contents[r][s])]
      BY <1>4 DEF ReadScript, WriteScript
    <3>. QED
      BY <3>3, <3>4
  <2>4. contents' \in [Requests -> [Scripts -> Content]]
    <3>1. script[s] \in Content
      OBVIOUS
    <3>2. \/ contents' = contents
          \/ contents' = [contents EXCEPT ![r][s] = script[s]]
      BY <1>4 DEF ReadScript, WriteScript
    <3>3. contents \in [Requests -> [Scripts -> Content]]
      OBVIOUS
    <3>4. CASE contents' = [contents EXCEPT ![r][s] = script[s]]
      BY <3>1, <3>3, <3>4, EntryChanged
    <3>. QED
      BY <3>2, <3>3, <3>4
  <2>5. job' \in [Requests -> [Scripts -> {"none", "cat", "echo", "done"}]]
    <3>1. \E where \in {"echo", "done"} : job' = [job EXCEPT ![r][s] = where]
      BY <1>4 DEF ReadScript, WriteScript
    <3>. QED
      BY <3>1, EntryChanged
  <2>. QED
    BY <1>4, <2>1, <2>2, <2>3, <2>4, <2>5 DEF ReadScript, WriteScript
<1>5. ASSUME NEW r \in Requests, ScriptsUpdated(r) \/ Accept(r) PROVE TypeOK'
  <2>1. faults' \in 0..MaxFaults
    BY <1>5, FaultTyping DEF ScriptsUpdated, Accept, Refuse
  <2>2. pc' \in [Requests -> {"idle"} \cup Open \cup Finished]
    BY <1>5 DEF ScriptsUpdated, Accept, Refuse, Goto, Open, Finished
  <2>3. answer' \in [Requests -> Config]
    BY <1>5, LoadTyping DEF ScriptsUpdated, Accept
  <2>. QED
    BY <1>5, <2>1, <2>2, <2>3 DEF ScriptsUpdated, Accept
<1>6. ASSUME NEW r \in Requests, Get(r) \/ Load(r) PROVE TypeOK'
  <2>1. faults' \in 0..MaxFaults
    BY <1>6, FaultTyping DEF Get, Load, Refuse
  <2>2. pc' \in [Requests -> {"idle"} \cup Open \cup Finished]
    BY <1>6 DEF Get, Load, Refuse, Goto, Open, Finished
  <2>3. answer' \in [Requests -> Config]
    BY <1>6, LoadTyping DEF Get, Load
  <2>. QED
    BY <1>6, <2>1, <2>2, <2>3 DEF Get, Load
<1>7. ASSUME RestartProcess \/ RebootDevice PROVE TypeOK'
  <2>1. restarts' \in 0..MaxRestarts
    BY <1>7, BoundAssumption DEF RestartProcess, RebootDevice, StartWith
  <2>2. pc' \in [Requests -> {"idle"} \cup Open \cup Finished]
    BY <1>7 DEF RestartProcess, RebootDevice, StartWith, Finished
  <2>3. /\ default' \in Config /\ isDefault' \in BOOLEAN /\ own' \in Config
        /\ dataGroup' \in Stored
    BY <1>7 DEF RestartProcess, RebootDevice, StartWith, Config, Stored
  <2>4. job' \in [Requests -> [Scripts -> {"none", "cat", "echo", "done"}]]
    BY <1>7 DEF RestartProcess, RebootDevice, StartWith
  <2>. QED
    BY <1>7, <2>1, <2>2, <2>3, <2>4 DEF RestartProcess, RebootDevice, StartWith
<1>8. CASE UNCHANGED vars
  BY <1>8 DEF vars
<1>. QED
  BY <1>1, <1>2, <1>3, <1>4, <1>5, <1>6, <1>7, <1>8 DEF Next, Done

\* Every step keeps the declarations of the requests that store them.
LEMMA NextCarriesDeclaration == IInv /\ [Next]_vars => CarriesDeclaration'
<1>. SUFFICES ASSUME IInv, [Next]_vars PROVE CarriesDeclaration'
  OBVIOUS
<1>. USE DEF IInv, TypeOK, CarriesDeclaration
<1>1. ASSUME NEW r \in Requests, NEW c \in Declarations, Declare(r, c)
      PROVE  CarriesDeclaration'
  BY <1>1 DEF Declare, Goto
<1>2. ASSUME UNCHANGED declared,
             \A q \in Requests :
               pc'[q] \in {"lookUp", "modify", "create", "save"} =>
                 pc[q] \in {"lookUp", "modify", "create", "save"}
      PROVE  CarriesDeclaration'
  BY <1>2
<1>3. ASSUME NEW r \in Requests,
             \/ LookUp(r) \/ Modify(r) \/ Create(r) \/ Save(r)
             \/ ScriptsUpdated(r) \/ Accept(r) \/ Get(r) \/ Load(r)
      PROVE  CarriesDeclaration'
  BY <1>2, <1>3 DEF LookUp, Modify, Create, Save, ScriptsUpdated, Accept, Get, Load,
                    Goto, Refuse
<1>4. ASSUME NEW r \in Requests, NEW s \in Scripts, ReadScript(r, s) \/ WriteScript(r, s)
      PROVE  CarriesDeclaration'
  BY <1>2, <1>4 DEF ReadScript, WriteScript, Abandon
<1>5. ASSUME RestartProcess \/ RebootDevice PROVE CarriesDeclaration'
  BY <1>2, <1>5 DEF RestartProcess, RebootDevice, StartWith
<1>6. CASE UNCHANGED vars
  BY <1>2, <1>6 DEF vars
<1>. QED
  BY <1>1, <1>3, <1>4, <1>5, <1>6 DEF Next, Done

\* Every step keeps what is about to be written free of a trigger.
LEMMA NextEchoesUntriggered == IInv /\ [Next]_vars => EchoesUntriggered'
<1>. SUFFICES ASSUME IInv, [Next]_vars PROVE EchoesUntriggered'
  OBVIOUS
<1>. USE DEF IInv, TypeOK, EchoesUntriggered
<1>1. CASE UNCHANGED <<job, contents>>
  BY <1>1
<1>2. ASSUME NEW r \in Requests, Save(r) PROVE EchoesUntriggered'
  <2>1. job' \in {job, [job EXCEPT ![r] = [s \in Scripts |-> "cat"]]} /\ UNCHANGED contents
    BY <1>2 DEF Save
  <2>2. \A q \in Requests, t \in Scripts : job'[q][t] = "echo" => job[q][t] = "echo"
    BY <2>1
  <2>. QED
    BY <2>1, <2>2
<1>3. ASSUME NEW r \in Requests, NEW s \in Scripts, ReadScript(r, s) PROVE EchoesUntriggered'
  <2>1. PICK where \in {"echo", "done"} :
          /\ job' = [job EXCEPT ![r][s] = where]
          /\ where = "echo" => /\ script[s].triggers = 0
                               /\ contents' = [contents EXCEPT ![r][s] = script[s]]
    BY <1>3 DEF ReadScript, NeedsTrigger
  <2>2. /\ job'[r][s] = where
        /\ \A q \in Requests, t \in Scripts : q # r \/ t # s => job'[q][t] = job[q][t]
    BY <2>1, EntryChanged
  <2>3. \/ contents' = contents
        \/ contents' = [contents EXCEPT ![r][s] = script[s]]
    BY <1>3 DEF ReadScript
  <2>4. \A q \in Requests, t \in Scripts : q # r \/ t # s => contents'[q][t] = contents[q][t]
    BY <2>3, EntryChanged
  <2>5. where = "echo" => contents'[r][s].triggers = 0
    BY <2>1, EntryChanged
  <2>. QED
    BY <2>2, <2>4, <2>5
<1>4. ASSUME NEW r \in Requests, NEW s \in Scripts, WriteScript(r, s) PROVE EchoesUntriggered'
  <2>1. job' = [job EXCEPT ![r][s] = "done"] /\ UNCHANGED contents
    BY <1>4 DEF WriteScript
  <2>2. /\ job'[r][s] = "done"
        /\ \A q \in Requests, t \in Scripts : q # r \/ t # s => job'[q][t] = job[q][t]
    BY <2>1, EntryChanged
  <2>. QED
    BY <2>1, <2>2
<1>5. ASSUME RestartProcess \/ RebootDevice PROVE EchoesUntriggered'
  BY <1>5 DEF RestartProcess, RebootDevice, StartWith
<1>. QED
  BY <1>1, <1>2, <1>3, <1>4, <1>5 DEF Next, Done, Declare, LookUp, Modify, Create,
     ScriptsUpdated, Accept, Get, Load, vars

\* The only step that changes a script makes it trigger the extension once.
LEMMA ScriptStep ==
  ASSUME IInv, [Next]_vars, NEW s \in Scripts
  PROVE  \/ script'[s] = script[s]
         \/ script'[s].triggers = 1 /\ script'[s].legacy # "enabled"
<1>. USE DEF IInv, TypeOK, EchoesUntriggered, device
<1>1. ASSUME NEW r \in Requests, NEW t \in Scripts, WriteScript(r, t)
      PROVE  \/ script'[s] = script[s]
             \/ script'[s].triggers = 1 /\ script'[s].legacy # "enabled"
  <2>1. contents[r][t] \in Content /\ contents[r][t].triggers = 0
    BY <1>1 DEF WriteScript
  <2>2. /\ WithTrigger(contents[r][t]).triggers = 1
        /\ WithTrigger(contents[r][t]).legacy # "enabled"
    BY <2>1, WithTriggerTyping
  <2>. QED
    BY <1>1, <2>2 DEF WriteScript
<1>2. CASE UNCHANGED script
  BY <1>2
<1>. QED
  BY <1>1, <1>2 DEF Next, Done, Declare, LookUp, Modify, Create, Save, ReadScript,
     ScriptsUpdated, Accept, Get, Load, RestartProcess, RebootDevice, StartWith, vars

\* Every step keeps the scripts from triggering twice.
LEMMA NextTriggersOnce == IInv /\ [Next]_vars => TriggersOnce'
  BY ScriptStep DEF TriggersOnce, IInv

\* Every step keeps the data group of a request that has found or stored one.
LEMMA NextStoreKept == IInv /\ [Next]_vars => StoreKept'
<1>. SUFFICES ASSUME IInv, [Next]_vars PROVE StoreKept'
  OBVIOUS
<1>. USE DEF IInv, TypeOK, StoreKept
<1>1. ASSUME NEW r \in Requests, Modify(r) \/ Create(r) \/ Save(r) PROVE StoreKept'
  <2>1. pc[r] \in {"modify", "create"} => Written(r) # Absent
    BY DeclarationAssumption DEF Written, CarriesDeclaration
  <2>2. CASE Modify(r)
    <3>1. dataGroup # Absent
      BY <2>2 DEF Modify
    <3>. QED
      BY <2>1, <2>2, <3>1 DEF Modify, Goto, Refuse
  <2>3. CASE Create(r)
    BY <2>1, <2>3 DEF Create, Goto, Refuse
  <2>4. CASE Save(r)
    <3>1. dataGroup # Absent
      BY <2>4 DEF Save
    <3>. QED
      BY <2>4, <3>1 DEF Save, SavedConfig, Goto, Refuse
  <2>. QED
    BY <1>1, <2>2, <2>3, <2>4
<1>2. ASSUME NEW r \in Requests, LookUp(r) PROVE StoreKept'
  BY <1>2 DEF LookUp, Goto, Refuse, device
<1>3. ASSUME UNCHANGED <<dataGroup, saved>>,
             \A q \in Requests : /\ pc'[q] \in {"modify", "save"} => pc'[q] = pc[q]
                                 /\ pc'[q] \in {"scripts", "init", "accepted"} =>
                                      pc[q] \in {"scripts", "init", "accepted"}
      PROVE  StoreKept'
  BY <1>3
<1>4. ASSUME NEW r \in Requests, NEW c \in Declarations, Declare(r, c) PROVE StoreKept'
  BY <1>3, <1>4 DEF Declare, Goto, device
<1>5. ASSUME NEW r \in Requests, NEW s \in Scripts, ReadScript(r, s) \/ WriteScript(r, s)
      PROVE  StoreKept'
  BY <1>3, <1>5 DEF ReadScript, WriteScript, Abandon, device
<1>6. ASSUME NEW r \in Requests, ScriptsUpdated(r) \/ Accept(r) \/ Get(r) \/ Load(r)
      PROVE  StoreKept'
  BY <1>3, <1>6 DEF ScriptsUpdated, Accept, Get, Load, Goto, Refuse, device
<1>7. ASSUME RestartProcess \/ RebootDevice PROVE StoreKept'
  BY <1>7 DEF RestartProcess, RebootDevice, StartWith, Open
<1>8. CASE UNCHANGED vars
  BY <1>8 DEF vars, device
<1>. QED
  BY <1>1, <1>2, <1>4, <1>5, <1>6, <1>7, <1>8 DEF Next, Done

\* Every step keeps the scripts of a request that is done with them.
LEMMA NextScriptsKept == IInv /\ [Next]_vars => ScriptsKept'
<1>. SUFFICES ASSUME IInv, [Next]_vars PROVE ScriptsKept'
  OBVIOUS
<1>. USE DEF IInv, TypeOK
<1>1. \A s \in Scripts : script[s].triggers > 0 => script'[s].triggers > 0
  BY ScriptStep
<1>2. ASSUME \A q \in Requests, s \in Scripts :
               /\ pc'[q] = "scripts" /\ job'[q][s] = "done" =>
                    \/ pc[q] = "scripts" /\ job[q][s] = "done"
                    \/ script'[s].triggers > 0
               /\ pc'[q] \in {"init", "accepted"} =>
                    \/ pc[q] \in {"init", "accepted"}
                    \/ pc[q] = "scripts" /\ job[q][s] = "done"
      PROVE  ScriptsKept'
  BY <1>1, <1>2 DEF ScriptsKept
<1>3. ASSUME NEW r \in Requests, Save(r) PROVE ScriptsKept'
  BY <1>2, <1>3 DEF Save, Goto, Refuse
<1>4. ASSUME NEW r \in Requests, NEW s \in Scripts, ReadScript(r, s) PROVE ScriptsKept'
  <2>1. CASE Abandon(r)
    BY <1>2, <1>4, <2>1 DEF ReadScript, Abandon
  <2>2. CASE /\ job' = [job EXCEPT ![r][s] =
                          IF NeedsTrigger(script[s]) THEN "echo" ELSE "done"]
             /\ UNCHANGED <<pc, script>>
    <3>1. script[s].triggers \in 0..2
      BY DEF Content
    <3>2. job'[r][s] = "done" => script'[s].triggers > 0
      BY <2>2, <3>1 DEF NeedsTrigger
    <3>3. \A q \in Requests, t \in Scripts : q # r \/ t # s => job'[q][t] = job[q][t]
      BY <2>2
    <3>4. pc[r] \in {"init", "accepted"} => pc'[r] \in {"init", "accepted"}
      BY <2>2
    <3>. QED
      BY <1>2, <2>2, <3>2, <3>3, <3>4
  <2>. QED
    BY <1>4, <2>1, <2>2 DEF ReadScript, device
<1>5. ASSUME NEW r \in Requests, NEW s \in Scripts, WriteScript(r, s) PROVE ScriptsKept'
  <2>1. CASE Abandon(r)
    BY <1>2, <1>5, <2>1 DEF WriteScript, Abandon
  <2>2. CASE UNCHANGED pc /\ script' = [script EXCEPT ![s] = WithTrigger(contents[r][s])]
    <3>1. script'[s].triggers > 0
      BY <2>2, WithTriggerTyping
    <3>2. job' = [job EXCEPT ![r][s] = "done"]
      BY <1>5 DEF WriteScript
    <3>. QED
      BY <1>2, <2>2, <3>1, <3>2
  <2>. QED
    BY <1>5, <2>1, <2>2 DEF WriteScript
<1>6. ASSUME NEW r \in Requests, ScriptsUpdated(r) PROVE ScriptsKept'
  BY <1>2, <1>6 DEF ScriptsUpdated, ScriptsDone, Goto
<1>7. ASSUME UNCHANGED job, NEW r \in Requests,
             NEW where \in {"lookUp", "modify", "create", "save", "load", "refused", "listed"},
             Goto(r, where)
      PROVE  ScriptsKept'
  BY <1>2, <1>7 DEF Goto
<1>8. ASSUME NEW r \in Requests,
             \/ \E c \in Declarations : Declare(r, c)
             \/ LookUp(r) \/ Modify(r) \/ Create(r) \/ Get(r) \/ Load(r)
      PROVE  ScriptsKept'
  BY <1>7, <1>8 DEF Declare, LookUp, Modify, Create, Get, Load, Refuse
<1>9. ASSUME NEW r \in Requests, Accept(r) PROVE ScriptsKept'
  BY <1>2, <1>9 DEF Accept, Goto, Refuse
<1>10. ASSUME RestartProcess \/ RebootDevice PROVE ScriptsKept'
  BY <1>2, <1>10 DEF RestartProcess, RebootDevice, StartWith, Open
<1>11. CASE UNCHANGED vars
  BY <1>2, <1>11 DEF vars
<1>. QED
  BY <1>3, <1>4, <1>5, <1>6, <1>8, <1>9, <1>10, <1>11 DEF Next, Done

\* Every step keeps the invariant.
LEMMA InvariantStep == IInv /\ [Next]_vars => IInv'
  BY NextTypeOK, NextCarriesDeclaration, NextEchoesUntriggered, NextTriggersOnce, NextStoreKept,
     NextScriptsKept DEF IInv

-----------------------------------------------------------------------------
(* A declaration that no other request overlaps.                           *)

Storing == {"lookUp", "modify", "create", "save", "scripts", "init"}

\* While a request that nobody has overlapped is open, no other one is.
Sole ==
  \A r, q \in Requests : alone[r] /\ pc[r] \in Open /\ pc[q] \in Open => q = r

\* What an open POST /declare has achieved so far is still there: memory holds
\* its declaration from the start, then the data group, the configuration the
\* device boots with, and the answer.
InForce(r) ==
  /\ pc[r] \in Storing => declared[r] \in Declarations /\ Current = declared[r]
  /\ pc[r] \in {"save", "scripts", "init"} => dataGroup = declared[r]
  /\ pc[r] \in {"scripts", "init"} => saved = declared[r]
  /\ pc[r] = "init" => answer[r] = declared[r]

SoleInForce == \A r \in Requests : alone[r] => InForce(r)

HInv == IInv /\ Sole /\ SoleInForce

\* Whoever has not been overlapped after a step had not been before, and is
\* not open together with anyone.
LEMMA AloneStep ==
  ASSUME MCNext, NEW r \in Requests, alone'[r]
  PROVE  /\ alone[r]
         /\ pc'[r] \in Open => \A q \in Requests \ {r} : pc'[q] \notin Open
BY Zenon DEF MCNext, Alone

\* A step that leaves the configuration alone and takes r nowhere keeps what r
\* has achieved.
LEMMA LeftInForce ==
  ASSUME NEW r \in Requests, InForce(r),
         UNCHANGED <<memory, dataGroup, saved, declared, answer>>,
         pc'[r] \in Storing => pc'[r] = pc[r]
  PROVE  InForce(r)'
BY DEF InForce, Current, memory, Storing

\* A request keeps what it has achieved over its own steps.
LEMMA OwnStepInForce ==
  ASSUME IInv, NEW r \in Requests, InForce(r),
         \/ \E c \in Declarations : Declare(r, c)
         \/ LookUp(r) \/ Modify(r) \/ Create(r) \/ Save(r)
         \/ ScriptsUpdated(r) \/ Accept(r) \/ Get(r) \/ Load(r)
  PROVE  InForce(r)'
<1>. USE DEF IInv, TypeOK, InForce, Current, memory, device, Storing, Goto, Refuse
<1>1. ASSUME NEW c \in Declarations, Declare(r, c) PROVE InForce(r)'
  <2>1. CASE pc' = [pc EXCEPT ![r] = "refused"]
    BY <2>1
  <2>2. CASE /\ pc' = [pc EXCEPT ![r] = "lookUp"]
             /\ declared' = [declared EXCEPT ![r] = c]
             /\ IF isDefault THEN default' = c /\ UNCHANGED own
                             ELSE own' = c /\ UNCHANGED default
    <3>1. pc'[r] = "lookUp" /\ declared'[r] = c
      BY <2>2
    <3>2. isDefault' = isDefault
      BY <1>1 DEF Declare
    <3>3. (IF isDefault' THEN default' ELSE own') = c
      BY <2>2, <3>2
    <3>. QED
      BY <3>1, <3>3
  <2>. QED
    BY <1>1, <2>1, <2>2 DEF Declare
<1>2. CASE LookUp(r)
  BY <1>2 DEF LookUp
<1>3. CASE Modify(r)
  BY <1>3 DEF Modify, Written
<1>4. CASE Create(r)
  BY <1>4 DEF Create, Written
<1>5. CASE Save(r)
  BY <1>5 DEF Save, SavedConfig
<1>6. CASE ScriptsUpdated(r)
  BY <1>6 DEF ScriptsUpdated
<1>7. CASE Accept(r) \/ Get(r) \/ Load(r)
  BY <1>7 DEF Accept, Get, Load
<1>. QED
  BY <1>1, <1>2, <1>3, <1>4, <1>5, <1>6, <1>7

\* A request that is not overlapped keeps what it has achieved over every step.
LEMMA NextInForce ==
  ASSUME IInv, Sole, Next, NEW r \in Requests, alone[r], InForce(r),
         pc'[r] \in Open => \A q \in Requests \ {r} : pc'[q] \notin Open
  PROVE  InForce(r)'
<1>. USE DEF IInv, TypeOK, memory, device, Storing, Goto, Refuse
<1>1. ASSUME pc'[r] \notin Storing PROVE InForce(r)'
  BY <1>1 DEF InForce
<1>2. Storing \subseteq Open
  BY DEF Open
<1>3. ASSUME NEW q \in Requests, NEW c \in Declarations, Declare(q, c) PROVE InForce(r)'
  <2>1. CASE q = r
    BY <1>3, <2>1, OwnStepInForce
  <2>2. CASE q # r /\ pc' = [pc EXCEPT ![q] = "lookUp"]
    <3>1. pc'[q] \in Open
      BY <2>2 DEF Open
    <3>. QED
      BY <1>1, <1>2, <2>2, <3>1
  <2>3. CASE q # r /\ pc' = [pc EXCEPT ![q] = "refused"] /\ UNCHANGED <<declared, default, own>>
    BY <1>3, <2>3, LeftInForce DEF Declare
  <2>. QED
    BY <1>3, <2>1, <2>2, <2>3 DEF Declare
<1>4. ASSUME NEW q \in Requests, Get(q) PROVE InForce(r)'
  <2>1. CASE q = r
    BY <1>4, <2>1, OwnStepInForce
  <2>2. CASE q # r
    <3>1. pc'[q] \in Open
      BY <1>4 DEF Get, Open
    <3>. QED
      BY <1>1, <1>2, <2>2, <3>1
  <2>. QED
    BY <2>1, <2>2
<1>5. ASSUME NEW q \in Requests,
             \/ LookUp(q) \/ Modify(q) \/ Create(q) \/ Save(q)
             \/ ScriptsUpdated(q) \/ Accept(q) \/ Load(q)
      PROVE  InForce(r)'
  <2>1. CASE q = r
    BY <1>5, <2>1, OwnStepInForce
  <2>2. CASE q # r
    <3>1. pc[q] \in Open
      BY <1>5 DEF LookUp, Modify, Create, Save, ScriptsUpdated, Accept, Load, Open
    <3>2. pc[r] \notin Open
      BY <2>2, <3>1 DEF Sole
    <3>3. pc'[r] = pc[r]
      BY <1>5, <2>2 DEF LookUp, Modify, Create, Save, ScriptsUpdated, Accept, Load
    <3>. QED
      BY <1>1, <1>2, <3>2, <3>3
  <2>. QED
    BY <2>1, <2>2
<1>6. ASSUME NEW q \in Requests, NEW s \in Scripts, ReadScript(q, s) \/ WriteScript(q, s)
      PROVE  InForce(r)'
  <2>1. UNCHANGED <<memory, dataGroup, saved, declared, answer>>
    BY <1>6 DEF ReadScript, WriteScript
  <2>2. pc'[r] \in Storing => pc'[r] = pc[r]
    BY <1>6 DEF ReadScript, WriteScript, Abandon
  <2>. QED
    BY <2>1, <2>2, LeftInForce
<1>7. ASSUME RestartProcess \/ RebootDevice PROVE InForce(r)'
  <2>1. pc'[r] \notin Open
    BY <1>7 DEF RestartProcess, RebootDevice, StartWith, Open
  <2>. QED
    BY <1>1, <1>2, <2>1
<1>8. CASE Done
  BY <1>8, LeftInForce DEF Done, vars
<1>. QED
  BY <1>3, <1>4, <1>5, <1>6, <1>7, <1>8 DEF Next

\* Every step of the specification with its history keeps the invariant.
LEMMA NextHInv == HInv /\ [MCNext]_<<vars, alone>> => HInv'
<1>. SUFFICES ASSUME HInv, [MCNext]_<<vars, alone>> PROVE HInv'
  OBVIOUS
<1>1. IInv'
  BY InvariantStep DEF HInv, MCNext
<1>2. CASE MCNext
  <2>1. Sole'
    BY <1>2, AloneStep DEF Sole
  <2>2. SoleInForce'
    <3>1. SUFFICES ASSUME NEW r \in Requests, alone'[r] PROVE InForce(r)'
      BY DEF SoleInForce
    <3>2. /\ alone[r]
          /\ pc'[r] \in Open => \A q \in Requests \ {r} : pc'[q] \notin Open
      BY <1>2, <3>1, AloneStep
    <3>3. InForce(r)
      BY <3>2 DEF HInv, SoleInForce
    <3>. QED
      BY <1>2, <3>2, <3>3, NextInForce DEF HInv, MCNext
  <2>. QED
    BY <1>1, <2>1, <2>2 DEF HInv
<1>3. CASE UNCHANGED <<vars, alone>>
  <2>. USE <1>3 DEF vars, memory, device
  <2>1. Sole'
    BY DEF HInv, Sole
  <2>2. SoleInForce'
    BY DEF HInv, SoleInForce, InForce, Current
  <2>. QED
    BY <1>1, <2>1, <2>2 DEF HInv
<1>. QED
  BY <1>2, <1>3

\* Only a request whose scripts are done and whose init() has run is accepted.
LEMMA AcceptedFromInit ==
  ASSUME IInv, Next, NEW r \in Requests, pc[r] # "accepted", pc'[r] = "accepted"
  PROVE  pc[r] = "init"
<1>. USE DEF IInv, TypeOK, Goto, Refuse
<1>1. ASSUME NEW q \in Requests, Accept(q) PROVE pc[r] = "init"
  BY <1>1 DEF Accept
<1>2. ASSUME NEW q \in Requests,
             \/ \E c \in Declarations : Declare(q, c)
             \/ LookUp(q) \/ Modify(q) \/ Create(q) \/ Save(q)
             \/ ScriptsUpdated(q) \/ Get(q) \/ Load(q)
      PROVE  FALSE
  BY <1>2 DEF Declare, LookUp, Modify, Create, Save, ScriptsUpdated, Get, Load
<1>3. ASSUME NEW q \in Requests, NEW s \in Scripts, ReadScript(q, s) \/ WriteScript(q, s)
      PROVE  FALSE
  BY <1>3 DEF ReadScript, WriteScript, Abandon
<1>4. ASSUME RestartProcess \/ RebootDevice \/ Done PROVE FALSE
  BY <1>4 DEF RestartProcess, RebootDevice, StartWith, Done, vars
<1>. QED
  BY <1>1, <1>2, <1>3, <1>4 DEF Next

-----------------------------------------------------------------------------
(* Theorems.                                                               *)

\* The invariant is inductive and holds initially.
THEOREM Invariance == Spec => []IInv
<1>1. Init => IInv
  BY InitIInv
<1>. QED
  BY <1>1, InvariantStep, PTL DEF Spec

\* The worker's memory, the data group and the scripts keep their form.
THEOREM TypeCorrect == Spec => []TypeOK
<1>1. IInv => TypeOK
  BY DEF IInv
<1>. QED
  BY <1>1, Invariance, PTL

\* No overlap of declarations, no failure and no restart makes a script
\* trigger the extension twice, or together with the script of old.
THEOREM ScriptsTriggerOnce == Spec => []TriggersOnce
<1>1. IInv => TriggersOnce
  BY DEF IInv
<1>. QED
  BY <1>1, Invariance, PTL

\* After an accepted declaration the device boots with a declaration and its
\* scripts trigger the extension, whatever overlaps, fails or restarts.
THEOREM DeclarationPersists == Spec => []AcceptedSurvives
<1>1. IInv => AcceptedSurvives
  BY DEF IInv, StoreKept, ScriptsKept, AcceptedSurvives
<1>. QED
  BY <1>1, Invariance, PTL

\* The specification with its history keeps the invariant that tells what a
\* declaration nobody has overlapped has achieved.
THEOREM History == MCSpec => []HInv
<1>1. MCInit => HInv
  <2>1. MCInit => IInv
    BY InitIInv DEF MCInit
  <2>2. MCInit => Sole /\ SoleInForce
    BY DEF MCInit, Init, Sole, SoleInForce, InForce, Open, Storing
  <2>. QED
    BY <2>1, <2>2 DEF HInv
<1>2. HInv /\ [MCNext]_<<vars, alone>> => HInv'
  BY NextHInv
<1>. QED
  BY <1>1, <1>2, PTL DEF MCSpec

\* A declaration that is accepted and that nobody has overlapped is the one
\* answered, in force and booted with, whatever came before.
THEOREM DeclarationInForce == MCSpec => AcceptedAsDeclared
<1>1. ASSUME HInv, [MCNext]_<<vars, alone>>,
             NEW r \in Requests, pc[r] # "accepted", pc'[r] = "accepted", alone[r]
      PROVE  /\ answer[r] = declared[r] /\ LoadedFromStore = declared[r]
             /\ saved = declared[r]
  <2>1. pc[r] = "init"
    <3>1. pc # pc'
      BY <1>1
    <3>2. Next
      BY <1>1, <3>1 DEF MCNext, vars
    <3>. QED
      BY <1>1, <3>2, AcceptedFromInit DEF HInv
  <2>2. InForce(r)
    BY <1>1 DEF HInv, SoleInForce
  <2>3. dataGroup # Absent
    BY <2>1, <2>2, DeclarationAssumption DEF InForce, Storing
  <2>. QED
    BY <2>1, <2>2, <2>3 DEF InForce, LoadedFromStore
<1>2. HInv /\ [MCNext]_<<vars, alone>> =>
        [\A r \in Requests : pc[r] # "accepted" /\ pc'[r] = "accepted" /\ alone[r] =>
           /\ answer[r] = declared[r] /\ LoadedFromStore = declared[r]
           /\ saved = declared[r]]_<<vars, alone>>
  BY <1>1
<1>. QED
  BY <1>2, History, PTL DEF MCSpec, AcceptedAsDeclared
=============================================================================
