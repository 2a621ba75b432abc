------------------------- MODULE AwsAddressesProofs -------------------------
(***************************************************************************)
(* Theorems about AwsAddresses, for every set of devices, Elastic IPs,     *)
(* addresses and tasks, overlapping or not, and every bound: its state     *)
(* keeps its form, no address loses its Elastic IP without a task that is  *)
(* in trouble or a chain that nobody waited for, and a task that succeeds  *)
(* by itself has delivered.                                                *)
(***************************************************************************)
EXTENDS MCAwsAddresses, TLAPS

-----------------------------------------------------------------------------
(* The inductive invariant.                                                *)

\* A task that is alone and under way is the only one under way.
OneBusy == \A t, u \in Tasks : t # u /\ alone[t] /\ Busy(t) => ~Busy(u)

\* A task that is under way has a device, and issues its calls when it has
\* discovered what to do; none are left when it succeeds.
Orderly(t) ==
  /\ pc[t] # "idle" => task[t].host \in Devices
  /\ pc[t] \in {"idle", "discover"} => task[t].public = {} /\ chains[t] = {}
  /\ pc[t] \in {"idle", "discover", "succeeded"} =>
       freeing[t] = {} /\ taking[t] = {} /\ unassigning[t] = {} /\ assigning[t] = {}

\* Task t is still to assign address a, or has a chain for it, and answers for it
\* if it has one or the last one left it without its Elastic IP.
Owes(t, a)    == \E b \in assigning[t] : b.step = "assign" /\ a \in b.addresses
Chained(t, a) == \E c \in chains[t] : c.address = a
Answers(t, a) == Chained(t, a) \/ <<t, a>> \in strayed

\* The second stages wait for the first, and whatever is to be taken off is to
\* be put on as long as it is not yet off.
Staged(t) ==
  /\ publicStage[t] = "second" => freeing[t] = {}
  /\ privateStage[t] = "second" => unassigning[t] = {}
  /\ \A c \in freeing[t] : \E d \in taking[t] : d.eip = c.eip
  /\ \A c \in unassigning[t] : \A a \in c.addresses : Owes(t, a)

\* Only an address discovered with an Elastic IP has it looked for.
Looking(t) == \A c \in chains[t] : c.address \in task[t].public

\* How far a task that is alone and has not failed has come: every Elastic IP
\* and every address is where it wants it, or has still to be moved.
Taken(t) ==
  \A e \in Tagged : tagged[e].at = task[t].host \/ \E c \in taking[t] : c.eip = e
Unassigned(t) ==
  \A a \in task[t].wanted :
    \/ owner[a] \in {task[t].host, Nowhere}
    \/ \E c \in unassigning[t] : a \in c.addresses /\ c.from = owner[a]
Rebound(t) ==
  \A a \in task[t].public : elastic[a] # Unbound \/ Owes(t, a) \/ Answers(t, a)
OnItsWay(t) ==
  pc[t] = "update" /\ alone[t] => Taken(t) /\ Unassigned(t) /\ Rebound(t)

\* Task t answers for the Elastic IP of address a.
Trouble(t, a) ==
  a \in task[t].public /\ (pc[t] # "succeeded" \/ ~alone[t] \/ Answers(t, a))

\* It does, and will: not only because a chain is under way.
Blamed(t, a) ==
  a \in task[t].public /\ (pc[t] # "succeeded" \/ ~alone[t] \/ <<t, a>> \in strayed)

\* If a task is to unassign an address that it discovered without its Elastic
\* IP, another one had lost that before.
LostBefore(t) ==
  \A c \in unassigning[t] : \A a \in c.addresses :
    a \in had \ task[t].public => \E u \in Tasks : Blamed(u, a)

IInv ==
  /\ TypeOK /\ alone \in [Tasks -> BOOLEAN] /\ had \subseteq Addresses
  /\ OneBusy /\ ElasticLostInTrouble
  /\ \A t \in Tasks : Orderly(t) /\ Staged(t) /\ Looking(t) /\ OnItsWay(t) /\ LostBefore(t)

-----------------------------------------------------------------------------
(* Typing.                                                                 *)

LEMMA TriesTyping ==
  /\ MaxTries \in Tries /\ 1 \in Tries
  /\ \A n \in Tries : n # 1 => n - 1 \in Tries
BY BoundAssumption DEF Tries

\* A call that is repeated is the same call.
LEMMA RetriedTyping ==
  /\ \A c \in Freeing : \A d \in Retried(c) : d \in Freeing /\ d.eip = c.eip
  /\ \A c \in Taking : \A d \in Retried(c) : d \in Taking /\ d.eip = c.eip
  /\ \A c \in Unassigning : \A d \in Retried(c) :
       d \in Unassigning /\ d.addresses = c.addresses /\ d.from = c.from
  /\ \A c \in Assigning : \A d \in Retried(c) :
       d \in Assigning /\ d.addresses = c.addresses /\ d.step = c.step
<1>1. ASSUME NEW c \in Freeing, NEW d \in Retried(c) PROVE d \in Freeing /\ d.eip = c.eip
  <2>1. c.tries \in Tries /\ c.tries # 1 /\ d = [c EXCEPT !.tries = @ - 1]
    BY <1>1 DEF Retried, Freeing
  <2>. QED
    BY <2>1, TriesTyping DEF Freeing
<1>2. ASSUME NEW c \in Taking, NEW d \in Retried(c) PROVE d \in Taking /\ d.eip = c.eip
  <2>1. c.tries \in Tries /\ c.tries # 1 /\ d = [c EXCEPT !.tries = @ - 1]
    BY <1>2 DEF Retried, Taking
  <2>. QED
    BY <2>1, TriesTyping DEF Taking
<1>3. ASSUME NEW c \in Unassigning, NEW d \in Retried(c)
      PROVE  d \in Unassigning /\ d.addresses = c.addresses /\ d.from = c.from
  <2>1. c.tries \in Tries /\ c.tries # 1 /\ d = [c EXCEPT !.tries = @ - 1]
    BY <1>3 DEF Retried, Unassigning
  <2>. QED
    BY <2>1, TriesTyping DEF Unassigning
<1>4. ASSUME NEW c \in Assigning, NEW d \in Retried(c)
      PROVE  d \in Assigning /\ d.addresses = c.addresses /\ d.step = c.step
  <2>1. c.tries \in Tries /\ c.tries # 1 /\ d = [c EXCEPT !.tries = @ - 1]
    BY <1>4 DEF Retried, Assigning
  <2>. QED
    BY <2>1, TriesTyping DEF Assigning
<1>. QED
  BY <1>1, <1>2, <1>3, <1>4

LEMMA FaultTyping ==
  ASSUME TypeOK, Fault \/ NoFault
  PROVE  faults' \in 0..MaxFaults
BY BoundAssumption DEF TypeOK, Fault, NoFault

\* A rejection ends an update, unless the call is repeated.
LEMMA Rejection ==
  ASSUME TypeOK, NEW t \in Tasks, NEW call, AfterRejection(t, call) \/ UNCHANGED pc
  PROVE  /\ pc' \in [Tasks -> {"idle"} \cup Open \cup Ended]
         /\ \A u \in Tasks \ {t} : pc'[u] = pc[u]
         /\ pc'[t] = pc[t] \/ (pc[t] = "update" /\ pc'[t] = "failed")
         /\ AfterRejection(t, call) /\ Retried(call) = {} => pc'[t] # "update"
BY DEF AfterRejection, Rejected, Goto, TypeOK, Ended

LEMMA StageTyping ==
  /\ \A left : StageAfter(left) \in Stage /\ (StageAfter(left) = "second" => left = {})
  /\ \A s \in Stage : \A call :
       /\ StageAfterRejection(s, call) \in Stage
       /\ StageAfterRejection(s, call) = "second" => s = "second"
BY DEF StageAfter, StageAfterRejection, Stage

LEMMA InitTypeOK == Init => TypeOK
<1>. SUFFICES ASSUME Init PROVE TypeOK
  OBVIOUS
<1>1. roleChanges \in 0..MaxRoleChanges /\ faults \in 0..MaxFaults /\ crashes \in 0..MaxCrashes
  BY BoundAssumption DEF Init
<1>2. task \in [Tasks -> Task]
  BY DEF Init, Task
<1>3. tagged \in [Tagged -> [at : Devices \cup {Nowhere}, id : Id]]
  BY DEF Init, Id
<1>4. /\ owner \in [Addresses -> Devices \cup {Nowhere}]
      /\ elastic \in [Addresses -> Association]
      /\ active \in [Addresses -> Devices]
  <2>1. Original \in Association /\ Unbound \in Association
    BY BoundAssumption DEF Original, Unbound, Association
  <2>. QED
    BY <2>1 DEF Init
<1>. QED
  BY <1>1, <1>2, <1>3, <1>4 DEF Init, TypeOK, Stage

\* Some names are no task's.
LEMMA Names ==
  /\ Nowhere \notin Devices
  /\ \A t \in Tasks, n \in Tries :
       [by |-> t, tries |-> n] \in Association \ {Unbound}
<1>1. ASSUME NEW t \in Tasks, NEW n \in Tries
      PROVE  [by |-> t, tries |-> n] \in Association /\ [by |-> t, tries |-> n] # Unbound
  <2>1. n \in 0..MaxTries /\ t # "unbound"
    BY NameAssumption, BoundAssumption DEF Tries
  <2>. QED
    BY <2>1 DEF Association, Unbound
<1>. QED
  BY <1>1, NameAssumption DEF Nowhere

-----------------------------------------------------------------------------
(* What one step changes.                                                  *)

Same(u) ==
  /\ pc'[u] = pc[u] /\ task'[u] = task[u]
  /\ publicStage'[u] = publicStage[u] /\ privateStage'[u] = privateStage[u]
  /\ freeing'[u] = freeing[u] /\ taking'[u] = taking[u]
  /\ unassigning'[u] = unassigning[u] /\ assigning'[u] = assigning[u]
  /\ chains'[u] = chains[u]

\* The steps of task t.
Step(t) ==
  \/ \E d \in Devices, gained \in SUBSET Addresses : TakeOver(t, d, gained)
  \/ Discover(t) \/ CloudCall(t) \/ Succeed(t)

\* What a task knows at its start.
Started(c, d, W) == [c EXCEPT !.host = d, !.wanted = W]

LEMMA StartedTyping ==
  ASSUME NEW c \in Task, NEW d \in Devices, NEW W \in SUBSET Addresses
  PROVE  /\ Started(c, d, W) \in Task
         /\ Started(c, d, W).host = d /\ Started(c, d, W).public = c.public
<1>1. PICK k : k = [c EXCEPT !.host = d]
  OBVIOUS
<1>2. k \in Task /\ k.host = d /\ k.public = c.public
  BY <1>1 DEF Task
<1>3. Started(c, d, W) = [k EXCEPT !.wanted = W]
  BY <1>1, Zenon DEF Started
<1>. QED
  BY <1>2, <1>3 DEF Task

LEMMA TakeOverStep ==
  ASSUME TypeOK, NEW t \in Tasks, NEW d \in Devices, NEW gained \in SUBSET Addresses,
         TakeOver(t, d, gained)
  PROVE  /\ TypeOK' /\ \A u \in Tasks \ {t} : Same(u)
         /\ pc[t] = "idle" /\ pc'[t] = "discover" /\ task'[t].host = d
         /\ task'[t].public = task[t].public
         /\ UNCHANGED <<cloud, publicCalls, privateCalls>>
<1>. DEFINE W == {a \in Addresses : active'[a] = d}
<1>1. active' \in [Addresses -> Devices]
  BY DEF TakeOver, TypeOK
<1>2. W \in SUBSET Addresses
  OBVIOUS
<1>3. task' = [task EXCEPT ![t] = [task[t] EXCEPT !.host = d, !.wanted = W]]
  BY DEF TakeOver
<1>. HIDE DEF W
<1>4. /\ task' \in [Tasks -> Task] /\ \A u \in Tasks \ {t} : task'[u] = task[u]
      /\ task'[t].host = d /\ task'[t].public = task[t].public
  <2>1. task' = [u \in Tasks |-> task'[u]] /\ \A u \in Tasks \ {t} : task'[u] = task[u]
    BY <1>3 DEF TypeOK
  <2>2. task'[t] = Started(task[t], d, W)
    BY <1>3 DEF TypeOK, Started
  <2>. QED
    BY <1>2, <2>1, <2>2, StartedTyping DEF TypeOK
<1>5. roleChanges' \in 0..MaxRoleChanges
  BY BoundAssumption DEF TakeOver, TypeOK
<1>6. /\ pc' \in [Tasks -> {"idle"} \cup Open \cup Ended]
      /\ \A u \in Tasks \ {t} : pc'[u] = pc[u]
      /\ pc[t] = "idle" /\ pc'[t] = "discover"
  BY DEF TakeOver, TypeOK, Goto, Open
<1>7. UNCHANGED <<cloud, publicCalls, privateCalls, faults, crashes>>
  BY DEF TakeOver
<1>. QED
  BY <1>1, <1>4, <1>5, <1>6, <1>7 DEF TypeOK, Same, cloud, publicCalls, privateCalls

\* What a discovery that succeeds leaves behind.
Discovered(t) ==
  LET c == task[t]  public == PublicToMove(c.host)  moved == PrivateToMove(c) IN
  /\ pc'[t] = "update"
  /\ task'[t].host = c.host /\ task'[t].wanted = c.wanted
  /\ task'[t].public = WithElastic(moved)
  /\ freeing'[t] = Freeings(public) /\ taking'[t] = Takings(public)
  /\ publicStage'[t] = StageAfter(Freeings(public))
  /\ unassigning'[t] = Unassignings(moved) /\ assigning'[t] = Assignings(moved)
  /\ chains'[t] = chains[t]
  /\ privateStage'[t] = StageAfter(moved)

LEMMA DiscoveryTyping ==
  ASSUME TypeOK, NEW t \in Tasks
  PROVE  LET moved == PrivateToMove(task[t]) IN
         /\ moved \in SUBSET Addresses /\ WithElastic(moved) \in SUBSET moved
         /\ Freeings(PublicToMove(task[t].host)) \in SUBSET Freeing
         /\ Takings(PublicToMove(task[t].host)) \in SUBSET Taking
         /\ Unassignings(moved) \in SUBSET Unassigning
         /\ Assignings(moved) \in SUBSET Assigning
<1>. DEFINE moved == PrivateToMove(task[t])
<1>1. moved \in SUBSET Addresses /\ \A a \in moved : owner[a] \in Devices
  BY DEF PrivateToMove, TypeOK, Task
<1>2. WithElastic(moved) \in SUBSET moved
  BY DEF WithElastic
<1>3. \A e \in PublicToMove(task[t].host) : e \in Tagged /\ tagged[e].id \in Id
  BY DEF PublicToMove, TypeOK
<1>4. Freeings(PublicToMove(task[t].host)) \in SUBSET Freeing
  BY <1>3, TriesTyping DEF Freeings, Freeing
<1>5. Takings(PublicToMove(task[t].host)) \in SUBSET Taking
  BY <1>3, TriesTyping DEF Takings, Taking
<1>6. Unassignings(moved) \in SUBSET Unassigning
  BY <1>1, TriesTyping DEF Unassignings, Unassigning
<1>7. Assignings(moved) \in SUBSET Assigning
  BY <1>1, TriesTyping DEF Assignings, Assigning
<1>. QED
  BY <1>1, <1>2, <1>4, <1>5, <1>6, <1>7

LEMMA DiscoverStep ==
  ASSUME TypeOK, NEW t \in Tasks, Discover(t)
  PROVE  /\ TypeOK' /\ \A u \in Tasks \ {t} : Same(u)
         /\ pc[t] = "discover" /\ UNCHANGED <<cloud, active>>
         /\ \/ pc'[t] = "failed" /\ UNCHANGED <<task, publicCalls, privateCalls>>
            \/ Discovered(t)
<1>. DEFINE public == PublicToMove(task[t].host)
            moved == PrivateToMove(task[t])
            offs == Unassignings(moved)
            ons == Assignings(moved)
<1>1. faults' \in 0..MaxFaults
  BY FaultTyping DEF Discover
<1>2. pc[t] = "discover" /\ UNCHANGED <<cloud, active, roleChanges, crashes>>
  BY DEF Discover
<1>3. CASE Goto(t, "failed") /\ UNCHANGED <<task, publicCalls, privateCalls>>
  BY <1>1, <1>2, <1>3 DEF TypeOK, Goto, Ended, Same, cloud, publicCalls, privateCalls
<1>4. CASE /\ freeing' = [freeing EXCEPT ![t] = Freeings(public)]
           /\ taking' = [taking EXCEPT ![t] = Takings(public)]
           /\ publicStage' = [publicStage EXCEPT ![t] = StageAfter(Freeings(public))]
           /\ unassigning' = [unassigning EXCEPT ![t] = offs]
           /\ assigning' = [assigning EXCEPT ![t] = ons]
           /\ privateStage' = [privateStage EXCEPT ![t] = StageAfter(moved)]
           /\ task' = [task EXCEPT ![t].public = WithElastic(moved)]
           /\ UNCHANGED chains
           /\ Goto(t, "update")
  <2>1. /\ moved \in SUBSET Addresses /\ WithElastic(moved) \in SUBSET moved
        /\ Freeings(public) \in SUBSET Freeing /\ Takings(public) \in SUBSET Taking
        /\ offs \in SUBSET Unassigning /\ ons \in SUBSET Assigning
    BY DiscoveryTyping
  <2>2. /\ pc' \in [Tasks -> {"idle"} \cup Open \cup Ended] /\ pc'[t] = "update"
        /\ \A u \in Tasks \ {t} : pc'[u] = pc[u]
    BY <1>4 DEF Goto, TypeOK, Open
  <2>. HIDE DEF public, moved, offs, ons
  <2>3. /\ task' \in [Tasks -> Task] /\ \A u \in Tasks \ {t} : task'[u] = task[u]
        /\ task'[t].host = task[t].host /\ task'[t].wanted = task[t].wanted
        /\ task'[t].public = WithElastic(moved)
    BY <1>4, <2>1 DEF TypeOK, Task
  <2>4. /\ publicStage' \in [Tasks -> Stage] /\ privateStage' \in [Tasks -> Stage]
        /\ publicStage'[t] = StageAfter(Freeings(public))
        /\ privateStage'[t] = StageAfter(moved)
    BY <1>4, StageTyping DEF TypeOK
  <2>5. /\ freeing' \in [Tasks -> SUBSET Freeing] /\ taking' \in [Tasks -> SUBSET Taking]
        /\ freeing'[t] = Freeings(public) /\ taking'[t] = Takings(public)
    BY <1>4, <2>1 DEF TypeOK
  <2>6. /\ unassigning' \in [Tasks -> SUBSET Unassigning]
        /\ assigning' \in [Tasks -> SUBSET Assigning]
        /\ unassigning'[t] = offs /\ assigning'[t] = ons
    BY <1>4, <2>1 DEF TypeOK
  <2>7. TypeOK'
    BY <1>1, <1>2, <1>4, <2>2, <2>3, <2>4, <2>5, <2>6 DEF TypeOK, cloud
  <2>8. \A u \in Tasks \ {t} : Same(u)
    BY <1>4, <2>2, <2>3 DEF TypeOK, Same
  <2>9. Discovered(t)
    BY <1>4, <2>2, <2>3, <2>4, <2>5, <2>6 DEF Discovered, public, moved, offs, ons
  <2>. QED
    BY <1>2, <2>7, <2>8, <2>9
<1>. QED
  BY <1>3, <1>4 DEF Discover

\* What the calls of task t do to the place where it is.
Ran(t) == pc'[t] = pc[t] \/ (pc[t] = "update" /\ pc'[t] = "failed")

LEMMA FreeStep ==
  ASSUME TypeOK, NEW t \in Tasks, NEW call \in freeing[t], Free(t, call)
  PROVE  /\ TypeOK' /\ \A u \in Tasks \ {t} : Same(u)
         /\ Ran(t) /\ UNCHANGED <<owner, elastic, active, task, taking, privateCalls>>
         /\ publicStage'[t] = "second" => publicStage[t] = "second" \/ freeing'[t] = {}
         /\ \A c \in freeing'[t] : \E b \in freeing[t] : b.eip = c.eip
         /\ \A e \in Tagged : e # call.eip => tagged'[e] = tagged[e]
<1>. DEFINE left == freeing[t] \ {call}
            there == tagged[call.eip].id = call.id /\ tagged[call.eip].at # Nowhere
            freed == IF there THEN [tagged EXCEPT ![call.eip].at = Nowhere] ELSE tagged
<1>1. call \in Freeing /\ freeing[t] \in SUBSET Freeing /\ call.eip \in Tagged
  BY DEF TypeOK, Freeing
<1>2. /\ freed \in [Tagged -> [at : Devices \cup {Nowhere}, id : Id]]
      /\ \A e \in Tagged : e # call.eip => freed[e] = tagged[e]
  <2>1. [tagged[call.eip] EXCEPT !.at = Nowhere] \in [at : Devices \cup {Nowhere}, id : Id]
    BY <1>1 DEF TypeOK
  <2>2. [tagged EXCEPT ![call.eip].at = Nowhere]
          = [tagged EXCEPT ![call.eip] = [tagged[call.eip] EXCEPT !.at = Nowhere]]
    BY <1>1 DEF TypeOK
  <2>. QED
    BY <1>1, <2>1, <2>2 DEF TypeOK
<1>3. /\ Retried(call) \in SUBSET Freeing /\ \A d \in Retried(call) : d.eip = call.eip
  BY <1>1, RetriedTyping
<1>4. /\ tagged' \in {tagged, freed} /\ (Fault \/ NoFault)
      /\ AfterRejection(t, call) \/ UNCHANGED pc
      /\ UNCHANGED <<owner, elastic, active, task, taking, privateCalls, roleChanges, crashes>>
  BY DEF Free, FaultOrLost
<1>5. /\ tagged' \in [Tagged -> [at : Devices \cup {Nowhere}, id : Id]]
      /\ \A e \in Tagged : e # call.eip => tagged'[e] = tagged[e]
  BY <1>2, <1>4 DEF TypeOK
<1>6. /\ freeing' = [freeing EXCEPT ![t] = left \cup Retried(call)]
         \/ freeing' = [freeing EXCEPT ![t] = left]
  BY DEF Free
<1>7. /\ freeing' \in [Tasks -> SUBSET Freeing]
      /\ \A u \in Tasks \ {t} : freeing'[u] = freeing[u]
      /\ \A c \in freeing'[t] : \E b \in freeing[t] : b.eip = c.eip
  <2>1. left \in SUBSET Freeing /\ left \cup Retried(call) \in SUBSET Freeing
    BY <1>1, <1>3
  <2>2. \A c \in left \cup Retried(call) : \E b \in freeing[t] : b.eip = c.eip
    BY <1>3
  <2>. QED
    BY <1>6, <2>1, <2>2 DEF TypeOK
<1>8. /\ publicStage' \in [Tasks -> Stage]
      /\ \A u \in Tasks \ {t} : publicStage'[u] = publicStage[u]
      /\ publicStage'[t] = "second" => publicStage[t] = "second" \/ freeing'[t] = {}
  <2>1. CASE /\ freeing' = [freeing EXCEPT ![t] = left]
             /\ publicStage' = [publicStage EXCEPT ![t] =
                                  IF @ = "broken" THEN @ ELSE StageAfter(left)]
    <3>1. freeing'[t] = left
      BY <2>1 DEF TypeOK
    <3>. QED
      BY <2>1, <3>1, StageTyping DEF TypeOK
  <2>2. CASE publicStage' = [publicStage EXCEPT ![t] = StageAfterRejection(@, call)]
    BY <2>2, StageTyping DEF TypeOK
  <2>. QED
    BY <2>1, <2>2 DEF Free
<1>9. /\ pc' \in [Tasks -> {"idle"} \cup Open \cup Ended]
      /\ \A u \in Tasks \ {t} : pc'[u] = pc[u]
      /\ Ran(t)
  BY <1>4, Rejection DEF Ran
<1>10. faults' \in 0..MaxFaults
  BY <1>4, FaultTyping
<1>11. TypeOK'
  BY <1>4, <1>5, <1>7, <1>8, <1>9, <1>10 DEF TypeOK, privateCalls
<1>. QED
  BY <1>4, <1>5, <1>7, <1>8, <1>9, <1>11 DEF Same, privateCalls

LEMMA TakeStep ==
  ASSUME TypeOK, NEW t \in Tasks, NEW call \in taking[t], Take(t, call),
         task[t].host \in Devices
  PROVE  /\ TypeOK' /\ \A u \in Tasks \ {t} : Same(u)
         /\ Ran(t) /\ UNCHANGED <<owner, elastic, active, task, publicStage, freeing, privateCalls>>
         /\ publicStage[t] = "second"
         /\ \A e \in Tagged : tagged'[e] = tagged[e] \/ tagged'[e].at = task[t].host
         /\ pc'[t] = "update" =>
              \A b \in taking[t] : \/ tagged'[b.eip].at = task[t].host
                                   \/ \E c \in taking'[t] : c.eip = b.eip
<1>. DEFINE left == taking[t] \ {call}
            taken == [tagged EXCEPT ![call.eip] = [at |-> task[t].host, id |-> t]]
<1>1. call \in Taking /\ taking[t] \in SUBSET Taking /\ call.eip \in Tagged
  BY DEF TypeOK, Taking
<1>2. /\ taken \in [Tagged -> [at : Devices \cup {Nowhere}, id : Id]]
      /\ \A e \in Tagged : taken[e] = tagged[e] \/ taken[e].at = task[t].host
      /\ taken[call.eip].at = task[t].host
  <2>1. [at |-> task[t].host, id |-> t] \in [at : Devices \cup {Nowhere}, id : Id]
    BY DEF Id
  <2>. QED
    BY <1>1, <2>1 DEF TypeOK
<1>3. /\ Retried(call) \in SUBSET Taking /\ \A d \in Retried(call) : d.eip = call.eip
  BY <1>1, RetriedTyping
<1>4. /\ tagged' \in {tagged, taken} /\ (Fault \/ NoFault)
      /\ AfterRejection(t, call) \/ UNCHANGED pc
      /\ UNCHANGED <<owner, elastic, active, task, publicStage, freeing, privateCalls,
                     roleChanges, crashes>>
      /\ publicStage[t] = "second"
  BY DEF Take, FaultOrLost
<1>5. /\ tagged' \in [Tagged -> [at : Devices \cup {Nowhere}, id : Id]]
      /\ \A e \in Tagged : tagged'[e] = tagged[e] \/ tagged'[e].at = task[t].host
  BY <1>2, <1>4 DEF TypeOK
<1>6. /\ taking' = [taking EXCEPT ![t] = left \cup Retried(call)]
         \/ taking' = [taking EXCEPT ![t] = left]
  BY DEF Take
<1>7. /\ taking' \in [Tasks -> SUBSET Taking]
      /\ \A u \in Tasks \ {t} : taking'[u] = taking[u]
  <2>1. left \in SUBSET Taking /\ left \cup Retried(call) \in SUBSET Taking
    BY <1>1, <1>3
  <2>. QED
    BY <1>6, <2>1 DEF TypeOK
<1>8. /\ pc' \in [Tasks -> {"idle"} \cup Open \cup Ended]
      /\ \A u \in Tasks \ {t} : pc'[u] = pc[u]
      /\ Ran(t)
  BY <1>4, Rejection DEF Ran
<1>9. ASSUME pc'[t] = "update", NEW b \in taking[t]
      PROVE  tagged'[b.eip].at = task[t].host \/ \E c \in taking'[t] : c.eip = b.eip
  <2>1. left \subseteq taking'[t]
    BY <1>6 DEF TypeOK
  <2>2. CASE b # call
    BY <2>1, <2>2
  <2>3. CASE tagged' = taken /\ b = call
    BY <1>2, <2>3
  <2>4. CASE /\ taking' = [taking EXCEPT ![t] = left \cup Retried(call)]
             /\ AfterRejection(t, call) /\ b = call
    <3>1. Retried(call) # {}
      BY <1>9, <2>4, Rejection
    <3>2. taking'[t] = left \cup Retried(call)
      BY <2>4 DEF TypeOK
    <3>. QED
      BY <1>3, <2>4, <3>1, <3>2
  <2>. QED
    BY <2>2, <2>3, <2>4 DEF Take
<1>10. faults' \in 0..MaxFaults
  BY <1>4, FaultTyping
<1>11. TypeOK'
  BY <1>4, <1>5, <1>7, <1>8, <1>10 DEF TypeOK, privateCalls
<1>. QED
  BY <1>4, <1>5, <1>7, <1>8, <1>9, <1>11 DEF Same, privateCalls

LEMMA UnassignStep ==
  ASSUME TypeOK, NEW t \in Tasks, NEW call \in unassigning[t], Unassign(t, call)
  PROVE  /\ TypeOK' /\ \A u \in Tasks \ {t} : Same(u)
         /\ Ran(t) /\ UNCHANGED <<tagged, active, task, publicCalls, assigning, chains>>
         /\ privateStage'[t] = "second" => privateStage[t] = "second" \/ unassigning'[t] = {}
         /\ \A c \in unassigning'[t] : \E b \in unassigning[t] :
              b.addresses = c.addresses /\ b.from = c.from
         /\ \A a \in Addresses :
              \/ owner'[a] = owner[a] /\ elastic'[a] = elastic[a]
              \/ a \in call.addresses /\ owner'[a] = Nowhere
         /\ pc'[t] = "update" =>
              \A b \in unassigning[t] :
                \/ \A a \in b.addresses : owner'[a] # b.from
                \/ \E c \in unassigning'[t] : c.addresses = b.addresses /\ c.from = b.from
<1>. DEFINE left == unassigning[t] \ {call}
            gone == {a \in call.addresses : owner[a] = call.from}
            Gone == /\ owner' = [a \in Addresses |-> IF a \in gone THEN Nowhere ELSE owner[a]]
                    /\ elastic' = [a \in Addresses |-> IF a \in gone THEN Unbound ELSE elastic[a]]
<1>1. /\ call \in Unassigning /\ unassigning[t] \in SUBSET Unassigning
      /\ call.addresses \in SUBSET Addresses /\ call.from \in Devices /\ call.from # Nowhere
  BY Names DEF TypeOK, Unassigning
<1>2. /\ Retried(call) \in SUBSET Unassigning
      /\ \A d \in Retried(call) : d.addresses = call.addresses /\ d.from = call.from
  BY <1>1, RetriedTyping
<1>3. /\ Gone \/ UNCHANGED <<owner, elastic>>
      /\ Fault \/ NoFault
      /\ AfterRejection(t, call) \/ UNCHANGED pc
      /\ UNCHANGED <<tagged, active, task, publicCalls, assigning, chains, roleChanges, crashes>>
  BY DEF Unassign, FaultOrLost
<1>4. /\ owner' \in [Addresses -> Devices \cup {Nowhere}]
      /\ elastic' \in [Addresses -> Association]
      /\ \A b \in Addresses :
           \/ owner'[b] = owner[b] /\ elastic'[b] = elastic[b]
           \/ b \in call.addresses /\ owner'[b] = Nowhere
  <2>1. Unbound \in Association
    BY BoundAssumption DEF Unbound, Association
  <2>. QED
    BY <1>1, <1>3, <2>1 DEF TypeOK
<1>5. /\ unassigning' = [unassigning EXCEPT ![t] = left \cup Retried(call)]
         \/ unassigning' = [unassigning EXCEPT ![t] = left]
  BY DEF Unassign
<1>6. /\ unassigning' \in [Tasks -> SUBSET Unassigning]
      /\ \A u \in Tasks \ {t} : unassigning'[u] = unassigning[u]
      /\ \A c \in unassigning'[t] : \E b \in unassigning[t] :
           b.addresses = c.addresses /\ b.from = c.from
  <2>1. left \in SUBSET Unassigning /\ left \cup Retried(call) \in SUBSET Unassigning
    BY <1>1, <1>2
  <2>2. \A c \in left \cup Retried(call) : \E b \in unassigning[t] :
          b.addresses = c.addresses /\ b.from = c.from
    BY <1>2
  <2>. QED
    BY <1>5, <2>1, <2>2 DEF TypeOK
<1>7. /\ privateStage' \in [Tasks -> Stage]
      /\ \A u \in Tasks \ {t} : privateStage'[u] = privateStage[u]
      /\ privateStage'[t] = "second" => privateStage[t] = "second" \/ unassigning'[t] = {}
  <2>1. CASE /\ unassigning' = [unassigning EXCEPT ![t] = left]
             /\ privateStage' = [privateStage EXCEPT ![t] =
                                   IF @ = "broken" THEN @ ELSE StageAfter(left)]
    <3>1. unassigning'[t] = left
      BY <2>1 DEF TypeOK
    <3>. QED
      BY <2>1, <3>1, StageTyping DEF TypeOK
  <2>2. CASE privateStage' = [privateStage EXCEPT ![t] = StageAfterRejection(@, call)]
    BY <2>2, StageTyping DEF TypeOK
  <2>. QED
    BY <2>1, <2>2 DEF Unassign
<1>8. /\ pc' \in [Tasks -> {"idle"} \cup Open \cup Ended]
      /\ \A u \in Tasks \ {t} : pc'[u] = pc[u]
      /\ Ran(t)
  BY <1>3, Rejection DEF Ran
<1>9. ASSUME pc'[t] = "update", NEW b \in unassigning[t]
      PROVE  \/ \A a \in b.addresses : owner'[a] # b.from
             \/ \E c \in unassigning'[t] : c.addresses = b.addresses /\ c.from = b.from
  <2>1. left \subseteq unassigning'[t]
    BY <1>5 DEF TypeOK
  <2>2. CASE b # call
    BY <2>1, <2>2
  <2>3. CASE Gone /\ b = call
    BY <1>1, <2>3 DEF TypeOK
  <2>4. CASE /\ unassigning' = [unassigning EXCEPT ![t] = left \cup Retried(call)]
             /\ AfterRejection(t, call) /\ b = call
    <3>1. Retried(call) # {}
      BY <1>9, <2>4, Rejection
    <3>2. unassigning'[t] = left \cup Retried(call)
      BY <2>4 DEF TypeOK
    <3>. QED
      BY <1>2, <2>4, <3>1, <3>2
  <2>. QED
    BY <2>2, <2>3, <2>4 DEF Unassign
<1>10. faults' \in 0..MaxFaults
  BY <1>3, FaultTyping
<1>11. TypeOK'
  BY <1>3, <1>4, <1>6, <1>7, <1>8, <1>10 DEF TypeOK, publicCalls
<1>. QED
  BY <1>3, <1>4, <1>6, <1>7, <1>8, <1>9, <1>11 DEF Same, publicCalls

\* The batches of task t.
LEMMA BatchTyping ==
  ASSUME TypeOK, NEW t \in Tasks, NEW batch \in assigning[t]
  PROVE  /\ batch \in Assigning /\ batch.addresses \in SUBSET Addresses
         /\ [batch EXCEPT !.step = "reassociate"] \in Assigning
         /\ Launched(t, batch) \in SUBSET Chains
         /\ \A c \in Launched(t, batch) : c.address \in task[t].public
         /\ pc[t] # "lost" =>
              \A a \in batch.addresses \cap task[t].public :
                \E c \in Launched(t, batch) : c.address = a
<1>1. /\ batch \in Assigning /\ batch.addresses \in SUBSET Addresses /\ batch.tries \in Tries
      /\ [batch EXCEPT !.step = "reassociate"] \in Assigning
  BY DEF TypeOK, Assigning
<1>2. Unbound \in Association
  BY BoundAssumption DEF Unbound, Association
<1>3. ASSUME pc[t] # "lost", NEW a \in batch.addresses \cap task[t].public
      PROVE  \E c \in Launched(t, batch) : c.address = a
  <2>. DEFINE c == [address |-> a, step |-> "lookUp", found |-> Unbound, tries |-> batch.tries]
  <2>1. c \in Launched(t, batch) /\ c.address = a
    BY <1>3 DEF Launched
  <2>. QED
    BY <2>1
<1>4. /\ Launched(t, batch) \in SUBSET Chains
      /\ \A c \in Launched(t, batch) : c.address \in task[t].public
  BY <1>1, <1>2 DEF Launched, Chains
<1>. QED
  BY <1>1, <1>3, <1>4

\* A batch is assigned as a whole, when no other device has any of it, and the
\* chains for its Elastic IPs start, or it is to be assigned again.
LEMMA AssignStep ==
  ASSUME TypeOK, NEW t \in Tasks, NEW batch \in assigning[t], Assign(t, batch),
         task[t].host \in Devices
  PROVE  /\ TypeOK' /\ \A u \in Tasks \ {t} : Same(u)
         /\ Ran(t) /\ privateStage[t] = "second"
         /\ UNCHANGED <<tagged, elastic, active, task, publicCalls, privateStage, unassigning>>
         /\ \A a \in Addresses :
              \/ owner'[a] = owner[a]
              \/ Owes(t, a) /\ owner[a] = Nowhere /\ owner'[a] = task[t].host
         /\ chains[t] \subseteq chains'[t]
         /\ \A c \in chains'[t] : c \in chains[t] \/ c.address \in task[t].public
         /\ pc'[t] = "update" => \A a \in Addresses : Owes(t, a) =>
              \/ Owes(t, a)'
              \/ owner'[a] = task[t].host /\ (a \in task[t].public => Chained(t, a)')
<1>. DEFINE here == {Nowhere, task[t].host}
            assigned == [a \in Addresses |->
              IF a \in batch.addresses THEN task[t].host ELSE owner[a]]
            accepted == \A a \in batch.addresses : owner[a] \in here
            waiting == IF Launched(t, batch) = {} THEN {}
                       ELSE {[batch EXCEPT !.step = "reassociate"]}
            left == assigning[t] \ {batch}
<1>1. /\ batch \in Assigning /\ batch.addresses \in SUBSET Addresses
      /\ waiting \in SUBSET Assigning /\ Launched(t, batch) \in SUBSET Chains
      /\ \A c \in Launched(t, batch) : c.address \in task[t].public
      /\ assigning[t] \in SUBSET Assigning
  BY BatchTyping DEF TypeOK
<1>2. /\ Retried(batch) \in SUBSET Assigning
      /\ \A b \in Retried(batch) : b.addresses = batch.addresses /\ b.step = batch.step
  BY <1>1, RetriedTyping
<1>3. /\ privateStage[t] = "second" /\ batch.step = "assign"
      /\ UNCHANGED <<tagged, elastic, active, task, publicCalls, privateStage, unassigning,
                     roleChanges, crashes>>
  BY DEF Assign
<1>4. \/ /\ accepted /\ owner' = assigned /\ NoFault /\ UNCHANGED pc
         /\ assigning' = [assigning EXCEPT ![t] = left \cup waiting]
         /\ chains' = [chains EXCEPT ![t] = @ \cup Launched(t, batch)]
      \/ /\ owner' = owner \/ (accepted /\ owner' = assigned)
         /\ Fault \/ NoFault
         /\ assigning' = [assigning EXCEPT ![t] = left \cup Retried(batch)]
         /\ AfterRejection(t, batch) /\ UNCHANGED chains
  BY DEF Assign, FaultOrLost
<1>. HIDE DEF waiting
<1>5. /\ owner' \in [Addresses -> Devices \cup {Nowhere}]
      /\ \A a \in Addresses :
           \/ owner'[a] = owner[a]
           \/ Owes(t, a) /\ owner[a] = Nowhere /\ owner'[a] = task[t].host
  <2>1. assigned \in [Addresses -> Devices \cup {Nowhere}]
    BY DEF TypeOK
  <2>2. owner \in [Addresses -> Devices \cup {Nowhere}]
    BY DEF TypeOK
  <2>3. ASSUME accepted, owner' = assigned, NEW a \in Addresses, owner'[a] # owner[a]
        PROVE  Owes(t, a) /\ owner[a] = Nowhere /\ owner'[a] = task[t].host
    BY <1>3, <2>3 DEF Owes
  <2>. QED
    BY <1>4, <2>1, <2>2, <2>3
<1>6. /\ assigning' \in [Tasks -> SUBSET Assigning]
      /\ \A u \in Tasks \ {t} : assigning'[u] = assigning[u]
      /\ left \subseteq assigning'[t]
  BY <1>1, <1>2, <1>4 DEF TypeOK
<1>7. /\ chains' \in [Tasks -> SUBSET Chains]
      /\ \A u \in Tasks \ {t} : chains'[u] = chains[u]
      /\ chains[t] \subseteq chains'[t]
      /\ \A c \in chains'[t] : c \in chains[t] \/ c.address \in task[t].public
  BY <1>1, <1>4 DEF TypeOK
<1>8. /\ pc' \in [Tasks -> {"idle"} \cup Open \cup Ended]
      /\ \A u \in Tasks \ {t} : pc'[u] = pc[u]
      /\ Ran(t) /\ faults' \in 0..MaxFaults
  BY <1>4, Rejection, FaultTyping DEF Ran
<1>9. ASSUME pc'[t] = "update", NEW a \in Addresses, Owes(t, a)
      PROVE  \/ Owes(t, a)'
             \/ owner'[a] = task[t].host /\ (a \in task[t].public => Chained(t, a)')
  <2>1. PICK b \in assigning[t] : b.step = "assign" /\ a \in b.addresses
    BY <1>9 DEF Owes
  <2>2. CASE b # batch
    BY <1>6, <2>1, <2>2 DEF Owes
  <2>3. CASE /\ b = batch /\ owner' = assigned /\ UNCHANGED pc
             /\ chains' = [chains EXCEPT ![t] = @ \cup Launched(t, batch)]
    <3>1. owner'[a] = task[t].host
      BY <2>1, <2>3
    <3>2. ASSUME a \in task[t].public PROVE Chained(t, a)'
      <4>1. PICK c \in Launched(t, batch) : c.address = a
        BY <1>9, <2>1, <2>3, <3>2, BatchTyping
      <4>2. c \in chains'[t]
        BY <2>3 DEF TypeOK
      <4>. QED
        BY <4>1, <4>2 DEF Chained
    <3>. QED
      BY <3>1, <3>2
  <2>4. CASE /\ b = batch /\ AfterRejection(t, batch)
             /\ assigning' = [assigning EXCEPT ![t] = left \cup Retried(batch)]
    <3>1. PICK d \in Retried(batch) : TRUE
      BY <1>9, <2>4, Rejection
    <3>2. d \in assigning'[t]
      BY <2>4 DEF TypeOK
    <3>. QED
      BY <1>2, <1>3, <2>1, <2>4, <3>1, <3>2 DEF Owes
  <2>. QED
    BY <1>4, <2>2, <2>3, <2>4
<1>10. TypeOK'
  BY <1>3, <1>5, <1>6, <1>7, <1>8 DEF TypeOK, publicCalls
<1>. QED
  BY <1>3, <1>5, <1>6, <1>7, <1>8, <1>9, <1>10 DEF Same, publicCalls

\* What one step of a chain does to the batches and the chains of its task: a
\* chain that ends was abandoned, or has a batch to be assigned again, or `done'.
Went(t, chain, done) ==
  /\ assigning' \in [Tasks -> SUBSET Assigning] /\ chains' \in [Tasks -> SUBSET Chains]
  /\ pc' \in [Tasks -> {"idle"} \cup Open \cup Ended]
  /\ \A u \in Tasks \ {t} :
       pc'[u] = pc[u] /\ assigning'[u] = assigning[u] /\ chains'[u] = chains[u]
  /\ Ran(t) /\ faults' \in 0..MaxFaults
  /\ \A a : Owes(t, a) => Owes(t, a)'
  /\ assigning[t] = {} => assigning'[t] = {}
  /\ \A c \in chains'[t] : \E b \in chains[t] : b.address = c.address
  /\ chains[t] \ {chain} \subseteq chains'[t]
  /\ pc'[t] = "update" =>
       \/ Chained(t, chain.address)' \/ Owes(t, chain.address)'
       \/ Abandoned(t, chain) \/ done

LEMMA WentOn ==
  ASSUME TypeOK, NEW t \in Tasks, NEW chain \in chains[t], NEW next \in SUBSET Chains,
         \A c \in next : c.address = chain.address, Onward(t, chain, next)
  PROVE  Went(t, chain, next = {})
<1>. DEFINE left == (chains[t] \ {chain}) \cup IF pc[t] = "lost" THEN {} ELSE next
            over == {b \in assigning[t] :
              WaitsFor(b, chain) /\ \A c \in left : ~WaitsFor(b, c)}
<1>1. /\ chains' = [chains EXCEPT ![t] = left]
      /\ assigning' = [assigning EXCEPT ![t] = assigning[t] \ over]
      /\ NoFault /\ UNCHANGED pc
  BY DEF Onward
<1>2. /\ left \in SUBSET Chains /\ chains[t] \ {chain} \subseteq left
      /\ \A c \in left : \E b \in chains[t] : b.address = c.address
      /\ pc[t] # "lost" => next \subseteq left
  BY DEF TypeOK
<1>3. \A b \in over : b.step = "reassociate"
  BY DEF WaitsFor
<1>. HIDE DEF left, over
<1>4. /\ chains' \in [Tasks -> SUBSET Chains] /\ chains'[t] = left
      /\ \A u \in Tasks \ {t} : chains'[u] = chains[u]
  BY <1>1, <1>2 DEF TypeOK
<1>5. /\ assigning' \in [Tasks -> SUBSET Assigning] /\ assigning'[t] = assigning[t] \ over
      /\ \A u \in Tasks \ {t} : assigning'[u] = assigning[u]
  BY <1>1 DEF TypeOK
<1>6. \A a : Owes(t, a) => Owes(t, a)'
  BY <1>3, <1>5 DEF Owes
<1>7. ASSUME pc'[t] = "update", next # {} PROVE Chained(t, chain.address)'
  <2>1. PICK c \in next : TRUE
    BY <1>7
  <2>. QED
    BY <1>1, <1>2, <1>4, <1>7, <2>1 DEF Chained
<1>8. /\ pc' \in [Tasks -> {"idle"} \cup Open \cup Ended]
      /\ \A u \in Tasks \ {t} : pc'[u] = pc[u]
      /\ Ran(t) /\ faults' \in 0..MaxFaults
  BY <1>1, FaultTyping DEF TypeOK, Ran
<1>9. \A c \in chains'[t] : \E b \in chains[t] : b.address = c.address
  BY <1>2, <1>4
<1>10. chains[t] \ {chain} \subseteq chains'[t] /\ (assigning[t] = {} => assigning'[t] = {})
  BY <1>2, <1>4, <1>5
<1>. QED
  BY <1>4, <1>5, <1>6, <1>7, <1>8, <1>9, <1>10 DEF Went

LEMMA WentBack ==
  ASSUME TypeOK, NEW t \in Tasks, NEW chain \in chains[t], Backward(t, chain),
         Fault \/ NoFault
  PROVE  Went(t, chain, FALSE)
<1>. DEFINE batch == {b \in assigning[t] : WaitsFor(b, chain)}
            rest == UNION {Retried(b) : b \in batch}
            again == {[c EXCEPT !.step = "assign"] : c \in rest}
<1>1. /\ chains' = [chains EXCEPT ![t] = chains[t] \ {chain}]
      /\ assigning' = [assigning EXCEPT ![t] = (assigning[t] \ batch) \cup again]
      /\ IF batch # {} /\ again = {} THEN Rejected(t) ELSE UNCHANGED pc
  BY DEF Backward
<1>2. /\ batch \in SUBSET assigning[t] /\ assigning[t] \in SUBSET Assigning
      /\ \A b \in batch : b.step = "reassociate" /\ chain.address \in b.addresses
      /\ batch = {} => Abandoned(t, chain)
  BY DEF WaitsFor, Abandoned, TypeOK
<1>3. \A c \in rest : c \in Assigning /\ chain.address \in c.addresses
  BY <1>2, RetriedTyping
<1>4. /\ again \in SUBSET Assigning
      /\ \A d \in again : d.step = "assign" /\ chain.address \in d.addresses
  <2>1. \A c \in Assigning : LET d == [c EXCEPT !.step = "assign"] IN
          d \in Assigning /\ d.step = "assign" /\ d.addresses = c.addresses
    BY DEF Assigning
  <2>. QED
    BY <1>3, <2>1
<1>5. batch = {} => again = {}
  OBVIOUS
<1>. HIDE DEF batch, again
<1>6. /\ chains' \in [Tasks -> SUBSET Chains] /\ chains'[t] = chains[t] \ {chain}
      /\ \A u \in Tasks \ {t} : chains'[u] = chains[u]
  BY <1>1 DEF TypeOK
<1>7. /\ assigning' \in [Tasks -> SUBSET Assigning]
      /\ assigning'[t] = (assigning[t] \ batch) \cup again
      /\ \A u \in Tasks \ {t} : assigning'[u] = assigning[u]
  BY <1>1, <1>4 DEF TypeOK
<1>8. \A a : Owes(t, a) => Owes(t, a)'
  BY <1>2, <1>7 DEF Owes
<1>9. /\ pc' \in [Tasks -> {"idle"} \cup Open \cup Ended]
      /\ \A u \in Tasks \ {t} : pc'[u] = pc[u]
      /\ Ran(t)
      /\ pc'[t] = "update" => batch = {} \/ again # {}
  BY <1>1 DEF Rejected, Goto, TypeOK, Ended, Ran
<1>10. pc'[t] = "update" => Owes(t, chain.address)' \/ Abandoned(t, chain)
  BY <1>2, <1>4, <1>7, <1>9 DEF Owes
<1>11. assigning[t] = {} => assigning'[t] = {}
  BY <1>2, <1>5, <1>7
<1>12. faults' \in 0..MaxFaults
  BY FaultTyping
<1>. QED
  BY <1>6, <1>7, <1>8, <1>9, <1>10, <1>11, <1>12 DEF Went

\* One step of a chain: only `free' takes an Elastic IP off, and a chain that has
\* come to its end has put it on.
LEMMA ChainStep ==
  ASSUME TypeOK, NEW t \in Tasks, NEW chain \in chains[t], Chain(t, chain)
  PROVE  /\ TypeOK' /\ \A u \in Tasks \ {t} : Same(u)
         /\ UNCHANGED <<tagged, owner, active, task, publicCalls, privateStage, unassigning>>
         /\ Went(t, chain, elastic'[chain.address] # Unbound)
         /\ \A b \in Addresses : \/ elastic'[b] = elastic[b] \/ elastic'[b] # Unbound
                                 \/ b = chain.address /\ chain.step = "free"
<1>. DEFINE a == chain.address
            Effect == /\ elastic' \in [Addresses -> Association]
                      /\ \A b \in Addresses : \/ elastic'[b] = elastic[b] \/ elastic'[b] # Unbound
                                              \/ b = a /\ chain.step = "free"
            Going == Went(t, chain, elastic'[a] # Unbound)
<1>1. /\ chain \in Chains /\ a \in Addresses /\ chain.found \in Association
      /\ chain.tries \in Tries
  BY DEF TypeOK, Chains
<1>2. /\ elastic \in [Addresses -> Association] /\ elastic[a] \in Association
      /\ Unbound \in Association
  BY <1>1, BoundAssumption DEF TypeOK, Unbound, Association
<1>3. FaultOrLost(t) => Fault \/ NoFault
  BY DEF FaultOrLost
<1>4. ASSUME Backward(t, chain), Fault \/ NoFault PROVE Going
  BY <1>4, WentBack DEF Went
<1>5. ASSUME NEW next \in SUBSET Chains, \A c \in next : c.address = a, Onward(t, chain, next),
             next # {} \/ elastic'[a] # Unbound
      PROVE  Going
  BY <1>5, WentOn DEF Went
<1>6. ASSUME LookUp(t, chain) PROVE Effect /\ Going
  <2>. DEFINE next == {[chain EXCEPT !.found = elastic[a],
                                     !.step = IF elastic[a] = Unbound THEN "bind" ELSE "free"]}
  <2>1. next \in SUBSET Chains /\ (\A c \in next : c.address = a) /\ next # {}
    BY <1>1, <1>2 DEF Chains
  <2>2. /\ UNCHANGED elastic
        /\ Onward(t, chain, next) \/ (Backward(t, chain) /\ (Fault \/ NoFault))
    BY <1>3, <1>6 DEF LookUp
  <2>. HIDE DEF next
  <2>. QED
    BY <1>2, <1>4, <1>5, <2>1, <2>2
<1>7. ASSUME FreeElastic(t, chain) PROVE Effect /\ Going
  <2>. DEFINE freed == IF elastic[a] = chain.found THEN [elastic EXCEPT ![a] = Unbound] ELSE elastic
              next == {[chain EXCEPT !.step = "bind"]}
  <2>1. next \in SUBSET Chains /\ (\A c \in next : c.address = a) /\ next # {}
    BY <1>1 DEF Chains
  <2>2. /\ freed \in [Addresses -> Association]
        /\ \A b \in Addresses : freed[b] = elastic[b] \/ b = a
    BY <1>1, <1>2
  <2>3. /\ elastic' \in {elastic, freed} /\ chain.step = "free"
        /\ Onward(t, chain, next) \/ (Backward(t, chain) /\ (Fault \/ NoFault))
    BY <1>3, <1>7 DEF FreeElastic
  <2>. HIDE DEF next, freed
  <2>4. Effect
    BY <1>2, <2>2, <2>3
  <2>. QED
    BY <1>4, <1>5, <2>1, <2>3, <2>4
<1>8. ASSUME Bind(t, chain) PROVE Effect /\ Going
  <2>. DEFINE ids == ({elastic[a]} \ {Unbound}) \cup {[by |-> t, tries |-> chain.tries]}
              bound == {[elastic EXCEPT ![a] = id] : id \in ids}
  <2>1. \A id \in ids : id \in Association /\ id # Unbound
    BY <1>1, <1>2, Names
  <2>. HIDE DEF ids
  <2>2. \A f \in bound : /\ f \in [Addresses -> Association] /\ f[a] # Unbound
                         /\ \A b \in Addresses : f[b] = elastic[b] \/ f[b] # Unbound
    BY <1>1, <1>2, <2>1
  <2>3. /\ elastic' = elastic \/ elastic' \in bound
        /\ \/ Onward(t, chain, {}) /\ elastic' \in bound
           \/ Backward(t, chain) /\ (Fault \/ NoFault)
    BY <1>3, <1>8, Zenon DEF Bind, ids
  <2>. HIDE DEF bound
  <2>4. Effect
    BY <1>2, <2>2, <2>3
  <2>5. Going
    BY <1>4, <1>5, <2>2, <2>3
  <2>. QED
    BY <2>4, <2>5
<1>9. Effect /\ Going
  BY <1>6, <1>7, <1>8 DEF Chain
<1>10. UNCHANGED <<tagged, owner, active, task, publicCalls, privateStage, unassigning,
                   roleChanges, crashes>>
  BY DEF Chain
<1>11. TypeOK'
  BY <1>9, <1>10 DEF TypeOK, Went, publicCalls
<1>. QED
  BY <1>9, <1>10, <1>11 DEF Same, Went, publicCalls

LEMMA SucceedStep ==
  ASSUME TypeOK, NEW t \in Tasks, Succeed(t)
  PROVE  /\ TypeOK' /\ \A u \in Tasks \ {t} : Same(u)
         /\ UNCHANGED <<cloud, active, task, publicCalls, privateCalls>>
         /\ UpdatesDone(t) /\ pc[t] = "update" /\ pc'[t] = "succeeded"
<1>1. /\ pc' \in [Tasks -> {"idle"} \cup Open \cup Ended]
      /\ \A u \in Tasks \ {t} : pc'[u] = pc[u]
      /\ pc[t] = "update" /\ pc'[t] = "succeeded"
  BY DEF Succeed, Goto, TypeOK, Ended
<1>2. UNCHANGED <<cloud, active, task, publicCalls, privateCalls, budgets>> /\ UpdatesDone(t)
  BY DEF Succeed
<1>. QED
  BY <1>1, <1>2 DEF TypeOK, Same, cloud, publicCalls, privateCalls, budgets

LEMMA StepTyping ==
  ASSUME TypeOK, NEW t \in Tasks, Orderly(t), Step(t)
  PROVE  TypeOK' /\ \A u \in Tasks \ {t} : Same(u)
<1>1. CASE \E call \in taking[t] : Take(t, call)
  <2>1. task[t].host \in Devices
    BY <1>1 DEF Orderly
  <2>. QED
    BY <1>1, <2>1, TakeStep
<1>2. CASE \E batch \in assigning[t] : Assign(t, batch)
  <2>1. task[t].host \in Devices
    BY <1>2 DEF Orderly
  <2>. QED
    BY <1>2, <2>1, AssignStep
<1>. QED
  BY <1>1, <1>2, TakeOverStep, DiscoverStep, FreeStep, UnassignStep, ChainStep, SucceedStep
     DEF Step, CloudCall

\* A task that has overlapped another one stays so, and what has strayed too.
LEMMA AloneStep ==
  ASSUME alone \in [Tasks -> BOOLEAN], OneBusy, [MCNext]_mcvars
  PROVE  /\ alone' \in [Tasks -> BOOLEAN]
         /\ \A t \in Tasks : alone'[t] => alone[t]
         /\ OneBusy' /\ UNCHANGED had /\ strayed \subseteq strayed'
         /\ MCNext => \A t \in Tasks, a \in Addresses : Strays(t, a) => <<t, a>> \in strayed'
<1>1. CASE MCNext
  BY <1>1 DEF MCNext, OneBusy
<1>2. CASE UNCHANGED mcvars /\ ~MCNext
  <2>1. \A t \in Tasks : Busy(t)' = Busy(t)
    BY <1>2 DEF mcvars, vars, publicCalls, privateCalls, Busy
  <2>. QED
    BY <1>2, <2>1 DEF OneBusy, mcvars
<1>. QED
  BY <1>1, <1>2

\* A task that takes a step other than its first is under way.
LEMMA Working ==
  ASSUME TypeOK, NEW t \in Tasks, Orderly(t), Step(t), ~ Busy(t)
  PROVE  UNCHANGED cloud
<1>1. ASSUME NEW d \in Devices, NEW gained \in SUBSET Addresses, TakeOver(t, d, gained)
      PROVE  UNCHANGED cloud
  BY <1>1 DEF TakeOver
<1>. QED
  BY <1>1 DEF Step, Discover, CloudCall, Free, Take, Unassign, Assign, Chain, Succeed, Busy, Open

\* The restart of a device, seen from one task.
Cut(t) ==
  /\ pc'[t] = "lost" /\ task'[t] = task[t] /\ task[t].host \in Devices
  /\ publicStage'[t] = "second" => publicStage[t] = "second"
  /\ privateStage'[t] = "second" <=> privateStage[t] = "second"
  /\ \A c \in freeing'[t] : \E b \in freeing[t] : b.eip = c.eip
  /\ \A b \in taking[t] : \E c \in taking'[t] : c.eip = b.eip
  /\ \A c \in unassigning'[t] : \E b \in unassigning[t] : b.addresses = c.addresses
  /\ \A a : Owes(t, a) => Owes(t, a)'
  /\ assigning[t] = {} => assigning'[t] = {}
  /\ chains'[t] = chains[t]

\* The last try of a call.
AtLast(c) == [c EXCEPT !.tries = 1]

LEMMA LastTyping ==
  /\ \A c \in Freeing : AtLast(c) \in Freeing /\ AtLast(c).eip = c.eip
  /\ \A c \in Taking : AtLast(c) \in Taking /\ AtLast(c).eip = c.eip
  /\ \A c \in Unassigning : AtLast(c) \in Unassigning /\ AtLast(c).addresses = c.addresses
  /\ \A c \in Assigning : /\ AtLast(c) \in Assigning
                          /\ AtLast(c).addresses = c.addresses /\ AtLast(c).step = c.step
<1>1. \A c \in Freeing : AtLast(c) \in Freeing /\ AtLast(c).eip = c.eip
  BY TriesTyping DEF AtLast, Freeing
<1>2. \A c \in Taking : AtLast(c) \in Taking /\ AtLast(c).eip = c.eip
  BY TriesTyping DEF AtLast, Taking
<1>3. \A c \in Unassigning : AtLast(c) \in Unassigning /\ AtLast(c).addresses = c.addresses
  BY TriesTyping DEF AtLast, Unassigning
<1>4. \A c \in Assigning : /\ AtLast(c) \in Assigning
                           /\ AtLast(c).addresses = c.addresses /\ AtLast(c).step = c.step
  BY TriesTyping DEF AtLast, Assigning
<1>. QED
  BY <1>1, <1>2, <1>3, <1>4

LEMMA RestartStep ==
  ASSUME TypeOK, NEW d \in Devices, Restart(d)
  PROVE  /\ TypeOK' /\ UNCHANGED cloud
         /\ \A t \in Tasks : Same(t) \/ Cut(t)
<1>. DEFINE mine == {t \in Tasks : task[t].host = d /\ Busy(t)}
            Last(calls) == [t \in Tasks |->
              IF t \in mine THEN {AtLast(c) : c \in calls[t]} ELSE calls[t]]
            Issued == [t \in Tasks |->
              IF t \in mine THEN {c \in assigning[t] : c.step = "assign"} ELSE assigning[t]]
            Shut(stage) == [t \in Tasks |->
              IF t \in mine /\ stage[t] = "first" THEN "broken" ELSE stage[t]]
<1>1. /\ freeing' = Last(freeing) /\ taking' = Last(taking)
      /\ unassigning' = Last(unassigning) /\ assigning' = Last(Issued)
  BY Zenon DEF Restart, AtLast
<1>2. /\ pc' = [t \in Tasks |-> IF t \in mine THEN "lost" ELSE pc[t]]
      /\ publicStage' = Shut(publicStage) /\ privateStage' = Shut(privateStage)
      /\ UNCHANGED <<cloud, active, task, chains, roleChanges, faults>>
  BY DEF Restart
<1>3. crashes' \in 0..MaxCrashes
  BY BoundAssumption DEF Restart, TypeOK
<1>. HIDE DEF mine
<1>4. /\ pc' \in [Tasks -> {"idle"} \cup Open \cup Ended]
      /\ publicStage' \in [Tasks -> Stage] /\ privateStage' \in [Tasks -> Stage]
  BY <1>2 DEF TypeOK, Stage, Ended
<1>5. /\ freeing' \in [Tasks -> SUBSET Freeing] /\ taking' \in [Tasks -> SUBSET Taking]
      /\ unassigning' \in [Tasks -> SUBSET Unassigning]
      /\ assigning' \in [Tasks -> SUBSET Assigning]
  <2>1. freeing' \in [Tasks -> SUBSET Freeing]
    BY <1>1, LastTyping DEF TypeOK
  <2>2. taking' \in [Tasks -> SUBSET Taking]
    BY <1>1, LastTyping DEF TypeOK
  <2>3. unassigning' \in [Tasks -> SUBSET Unassigning]
    BY <1>1, LastTyping DEF TypeOK
  <2>4. assigning' \in [Tasks -> SUBSET Assigning]
    BY <1>1, LastTyping DEF TypeOK
  <2>. QED
    BY <2>1, <2>2, <2>3, <2>4
<1>6. TypeOK'
  BY <1>2, <1>3, <1>4, <1>5 DEF TypeOK, cloud
<1>7. ASSUME NEW t \in Tasks, t \notin mine PROVE Same(t)
  BY <1>1, <1>2, <1>7 DEF Same
<1>8. ASSUME NEW t \in Tasks, t \in mine PROVE Cut(t)
  <2>1. /\ freeing'[t] = {AtLast(c) : c \in freeing[t]}
        /\ taking'[t] = {AtLast(c) : c \in taking[t]}
        /\ unassigning'[t] = {AtLast(c) : c \in unassigning[t]}
        /\ assigning'[t] = {AtLast(c) : c \in {b \in assigning[t] : b.step = "assign"}}
        /\ chains'[t] = chains[t]
    BY <1>1, <1>2, <1>8
  <2>2. /\ freeing[t] \in SUBSET Freeing /\ taking[t] \in SUBSET Taking
        /\ unassigning[t] \in SUBSET Unassigning /\ assigning[t] \in SUBSET Assigning
    BY DEF TypeOK
  <2>3. /\ pc'[t] = "lost" /\ task'[t] = task[t] /\ task[t].host \in Devices
        /\ publicStage'[t] = "second" => publicStage[t] = "second"
        /\ privateStage'[t] = "second" <=> privateStage[t] = "second"
    BY <1>2, <1>8 DEF mine
  <2>4. \A c \in freeing'[t] : \E b \in freeing[t] : b.eip = c.eip
    BY <2>1, <2>2, LastTyping
  <2>5. ASSUME NEW b \in taking[t] PROVE \E c \in taking'[t] : c.eip = b.eip
    <3>1. AtLast(b) \in taking'[t] /\ AtLast(b).eip = b.eip
      BY <2>1, <2>2, LastTyping
    <3>. QED
      BY <3>1
  <2>6. \A c \in unassigning'[t] : \E b \in unassigning[t] : b.addresses = c.addresses
    BY <2>1, <2>2, LastTyping
  <2>7. ASSUME NEW a, Owes(t, a) PROVE Owes(t, a)'
    <3>1. PICK b \in assigning[t] : b.step = "assign" /\ a \in b.addresses
      BY <2>7 DEF Owes
    <3>2. /\ AtLast(b) \in assigning'[t] /\ AtLast(b).step = "assign"
          /\ AtLast(b).addresses = b.addresses
      BY <2>1, <2>2, <3>1, LastTyping
    <3>. QED
      BY <3>1, <3>2 DEF Owes
  <2>8. assigning[t] = {} => assigning'[t] = {}
    BY <2>1
  <2>. QED
    BY <2>1, <2>3, <2>4, <2>5, <2>6, <2>7, <2>8 DEF Cut
<1>. QED
  BY <1>2, <1>6, <1>7, <1>8

-----------------------------------------------------------------------------
(* Tasks keep to their order.                                              *)

LEMMA NextOrderly ==
  ASSUME TypeOK, NEW t \in Tasks, Orderly(t), Staged(t), Step(t)
  PROVE  Orderly(t)'
<1>1. ASSUME NEW d \in Devices, NEW gained \in SUBSET Addresses, TakeOver(t, d, gained)
      PROVE  Orderly(t)'
  BY <1>1, TakeOverStep DEF Orderly, publicCalls, privateCalls
<1>2. CASE Discover(t)
  BY <1>2, DiscoverStep DEF Orderly, Discovered, publicCalls, privateCalls
<1>3. ASSUME NEW call \in freeing[t], Free(t, call) PROVE Orderly(t)'
  BY <1>3, FreeStep DEF Orderly, Ran
<1>4. ASSUME NEW call \in taking[t], Take(t, call) PROVE Orderly(t)'
  <2>1. task[t].host \in Devices
    BY DEF Orderly
  <2>. QED
    BY <1>4, <2>1, TakeStep DEF Orderly, Ran
<1>5. ASSUME NEW call \in unassigning[t], Unassign(t, call) PROVE Orderly(t)'
  BY <1>5, UnassignStep DEF Orderly, Ran
<1>6. ASSUME NEW batch \in assigning[t], Assign(t, batch) PROVE Orderly(t)'
  <2>1. task[t].host \in Devices
    BY DEF Orderly
  <2>. QED
    BY <1>6, <2>1, AssignStep DEF Orderly, Ran
<1>8. ASSUME NEW chain \in chains[t], Chain(t, chain) PROVE Orderly(t)'
  BY <1>8, ChainStep DEF Orderly, Ran, Went, publicCalls
<1>7. CASE Succeed(t)
  <2>1. freeing[t] = {} /\ taking[t] = {} /\ unassigning[t] = {} /\ assigning[t] = {}
    BY <1>7, SucceedStep DEF UpdatesDone, Staged
  <2>. QED
    BY <1>7, <2>1, SucceedStep DEF Orderly, publicCalls, privateCalls
<1>. QED
  BY <1>1, <1>2, <1>3, <1>4, <1>5, <1>6, <1>7, <1>8 DEF Step, CloudCall

LEMMA NextStaged ==
  ASSUME TypeOK, NEW t \in Tasks, Orderly(t), Staged(t), Step(t)
  PROVE  Staged(t)'
<1>1. ASSUME NEW d \in Devices, NEW gained \in SUBSET Addresses, TakeOver(t, d, gained)
      PROVE  Staged(t)'
  BY <1>1, TakeOverStep DEF Staged, Owes, publicCalls, privateCalls
<1>2. CASE Discover(t)
  <2>1. CASE UNCHANGED <<publicCalls, privateCalls>>
    BY <2>1 DEF Staged, Owes, publicCalls, privateCalls
  <2>2. CASE Discovered(t)
    <3>. DEFINE public == PublicToMove(task[t].host)
                moved == PrivateToMove(task[t])
    <3>1. publicStage'[t] = "second" => freeing'[t] = {}
      BY <2>2, StageTyping DEF Discovered
    <3>2. privateStage'[t] = "second" => unassigning'[t] = {}
      BY <2>2, StageTyping DEF Discovered, Unassignings
    <3>3. ASSUME NEW c \in freeing'[t] PROVE \E e \in taking'[t] : e.eip = c.eip
      <4>1. PICK e \in public : c.eip = e
        BY <2>2 DEF Discovered, Freeings
      <4>2. [eip |-> e, tries |-> MaxTries] \in taking'[t]
        BY <2>2 DEF Discovered, Takings
      <4>. QED
        BY <4>1, <4>2
    <3>4. ASSUME NEW c \in unassigning'[t], NEW a \in c.addresses PROVE Owes(t, a)'
      <4>1. PICK d \in {owner[b] : b \in moved} : c.addresses = {b \in moved : owner[b] = d}
        BY <2>2 DEF Discovered, Unassignings
      <4>. DEFINE batch == [addresses |-> {b \in moved : owner[b] = d}, step |-> "assign",
                            tries |-> MaxTries]
      <4>2. batch \in assigning'[t] /\ batch.step = "assign" /\ batch.addresses = c.addresses
        BY <2>2, <4>1 DEF Discovered, Assignings
      <4>. QED
        BY <4>2, Zenon DEF Owes
    <3>. QED
      BY <3>1, <3>2, <3>3, <3>4 DEF Staged
  <2>. QED
    BY <1>2, <2>1, <2>2, DiscoverStep
<1>3. ASSUME NEW call \in freeing[t], Free(t, call) PROVE Staged(t)'
  BY <1>3, FreeStep DEF Staged, Owes, privateCalls
<1>4. ASSUME NEW call \in taking[t], Take(t, call) PROVE Staged(t)'
  <2>1. task[t].host \in Devices
    BY DEF Orderly
  <2>. QED
    BY <1>4, <2>1, TakeStep DEF Staged, Owes, privateCalls
<1>5. ASSUME NEW call \in unassigning[t], Unassign(t, call) PROVE Staged(t)'
  BY <1>5, UnassignStep DEF Staged, Owes, publicCalls
<1>6. ASSUME NEW batch \in assigning[t], Assign(t, batch) PROVE Staged(t)'
  <2>1. task[t].host \in Devices
    BY DEF Orderly
  <2>. QED
    BY <1>6, <2>1, AssignStep DEF Staged, publicCalls
<1>8. ASSUME NEW chain \in chains[t], Chain(t, chain) PROVE Staged(t)'
  BY <1>8, ChainStep DEF Staged, Went, publicCalls
<1>7. CASE Succeed(t)
  BY <1>7, SucceedStep DEF Staged, Owes, publicCalls, privateCalls
<1>. QED
  BY <1>1, <1>2, <1>3, <1>4, <1>5, <1>6, <1>7, <1>8 DEF Step, CloudCall

LEMMA NextLooking ==
  ASSUME TypeOK, NEW t \in Tasks, Orderly(t), Looking(t), Step(t)
  PROVE  Looking(t)'
<1>1. ASSUME NEW d \in Devices, NEW gained \in SUBSET Addresses, TakeOver(t, d, gained)
      PROVE  Looking(t)'
  BY <1>1, TakeOverStep DEF Looking, privateCalls
<1>2. CASE Discover(t)
  BY <1>2, DiscoverStep DEF Looking, Orderly, privateCalls, Discovered
<1>3. ASSUME NEW call \in freeing[t], Free(t, call) PROVE Looking(t)'
  BY <1>3, FreeStep DEF Looking, privateCalls
<1>4. ASSUME NEW call \in taking[t], Take(t, call) PROVE Looking(t)'
  <2>1. task[t].host \in Devices
    BY DEF Orderly
  <2>. QED
    BY <1>4, <2>1, TakeStep DEF Looking, privateCalls
<1>5. ASSUME NEW call \in unassigning[t], Unassign(t, call) PROVE Looking(t)'
  BY <1>5, UnassignStep DEF Looking
<1>6. ASSUME NEW batch \in assigning[t], Assign(t, batch) PROVE Looking(t)'
  <2>1. task[t].host \in Devices
    BY DEF Orderly
  <2>. QED
    BY <1>6, <2>1, AssignStep DEF Looking
<1>8. ASSUME NEW chain \in chains[t], Chain(t, chain) PROVE Looking(t)'
  BY <1>8, ChainStep DEF Looking, Went
<1>7. CASE Succeed(t)
  BY <1>7, SucceedStep DEF Looking, privateCalls
<1>. QED
  BY <1>1, <1>2, <1>3, <1>4, <1>5, <1>6, <1>7, <1>8 DEF Step, CloudCall

-----------------------------------------------------------------------------
(* A task that is alone keeps on its way.                                  *)

LEMMA DiscoveredOnItsWay ==
  ASSUME TypeOK, NEW t \in Tasks, UNCHANGED cloud, Discovered(t)
  PROVE  Taken(t)' /\ Unassigned(t)' /\ Rebound(t)'
<1>. DEFINE c == task[t]
            public == PublicToMove(c.host)
            moved == PrivateToMove(c)
<1>0. c.wanted \in SUBSET Addresses
  BY DEF TypeOK, Task
<1>1. /\ task'[t].host = c.host /\ task'[t].wanted = c.wanted
      /\ task'[t].public = WithElastic(moved)
      /\ UNCHANGED <<tagged, owner, elastic>>
  BY DEF Discovered, cloud
<1>2. ASSUME NEW e \in Tagged PROVE tagged[e].at = c.host \/ \E d \in taking'[t] : d.eip = e
  <2>1. e \in public => [eip |-> e, tries |-> MaxTries] \in taking'[t]
    BY DEF Discovered, Takings
  <2>. QED
    BY <2>1 DEF PublicToMove
<1>3. ASSUME NEW a \in c.wanted
      PROVE  \/ owner[a] \in {c.host, Nowhere}
             \/ \E d \in unassigning'[t] : a \in d.addresses /\ d.from = owner[a]
  <2>. DEFINE call == [addresses |-> {b \in moved : owner[b] = owner[a]}, from |-> owner[a],
                       tries |-> MaxTries]
  <2>1. a \in moved => call \in unassigning'[t] /\ a \in call.addresses /\ call.from = owner[a]
    BY DEF Discovered, Unassignings
  <2>. HIDE DEF call
  <2>. QED
    BY <1>0, <2>1 DEF PrivateToMove
<1>4. \A a \in WithElastic(moved) : elastic[a] # Unbound
  BY DEF WithElastic
<1>. QED
  BY <1>1, <1>2, <1>3, <1>4 DEF Taken, Unassigned, Rebound

LEMMA SameRebound ==
  ASSUME NEW t \in Tasks, Rebound(t), UNCHANGED <<elastic, task, assigning, chains>>,
         strayed \subseteq strayed'
  PROVE  Rebound(t)'
BY DEF Rebound, Owes, Answers, Chained

LEMMA NextOnItsWay ==
  ASSUME TypeOK, NEW t \in Tasks, Orderly(t), Staged(t), OnItsWay(t), Step(t),
         alone'[t] => alone[t], strayed \subseteq strayed',
         \A a \in Addresses : Strays(t, a) => <<t, a>> \in strayed'
  PROVE  OnItsWay(t)'
<1>. SUFFICES ASSUME pc'[t] = "update", alone[t]
              PROVE  Taken(t)' /\ Unassigned(t)' /\ Rebound(t)'
  BY DEF OnItsWay
<1>1. ASSUME NEW d \in Devices, NEW gained \in SUBSET Addresses, TakeOver(t, d, gained)
      PROVE  FALSE
  BY <1>1, TakeOverStep
<1>2. CASE Discover(t)
  BY <1>2, DiscoverStep, DiscoveredOnItsWay
<1>3. /\ taking[t] # {} \/ assigning[t] # {} => task[t].host \in Devices
      /\ task[t] \in Task
  BY DEF Orderly, TypeOK
<1>4. Ran(t) => Taken(t) /\ Unassigned(t) /\ Rebound(t)
  BY DEF Ran, OnItsWay
<1>5. ASSUME NEW call \in freeing[t], Free(t, call)
      PROVE  Taken(t)' /\ Unassigned(t)' /\ Rebound(t)'
  <2>1. /\ Ran(t) /\ UNCHANGED <<owner, elastic, task, taking, privateCalls>>
        /\ \A e \in Tagged : e # call.eip => tagged'[e] = tagged[e]
    BY <1>5, FreeStep
  <2>2. \E c \in taking[t] : c.eip = call.eip
    BY DEF Staged
  <2>3. Taken(t)'
    BY <1>4, <2>1, <2>2 DEF Taken
  <2>. QED
    BY <1>4, <2>1, <2>3, SameRebound DEF Unassigned, privateCalls
<1>6. ASSUME NEW call \in taking[t], Take(t, call)
      PROVE  Taken(t)' /\ Unassigned(t)' /\ Rebound(t)'
  <2>1. /\ Ran(t) /\ UNCHANGED <<owner, elastic, task, privateCalls>>
        /\ \A e \in Tagged : tagged'[e] = tagged[e] \/ tagged'[e].at = task[t].host
        /\ \A b \in taking[t] : \/ tagged'[b.eip].at = task[t].host
                                \/ \E c \in taking'[t] : c.eip = b.eip
    BY <1>3, <1>6, TakeStep
  <2>2. Taken(t)'
    BY <1>4, <2>1 DEF Taken
  <2>. QED
    BY <1>4, <2>1, <2>2, SameRebound DEF Unassigned, privateCalls
<1>7. ASSUME NEW call \in unassigning[t], Unassign(t, call)
      PROVE  Taken(t)' /\ Unassigned(t)' /\ Rebound(t)'
  <2>1. /\ Ran(t) /\ UNCHANGED <<tagged, task, publicCalls, assigning, chains>>
        /\ \A a \in Addresses :
             \/ owner'[a] = owner[a] /\ elastic'[a] = elastic[a]
             \/ a \in call.addresses /\ owner'[a] = Nowhere
        /\ \A b \in unassigning[t] :
             \/ \A a \in b.addresses : owner'[a] # b.from
             \/ \E c \in unassigning'[t] : c.addresses = b.addresses /\ c.from = b.from
    BY <1>7, UnassignStep
  <2>2. ASSUME NEW a \in task[t].wanted
        PROVE  \/ owner'[a] \in {task[t].host, Nowhere}
               \/ \E c \in unassigning'[t] : a \in c.addresses /\ c.from = owner'[a]
    <3>1. a \in Addresses
      BY <1>3 DEF Task
    <3>2. CASE owner'[a] = owner[a] /\ owner[a] \notin {task[t].host, Nowhere}
      <4>1. PICK b \in unassigning[t] : a \in b.addresses /\ b.from = owner[a]
        BY <1>4, <2>1, <3>2 DEF Unassigned
      <4>. QED
        BY <2>1, <3>2, <4>1
    <3>. QED
      BY <2>1, <3>1, <3>2
  <2>3. ASSUME NEW a \in task[t].public
        PROVE  elastic'[a] # Unbound \/ Owes(t, a)' \/ Answers(t, a)'
    <3>1. a \in Addresses
      BY <1>3 DEF Task
    <3>2. CASE a \in call.addresses
      BY <2>1, <3>2 DEF Staged, Owes
    <3>3. CASE a \notin call.addresses
      BY <1>4, <2>1, <3>1, <3>3 DEF Rebound, Owes, Answers, Chained
    <3>. QED
      BY <3>2, <3>3
  <2>. QED
    BY <1>4, <2>1, <2>2, <2>3 DEF Taken, Unassigned, Rebound, publicCalls
<1>8. ASSUME NEW batch \in assigning[t], Assign(t, batch)
      PROVE  Taken(t)' /\ Unassigned(t)' /\ Rebound(t)'
  <2>1. /\ UNCHANGED <<tagged, elastic, task, publicCalls, unassigning>> /\ Ran(t)
        /\ privateStage[t] = "second" /\ chains[t] \subseteq chains'[t]
        /\ \A a \in Addresses : owner'[a] = owner[a] \/ owner'[a] = task[t].host
        /\ \A a \in Addresses : Owes(t, a) =>
             Owes(t, a)' \/ (a \in task[t].public => Chained(t, a)')
    BY <1>3, <1>8, AssignStep
  <2>2. ASSUME NEW a \in task[t].wanted PROVE owner'[a] \in {task[t].host, Nowhere}
    <3>1. a \in Addresses /\ unassigning[t] = {}
      BY <1>3, <2>1 DEF Task, Staged
    <3>. QED
      BY <1>4, <2>1, <3>1 DEF Unassigned
  <2>3. ASSUME NEW a \in task[t].public
        PROVE  elastic'[a] # Unbound \/ Owes(t, a)' \/ Answers(t, a)'
    <3>1. a \in Addresses
      BY <1>3 DEF Task
    <3>. QED
      BY <1>4, <2>1, <3>1 DEF Rebound, Answers, Chained
  <2>. QED
    BY <1>4, <2>1, <2>2, <2>3 DEF Taken, Unassigned, Rebound, publicCalls
<1>9. ASSUME NEW chain \in chains[t], Chain(t, chain)
      PROVE  Taken(t)' /\ Unassigned(t)' /\ Rebound(t)'
  <2>1. /\ UNCHANGED <<tagged, owner, task, publicCalls, unassigning>>
        /\ Went(t, chain, elastic'[chain.address] # Unbound)
        /\ \A b \in Addresses : \/ elastic'[b] = elastic[b] \/ elastic'[b] # Unbound
                                \/ b = chain.address
    BY <1>9, ChainStep
  <2>2. Ran(t) /\ chains[t] \ {chain} \subseteq chains'[t] /\ \A a : Owes(t, a) => Owes(t, a)'
    BY <2>1 DEF Went
  <2>3. ASSUME NEW a \in task[t].public
        PROVE  elastic'[a] # Unbound \/ Owes(t, a)' \/ Answers(t, a)'
    <3>1. a \in Addresses
      BY <1>3 DEF Task
    <3>2. CASE a # chain.address
      BY <1>4, <2>1, <2>2, <3>1, <3>2 DEF Rebound, Answers, Chained
    <3>3. CASE a = chain.address
      <4>1. \/ Chained(t, a)' \/ Owes(t, a)'
            \/ Abandoned(t, chain) \/ elastic'[a] # Unbound
        BY <2>1, <3>3 DEF Went
      <4>2. Abandoned(t, chain) /\ ~Chained(t, a)' /\ elastic'[a] = Unbound => Strays(t, a)
        BY <3>3 DEF Strays, Chained
      <4>. QED
        BY <3>1, <4>1, <4>2 DEF Answers
    <3>. QED
      BY <3>2, <3>3
  <2>. QED
    BY <1>4, <2>1, <2>2, <2>3 DEF Taken, Unassigned, Rebound, publicCalls
<1>10. CASE Succeed(t)
  BY <1>10, SucceedStep
<1>. QED
  BY <1>1, <1>2, <1>5, <1>6, <1>7, <1>8, <1>9, <1>10 DEF Step, CloudCall

-----------------------------------------------------------------------------
(* No Elastic IP is lost in silence.                                       *)

\* A task answers for the Elastic IPs it may have lost until it succeeds alone.
LEMMA BlamedLasts ==
  ASSUME TypeOK, NEW t \in Tasks, Orderly(t), Step(t),
         \A u \in Tasks : alone'[u] => alone[u], strayed \subseteq strayed',
         NEW u \in Tasks, NEW a, Blamed(u, a),
         Succeed(t) /\ u = t => ~ alone[t] \/ <<t, a>> \in strayed
  PROVE  Blamed(u, a)'
<1>1. CASE u # t
  BY <1>1, StepTyping DEF Same, Blamed
<1>2. ASSUME u = t, NEW d \in Devices, NEW gained \in SUBSET Addresses, TakeOver(t, d, gained)
      PROVE  Blamed(u, a)'
  BY <1>2, TakeOverStep DEF Orderly, Blamed
<1>3. CASE u = t /\ Discover(t)
  BY <1>3, DiscoverStep DEF Orderly, Blamed
<1>4. ASSUME u = t, UNCHANGED task, Ran(t) PROVE Blamed(u, a)'
  BY <1>4 DEF Ran, Blamed
<1>5. ASSUME NEW call \in freeing[t], Free(t, call) PROVE UNCHANGED task /\ Ran(t)
  BY <1>5, FreeStep
<1>6. ASSUME NEW call \in taking[t], Take(t, call) PROVE UNCHANGED task /\ Ran(t)
  BY <1>6, TakeStep DEF Orderly
<1>7. ASSUME NEW call \in unassigning[t], Unassign(t, call) PROVE UNCHANGED task /\ Ran(t)
  BY <1>7, UnassignStep
<1>8. ASSUME NEW batch \in assigning[t], Assign(t, batch) PROVE UNCHANGED task /\ Ran(t)
  BY <1>8, AssignStep DEF Orderly
<1>9. ASSUME NEW chain \in chains[t], Chain(t, chain) PROVE UNCHANGED task /\ Ran(t)
  BY <1>9, ChainStep DEF Went
<1>10. CASE u = t /\ Succeed(t)
  BY <1>10, SucceedStep DEF Blamed
<1>. QED
  BY <1>1, <1>2, <1>3, <1>4, <1>5, <1>6, <1>7, <1>8, <1>9, <1>10 DEF Step, CloudCall

\* One with a chain on its way answers too, unless that has put it on.
LEMMA TroubleLasts ==
  ASSUME TypeOK, NEW t \in Tasks, Orderly(t), Step(t),
         \A u \in Tasks : alone'[u] => alone[u], strayed \subseteq strayed',
         \A b \in Addresses : Strays(t, b) => <<t, b>> \in strayed',
         NEW u \in Tasks, NEW a \in Addresses, Trouble(u, a),
         Succeed(t) /\ u = t => ~ alone[t] \/ Answers(t, a)
  PROVE  Trouble(u, a)' \/ elastic'[a] # Unbound
<1>1. CASE Blamed(u, a) /\ ~ (Succeed(t) /\ u = t)
  BY <1>1, BlamedLasts DEF Blamed, Trouble, Answers
<1>2. CASE u = t /\ Succeed(t)
  BY <1>2, SucceedStep DEF Trouble, Answers, Chained, privateCalls
<1>3. CASE u # t
  BY <1>3, StepTyping DEF Same, Trouble, Answers, Chained
<1>4. CASE u = t /\ ~ Blamed(u, a) /\ ~ Succeed(t)
  <2>1. pc[t] = "succeeded" /\ Chained(t, a)
    BY <1>4 DEF Blamed, Trouble, Answers
  <2>2. PICK chain \in chains[t] : Chain(t, chain)
    BY <1>4, <2>1, TakeOverStep, DiscoverStep DEF Step, CloudCall, Orderly
  <2>3. UNCHANGED task /\ Ran(t)
    BY <2>2, ChainStep DEF Went
  <2>4. \A c \in chains[t] : Abandoned(t, c)
    BY <2>1 DEF Orderly, Abandoned
  <2>5. Chained(t, a)' \/ elastic'[a] # Unbound \/ Strays(t, a)
    BY <2>1, <2>4 DEF Strays, Chained
  <2>. QED
    BY <1>4, <2>3, <2>5 DEF Trouble, Answers
<1>. QED
  BY <1>1, <1>2, <1>3, <1>4

\* Only these two calls take the Elastic IP off an address.
LEMMA TakenOff ==
  ASSUME TypeOK, NEW t \in Tasks, Orderly(t), Step(t),
         NEW a \in Addresses, elastic[a] # Unbound, elastic'[a] = Unbound
  PROVE  \/ \E call \in unassigning[t] : Unassign(t, call) /\ a \in call.addresses
         \/ \E chain \in chains[t] : /\ Chain(t, chain) /\ chain.address = a
                                     /\ chain.step = "free"
<1>1. ASSUME NEW d \in Devices, NEW gained \in SUBSET Addresses, TakeOver(t, d, gained)
      PROVE  FALSE
  BY <1>1 DEF TakeOver, cloud
<1>2. CASE Discover(t) \/ Succeed(t)
  BY <1>2 DEF Discover, Succeed, cloud
<1>3. ASSUME NEW call \in freeing[t], Free(t, call) PROVE FALSE
  BY <1>3 DEF Free
<1>4. ASSUME NEW call \in taking[t], Take(t, call) PROVE FALSE
  BY <1>4 DEF Take
<1>5. ASSUME NEW call \in unassigning[t], Unassign(t, call) PROVE a \in call.addresses
  BY <1>5, UnassignStep
<1>6. ASSUME NEW batch \in assigning[t], Assign(t, batch) PROVE FALSE
  BY <1>6 DEF Assign
<1>7. ASSUME NEW chain \in chains[t], Chain(t, chain)
      PROVE  chain.address = a /\ chain.step = "free"
  BY <1>7, ChainStep
<1>. QED
  BY <1>1, <1>2, <1>3, <1>4, <1>5, <1>6, <1>7 DEF Step, CloudCall

LEMMA NextElasticLost ==
  ASSUME IInv, NEW t \in Tasks, Step(t), \A u \in Tasks : alone'[u] => alone[u],
         UNCHANGED had, strayed \subseteq strayed',
         \A b \in Addresses : Strays(t, b) => <<t, b>> \in strayed'
  PROVE  ElasticLostInTrouble'
<1>. SUFFICES ASSUME NEW a \in had, elastic'[a] = Unbound
              PROVE  \E u \in Tasks : Trouble(u, a)'
  BY DEF ElasticLostInTrouble, Trouble, Answers, Chained
<1>1. /\ TypeOK /\ Orderly(t) /\ Staged(t) /\ Looking(t) /\ OnItsWay(t) /\ LostBefore(t)
      /\ a \in Addresses
  BY DEF IInv
<1>2. CASE elastic[a] = Unbound
  <2>1. PICK u \in Tasks : Trouble(u, a)
    BY <1>2 DEF IInv, ElasticLostInTrouble, Trouble, Answers, Chained
  <2>2. Succeed(t) /\ u = t => ~ alone[t] \/ Answers(t, a)
    <3>1. SUFFICES ASSUME Succeed(t), u = t, alone[t] PROVE Answers(t, a)
      OBVIOUS
    <3>2. assigning[t] = {} /\ Rebound(t)
      BY <1>1, <3>1, SucceedStep DEF OnItsWay, UpdatesDone
    <3>. QED
      BY <1>2, <2>1, <3>1, <3>2 DEF Trouble, Rebound, Owes
  <2>3. Trouble(u, a)'
    BY <1>1, <2>1, <2>2, TroubleLasts
  <2>. QED
    BY <2>3
<1>3. ASSUME NEW call \in unassigning[t], Unassign(t, call), a \in call.addresses
      PROVE  \E u \in Tasks : Trouble(u, a)'
  <2>1. ~ Succeed(t)
    BY <1>1, <1>3, SucceedStep DEF UpdatesDone, Staged
  <2>2. \E u \in Tasks : Trouble(u, a)
    <3>1. CASE a \in task[t].public
      BY <1>1, <1>3, <3>1 DEF Trouble, Orderly
    <3>2. CASE a \notin task[t].public
      BY <1>1, <1>3, <3>2 DEF LostBefore, Blamed, Trouble, Answers
    <3>. QED
      BY <3>1, <3>2
  <2>. QED
    BY <1>1, <2>1, <2>2, TroubleLasts
<1>4. ASSUME NEW chain \in chains[t], Chain(t, chain), chain.address = a
      PROVE  \E u \in Tasks : Trouble(u, a)'
  <2>1. Answers(t, a)
    BY <1>4 DEF Answers, Chained
  <2>2. Trouble(t, a)
    BY <1>1, <1>4, <2>1 DEF Trouble, Looking
  <2>. QED
    BY <1>1, <2>1, <2>2, TroubleLasts
<1>. QED
  BY <1>1, <1>2, <1>3, <1>4, TakenOff

LEMMA NextLostBefore ==
  ASSUME IInv, NEW t \in Tasks, Step(t), \A u \in Tasks : alone'[u] => alone[u],
         UNCHANGED had, NEW v \in Tasks, strayed \subseteq strayed'
  PROVE  LostBefore(v)'
<1>. SUFFICES ASSUME NEW c \in unassigning'[v], NEW a \in c.addresses,
                     a \in had \ task'[v].public
              PROVE  \E u \in Tasks : Blamed(u, a)'
  BY DEF LostBefore
<1>1. /\ TypeOK /\ Orderly(t) /\ Staged(t) /\ \A u \in Tasks \ {t} : Same(u)
      /\ a \in Addresses
  BY StepTyping DEF IInv
<1>2. CASE v = t /\ Discovered(t) /\ Discover(t)
  <2>1. a \in PrivateToMove(task[t])
    BY <1>2 DEF Discovered, Unassignings
  <2>2. a \notin WithElastic(PrivateToMove(task[t]))
    BY <1>2, <2>1 DEF Discovered
  <2>3. elastic[a] = Unbound
    BY <1>1, <2>1, <2>2 DEF WithElastic
  <2>4. PICK u \in Tasks : Trouble(u, a)
    BY <2>3 DEF IInv, ElasticLostInTrouble, Trouble, Answers, Chained
  <2>5. pc[t] = "discover" /\ ~ Succeed(t)
    BY <1>1, <1>2, DiscoverStep, SucceedStep
  <2>6. Blamed(u, a)
    <3>1. SUFFICES ASSUME Chained(u, a) PROVE ~ alone[u]
      BY <2>4 DEF Trouble, Blamed, Answers
    <3>2. u # t /\ Busy(u) /\ Busy(t)
      BY <1>1, <2>5, <3>1 DEF Orderly, Chained, Busy, Open
    <3>. QED
      BY <3>2 DEF IInv, OneBusy
  <2>7. Blamed(u, a)'
    BY <1>1, <2>5, <2>6, BlamedLasts
  <2>. QED
    BY <2>7
<1>3. CASE v # t \/ ~ (Discovered(t) /\ Discover(t))
  <2>1. /\ \E b \in unassigning[v] : a \in b.addresses
        /\ task'[v].public = task[v].public
    <3>1. CASE v # t
      BY <1>1, <3>1 DEF Same
    <3>2. ASSUME v = t, NEW d \in Devices, NEW gained \in SUBSET Addresses,
                 TakeOver(t, d, gained)
          PROVE  /\ \E b \in unassigning[v] : a \in b.addresses
                 /\ task'[v].public = task[v].public
      BY <1>1, <3>2, TakeOverStep DEF privateCalls
    <3>3. CASE v = t /\ Discover(t)
      BY <1>1, <1>3, <3>3, DiscoverStep DEF privateCalls
    <3>4. ASSUME v = t, NEW call \in freeing[t], Free(t, call)
          PROVE  UNCHANGED <<task, unassigning>>
      BY <1>1, <3>4, FreeStep DEF privateCalls
    <3>5. ASSUME v = t, NEW call \in taking[t], Take(t, call)
          PROVE  UNCHANGED <<task, unassigning>>
      BY <3>5 DEF Take, privateCalls
    <3>6. ASSUME v = t, NEW call \in unassigning[t], Unassign(t, call)
          PROVE  UNCHANGED task /\ \E b \in unassigning[v] : a \in b.addresses
      BY <1>1, <3>6, UnassignStep
    <3>7. ASSUME v = t, NEW batch \in assigning[t], Assign(t, batch)
          PROVE  UNCHANGED <<task, unassigning>>
      BY <3>7 DEF Assign
    <3>9. ASSUME v = t, NEW chain \in chains[t], Chain(t, chain)
          PROVE  UNCHANGED <<task, unassigning>>
      BY <3>9 DEF Chain
    <3>8. CASE Succeed(t)
      BY <1>1, <3>8, SucceedStep DEF privateCalls
    <3>. QED
      BY <3>1, <3>2, <3>3, <3>4, <3>5, <3>6, <3>7, <3>8, <3>9 DEF Step, CloudCall
  <2>2. PICK u \in Tasks : Blamed(u, a)
    BY <2>1 DEF IInv, LostBefore
  <2>3. ~ (Succeed(t) /\ alone[t])
    <3>1. SUFFICES ASSUME Succeed(t), alone[t] PROVE FALSE
      OBVIOUS
    <3>2. Busy(t) /\ unassigning[t] = {}
      BY <1>1, <3>1, SucceedStep DEF Busy, Open, UpdatesDone, Staged
    <3>3. Busy(v) /\ v # t
      BY <2>1, <3>2 DEF Busy
    <3>. QED
      BY <3>1, <3>2, <3>3 DEF IInv, OneBusy
  <2>4. Blamed(u, a)'
    BY <1>1, <2>2, <2>3, BlamedLasts
  <2>. QED
    BY <2>4
<1>. QED
  BY <1>2, <1>3

-----------------------------------------------------------------------------
(* The theorems.                                                           *)

LEMMA InitIInv == MCInit => IInv
<1>. SUFFICES ASSUME MCInit PROVE IInv
  OBVIOUS
<1>1. TypeOK
  BY InitTypeOK DEF MCInit
<1>2. alone \in [Tasks -> BOOLEAN] /\ had \subseteq Addresses
  BY DEF MCInit
<1>3. /\ pc = [t \in Tasks |-> "idle"]
      /\ task = [t \in Tasks |-> [host |-> None, wanted |-> {}, public |-> {}]]
      /\ publicStage = [t \in Tasks |-> "first"] /\ privateStage = [t \in Tasks |-> "first"]
      /\ freeing = [t \in Tasks |-> {}] /\ taking = [t \in Tasks |-> {}]
      /\ unassigning = [t \in Tasks |-> {}] /\ assigning = [t \in Tasks |-> {}]
      /\ chains = [t \in Tasks |-> {}]
      /\ had = {a \in Addresses : elastic[a] # Unbound}
  BY DEF MCInit, Init
<1>4. OneBusy
  BY <1>3 DEF OneBusy, Busy, Open
<1>5. ElasticLostInTrouble
  BY <1>3 DEF ElasticLostInTrouble
<1>6. \A t \in Tasks : Orderly(t) /\ Staged(t) /\ Looking(t) /\ OnItsWay(t) /\ LostBefore(t)
  BY <1>3 DEF Orderly, Staged, Looking, OnItsWay, LostBefore
<1>. QED
  BY <1>1, <1>2, <1>4, <1>5, <1>6 DEF IInv

LEMMA SameInvariant ==
  ASSUME NEW u \in Tasks, Same(u), alone'[u] => alone[u], strayed \subseteq strayed',
         pc[u] = "update" /\ alone[u] => UNCHANGED cloud,
         Orderly(u), Staged(u), Looking(u), OnItsWay(u)
  PROVE  Orderly(u)' /\ Staged(u)' /\ Looking(u)' /\ OnItsWay(u)'
<1>1. Orderly(u)' /\ Staged(u)' /\ Looking(u)'
  BY DEF Orderly, Staged, Looking, Same, Owes
<1>2. OnItsWay(u)'
  <2>1. SUFFICES ASSUME pc[u] = "update", alone[u]
                 PROVE  Taken(u)' /\ Unassigned(u)' /\ Rebound(u)'
    BY DEF OnItsWay, Same
  <2>2. UNCHANGED cloud /\ Taken(u) /\ Unassigned(u) /\ Rebound(u)
    BY <2>1 DEF OnItsWay
  <2>3. Taken(u)' /\ Unassigned(u)'
    BY <2>2 DEF Taken, Unassigned, Same, cloud
  <2>4. Rebound(u)'
    BY <2>2 DEF Rebound, Owes, Answers, Chained, Same, cloud
  <2>. QED
    BY <2>3, <2>4
<1>. QED
  BY <1>1, <1>2

LEMMA CutInvariant ==
  ASSUME NEW u \in Tasks, Cut(u), Orderly(u), Staged(u), Looking(u)
  PROVE  Orderly(u)' /\ Staged(u)' /\ Looking(u)' /\ OnItsWay(u)'
<1>1. Orderly(u)'
  BY DEF Orderly, Cut
<1>2. Staged(u)'
  <2>1. ASSUME NEW c \in freeing'[u] PROVE \E d \in taking'[u] : d.eip = c.eip
    BY DEF Staged, Cut
  <2>2. ASSUME NEW c \in unassigning'[u], NEW a \in c.addresses PROVE Owes(u, a)'
    BY DEF Staged, Cut
  <2>. QED
    BY <2>1, <2>2 DEF Staged, Cut
<1>3. Looking(u)'
  BY DEF Looking, Cut
<1>4. OnItsWay(u)'
  BY DEF OnItsWay, Cut
<1>. QED
  BY <1>1, <1>2, <1>3, <1>4

LEMMA NextIInv == IInv /\ [MCNext]_mcvars => IInv'
<1>. SUFFICES ASSUME IInv, [MCNext]_mcvars PROVE IInv'
  OBVIOUS
<1>1. /\ alone' \in [Tasks -> BOOLEAN] /\ \A t \in Tasks : alone'[t] => alone[t]
      /\ OneBusy' /\ UNCHANGED had /\ had' \subseteq Addresses /\ strayed \subseteq strayed'
      /\ MCNext => \A t \in Tasks, a \in Addresses : Strays(t, a) => <<t, a>> \in strayed'
  BY AloneStep DEF IInv
<1>2. ASSUME NEW t \in Tasks, Step(t), MCNext PROVE IInv'
  <2>1. TypeOK' /\ \A u \in Tasks \ {t} : Same(u)
    BY <1>2, StepTyping DEF IInv
  <2>2. ASSUME NEW u \in Tasks \ {t}
        PROVE  (Orderly(u) /\ Staged(u) /\ Looking(u) /\ OnItsWay(u))'
    <3>1. ASSUME pc[u] = "update", alone[u] PROVE UNCHANGED cloud
      <4>1. ~ Busy(t)
        BY <3>1 DEF IInv, OneBusy, Busy, Open
      <4>. QED
        BY <1>2, <4>1, Working DEF IInv
    <3>. QED
      BY <1>1, <2>1, <3>1, SameInvariant DEF IInv
  <2>3. (Orderly(t) /\ Staged(t) /\ Looking(t) /\ OnItsWay(t))'
    BY <1>1, <1>2, NextOrderly, NextStaged, NextLooking, NextOnItsWay DEF IInv
  <2>4. ElasticLostInTrouble' /\ \A u \in Tasks : LostBefore(u)'
    BY <1>1, <1>2, NextElasticLost, NextLostBefore
  <2>. QED
    BY <1>1, <2>1, <2>2, <2>3, <2>4 DEF IInv
<1>3. ASSUME NEW d \in Devices, Restart(d) PROVE IInv'
  <2>1. TypeOK' /\ UNCHANGED cloud /\ \A t \in Tasks : Same(t) \/ Cut(t)
    BY <1>3, RestartStep DEF IInv
  <2>2. ASSUME NEW t \in Tasks
        PROVE  (Orderly(t) /\ Staged(t) /\ Looking(t) /\ OnItsWay(t))'
    BY <1>1, <2>1, SameInvariant, CutInvariant DEF IInv
  <2>3. ASSUME NEW t \in Tasks, NEW a
        PROVE  (Trouble(t, a) => Trouble(t, a)') /\ (Blamed(t, a) => Blamed(t, a)')
    BY <1>1, <2>1 DEF Same, Cut, Trouble, Blamed, Answers, Chained
  <2>4. ElasticLostInTrouble'
    <3>1. elastic' = elastic
      BY <2>1 DEF cloud
    <3>2. \A a \in had : elastic[a] = Unbound => \E t \in Tasks : Trouble(t, a)
      BY DEF IInv, ElasticLostInTrouble, Trouble, Answers, Chained
    <3>3. \A a \in had : elastic[a] = Unbound => \E t \in Tasks : Trouble(t, a)'
      BY <2>3, <3>2
    <3>. QED
      BY <1>1, <3>1, <3>3 DEF ElasticLostInTrouble, Trouble, Answers, Chained
  <2>5. ASSUME NEW t \in Tasks PROVE LostBefore(t)'
    <3>1. /\ task'[t] = task[t]
          /\ \A c \in unassigning'[t] : \E b \in unassigning[t] : b.addresses = c.addresses
      BY <2>1 DEF Same, Cut
    <3>2. LostBefore(t)
      BY DEF IInv
    <3>. QED
      BY <1>1, <2>3, <3>1, <3>2 DEF LostBefore
  <2>. QED
    BY <1>1, <2>1, <2>2, <2>4, <2>5 DEF IInv
<1>4. CASE UNCHANGED vars
  <2>1. UNCHANGED <<cloud, active, pc, task, publicCalls, privateCalls, budgets>>
    BY <1>4 DEF vars
  <2>2. \A t \in Tasks : Same(t)
    BY <2>1 DEF Same, publicCalls, privateCalls
  <2>3. TypeOK'
    BY <2>1 DEF IInv, TypeOK, cloud, publicCalls, privateCalls, budgets
  <2>4. ASSUME NEW t \in Tasks
        PROVE  (Orderly(t) /\ Staged(t) /\ Looking(t) /\ OnItsWay(t))'
    BY <1>1, <2>1, <2>2, SameInvariant DEF IInv
  <2>5. \A t \in Tasks : LostBefore(t)'
    BY <1>1, <2>1 DEF IInv, LostBefore, Blamed, privateCalls
  <2>6. ElasticLostInTrouble'
    BY <1>1, <2>1 DEF IInv, ElasticLostInTrouble, cloud, privateCalls
  <2>. QED
    BY <1>1, <2>3, <2>4, <2>5, <2>6 DEF IInv
<1>. QED
  BY <1>2, <1>3, <1>4 DEF MCNext, Next, Done, Step, mcvars

\* The invariant holds in every behaviour.
THEOREM Invariance == MCSpec => []IInv
BY InitIInv, NextIInv, PTL DEF MCSpec

\* The state keeps its form.
THEOREM TypeCorrect == MCSpec => []TypeOK
<1>1. IInv => TypeOK
  BY DEF IInv
<1>. QED
  BY <1>1, Invariance, PTL

\* An address that has lost its Elastic IP was taken from its interface by a
\* task that has not succeeded, or overlapped another one, or has a chain for it
\* under way, or left its last one for it, an abandoned one, to lose it.
THEOREM ElasticKept == MCSpec => []ElasticLostInTrouble
<1>1. IInv => ElasticLostInTrouble
  BY DEF IInv
<1>. QED
  BY <1>1, Invariance, PTL

\* A step that makes a task succeed is the end of its update.
LEMMA SuccessStep ==
  ASSUME IInv, [MCNext]_mcvars, NEW t \in Tasks,
         pc[t] = "update", pc'[t] = "succeeded"
  PROVE  Succeed(t)
<1>1. ASSUME NEW u \in Tasks, Step(u), u # t PROVE FALSE
  BY <1>1, StepTyping DEF IInv, Same
<1>2. ASSUME NEW d \in Devices, Restart(d) PROVE FALSE
  BY <1>2, RestartStep DEF IInv, Same, Cut
<1>3. CASE Step(t) /\ ~ Succeed(t)
  <2>1. TypeOK /\ task[t].host \in Devices
    BY DEF IInv, Orderly
  <2>2. ~ Ran(t)
    BY DEF Ran
  <2>3. ~ CloudCall(t)
    BY <2>1, <2>2, FreeStep, TakeStep, UnassignStep, AssignStep, ChainStep DEF CloudCall, Went
  <2>. QED
    BY <1>3, <2>1, <2>3, TakeOverStep, DiscoverStep DEF Step
<1>4. CASE UNCHANGED vars
  BY <1>4 DEF vars
<1>. QED
  BY <1>1, <1>2, <1>3, <1>4 DEF MCNext, Next, Done, Step, mcvars

\* A task that succeeds, and that nothing has overlapped, leaves every Elastic
\* IP and every address it wants where it wants it, or no device has it.
THEOREM Delivery == MCSpec => SuccessDelivers
<1>1. ASSUME IInv, [MCNext]_mcvars, NEW t \in Tasks,
             pc[t] = "update", pc'[t] = "succeeded", alone[t]
      PROVE  /\ \A e \in Tagged : tagged[e].at = task[t].host
             /\ \A a \in task[t].wanted : owner[a] \in {task[t].host, Nowhere}
  <2>1. UpdatesDone(t)
    BY <1>1, SuccessStep DEF Succeed
  <2>2. taking[t] = {} /\ unassigning[t] = {}
    BY <1>1, <2>1 DEF UpdatesDone, IInv, Staged
  <2>3. Taken(t) /\ Unassigned(t)
    BY <1>1 DEF IInv, OnItsWay
  <2>. QED
    BY <2>2, <2>3 DEF Taken, Unassigned
<1>2. IInv /\ [MCNext]_mcvars =>
        [\A t \in Tasks : pc[t] = "update" /\ pc'[t] = "succeeded" /\ alone[t] =>
           /\ \A e \in Tagged : tagged[e].at = task[t].host
           /\ \A a \in task[t].wanted : owner[a] \in {task[t].host, Nowhere}]_mcvars
  BY <1>1
<1>. QED
  BY <1>2, Invariance, PTL DEF MCSpec, SuccessDelivers

-----------------------------------------------------------------------------
(* Private addresses move as AddressOwnership says.                        *)

\* What is to be assigned is claimed, and the rest of the claims belong to tasks
\* that have failed or were cut off.
Claiming ==
  /\ claims \subseteq Ownership!Claim /\ ToAssign \subseteq claims
  /\ \A k \in claims : k \in ToAssign \/ pc[k.task] \in {"failed", "lost"}

CInv == IInv /\ Claiming

LEMMA ToAssignMembers ==
  ASSUME TypeOK, \A t \in Tasks : Orderly(t)
  PROVE  /\ \A t \in Tasks, a \in Addresses : Owes(t, a) =>
              [task |-> t, address |-> a, device |-> task[t].host] \in ToAssign
         /\ \A k \in ToAssign : /\ k.task \in Tasks /\ Owes(k.task, k.address)
                                /\ k.device = task[k.task].host
<1>1. ASSUME NEW t \in Tasks, NEW a \in Addresses, Owes(t, a)
      PROVE  [task |-> t, address |-> a, device |-> task[t].host] \in ToAssign
  <2>1. task[t].host \in Devices
    BY <1>1 DEF Orderly, Owes
  <2>. QED
    BY <1>1, <2>1 DEF ToAssign, Owes
<1>. QED
  BY <1>1 DEF ToAssign, Owes

\* A task that is to assign something, and has not failed after its step, is
\* still to assign it, or has.
LEMMA StepPays ==
  ASSUME TypeOK, NEW t \in Tasks, Orderly(t), Step(t), NEW a \in Addresses, Owes(t, a),
         pc'[t] \notin {"failed", "lost"}
  PROVE  \/ Owes(t, a)' /\ task'[t].host = task[t].host
         \/ owner'[a] = task[t].host
<1>1. pc[t] \notin {"idle", "discover", "succeeded"}
  BY DEF Orderly, Owes
<1>2. ASSUME NEW d \in Devices, NEW gained \in SUBSET Addresses, TakeOver(t, d, gained)
      PROVE  FALSE
  BY <1>1, <1>2, TakeOverStep
<1>3. CASE Discover(t)
  BY <1>1, <1>3, DiscoverStep
<1>4. ASSUME \/ \E call \in freeing[t] : Free(t, call)
             \/ \E call \in taking[t] : Take(t, call)
             \/ \E call \in unassigning[t] : Unassign(t, call)
             \/ Succeed(t)
      PROVE  Owes(t, a)' /\ task'[t].host = task[t].host
  BY <1>4 DEF Free, Take, Unassign, Succeed, privateCalls, Owes
<1>5. ASSUME NEW batch \in assigning[t], Assign(t, batch)
      PROVE  \/ Owes(t, a)' /\ task'[t].host = task[t].host
             \/ owner'[a] = task[t].host
  <2>1. UNCHANGED task /\ Ran(t)
    BY <1>5, AssignStep DEF Orderly
  <2>2. pc'[t] = "update"
    BY <1>1, <2>1 DEF Ran, TypeOK, Open, Ended
  <2>. QED
    BY <1>5, <2>1, <2>2, AssignStep DEF Orderly
<1>6. ASSUME NEW chain \in chains[t], Chain(t, chain)
      PROVE  Owes(t, a)' /\ task'[t].host = task[t].host
  BY <1>6, ChainStep DEF Went
<1>. QED
  BY <1>2, <1>3, <1>4, <1>5, <1>6 DEF Step, CloudCall

\* A task that has failed or was cut off does not start again.
LEMMA FailedForGood ==
  ASSUME IInv, Next, NEW t \in Tasks, pc[t] \in {"failed", "lost"}
  PROVE  pc'[t] \in {"failed", "lost"}
<1>1. ASSUME NEW u \in Tasks, Step(u) PROVE pc'[t] \in {"failed", "lost"}
  <2>1. CASE u # t
    BY <1>1, <2>1, StepTyping DEF IInv, Same
  <2>2. CASE u = t
    <3>1. TypeOK /\ (task[t].host \in Devices)
      BY DEF IInv, Orderly
    <3>2. CloudCall(t) => Ran(t)
      BY <3>1, FreeStep, TakeStep, UnassignStep, AssignStep, ChainStep DEF CloudCall, Went
    <3>. QED
      BY <1>1, <2>2, <3>1, <3>2, TakeOverStep, DiscoverStep, SucceedStep DEF Step, Ran
  <2>. QED
    BY <2>1, <2>2
<1>2. ASSUME NEW d \in Devices, Restart(d) PROVE pc'[t] \in {"failed", "lost"}
  BY <1>2, RestartStep DEF IInv, Same, Cut
<1>3. CASE Done
  BY <1>3 DEF Done, vars
<1>. QED
  BY <1>1, <1>2, <1>3 DEF Next, Step

\* A claim ends only when the address is where it was claimed for.
LEMMA ClaimsEnd ==
  ASSUME CInv, MCNext, NEW k \in claims, k \notin claims'
  PROVE  owner'[k.address] = k.device
<1>. USE DEF CInv
<1>1. CASE pc'[k.task] \in {"failed", "lost"}
  BY <1>1 DEF MCNext
<1>2. CASE pc'[k.task] \notin {"failed", "lost"}
  <2>. DEFINE t == k.task  a == k.address
  <2>1. k \in Ownership!Claim /\ t \in Tasks /\ a \in Addresses
    BY DEF Claiming, Ownership!Claim
  <2>2. k \in ToAssign
    BY <1>2, <2>1, FailedForGood DEF Claiming, MCNext
  <2>3. /\ Owes(t, a) /\ k.device = task[t].host
        /\ k = [task |-> t, address |-> a, device |-> task[t].host]
    BY <2>1, <2>2, ToAssignMembers DEF IInv, Ownership!Claim
  <2>. HIDE DEF t, a
  <2>4. ~ (Owes(t, a)' /\ task'[t].host = task[t].host)
    <3>1. SUFFICES ASSUME Owes(t, a)', task'[t].host = task[t].host PROVE FALSE
      OBVIOUS
    <3>2. k \in ToAssign'
      BY <2>1, <2>3, <3>1 DEF ToAssign, Owes, Ownership!Claim, t, a
    <3>. QED
      BY <2>3, <3>1, <3>2 DEF MCNext
  <2>5. ASSUME NEW u \in Tasks, Step(u) PROVE owner'[a] = task[t].host
    <3>1. CASE u = t
      BY <1>2, <2>1, <2>3, <2>4, <2>5, <3>1, StepPays DEF IInv, t
    <3>2. CASE u # t
      <4>1. Same(t)
        BY <2>1, <2>5, <3>2, StepTyping DEF IInv
      <4>. QED
        BY <2>3, <2>4, <4>1 DEF Same, Owes
    <3>. QED
      BY <3>1, <3>2
  <2>6. ASSUME NEW d \in Devices, Restart(d) PROVE FALSE
    <3>1. Same(t)
      BY <1>2, <2>1, <2>6, RestartStep DEF IInv, Cut, t
    <3>. QED
      BY <2>3, <2>4, <3>1 DEF Same, Owes
  <2>7. ASSUME Done PROVE FALSE
    BY <2>3, <2>4, <2>7 DEF Done, vars, privateCalls, Owes
  <2>8. owner'[a] = task[t].host
    BY <2>5, <2>6, <2>7 DEF MCNext, Next, Step
  <2>. QED
    BY <2>3, <2>8 DEF a
<1>. QED
  BY <1>1, <1>2

\* An address stays, or is unassigned when it is claimed, or arrives where it is
\* claimed for.
LEMMA AddressStep ==
  ASSUME CInv, MCNext, NEW a \in Addresses
  PROVE  Ownership!Stays(a) \/ Ownership!Leaves(a) \/ Ownership!Arrives(a)
<1>. USE DEF CInv
<1>1. CASE owner'[a] = owner[a]
  BY <1>1 DEF Ownership!Stays
<1>2. ASSUME NEW t \in Tasks, Owes(t, a)
      PROVE  [task |-> t, address |-> a, device |-> task[t].host] \in claims
  BY <1>2, ToAssignMembers DEF Claiming, IInv
<1>3. ASSUME NEW t \in Tasks, NEW call \in unassigning[t], Unassign(t, call),
             owner'[a] # owner[a]
      PROVE  Ownership!Leaves(a)
  <2>1. a \in call.addresses /\ owner'[a] = Nowhere
    BY <1>3, UnassignStep DEF IInv
  <2>2. Owes(t, a)
    BY <1>3, <2>1 DEF IInv, Staged
  <2>. QED
    BY <1>2, <2>1, <2>2 DEF Ownership!Leaves, Ownership!Claimed
<1>4. ASSUME NEW t \in Tasks, NEW batch \in assigning[t], Assign(t, batch),
             owner'[a] # owner[a]
      PROVE  Ownership!Arrives(a)
  <2>1. Owes(t, a) /\ owner[a] = Nowhere /\ owner'[a] = task[t].host
    BY <1>4, AssignStep DEF IInv, Orderly
  <2>. QED
    BY <1>2, <2>1 DEF Ownership!Arrives
<1>5. ASSUME NEW t \in Tasks,
             \/ \E d \in Devices, gained \in SUBSET Addresses : TakeOver(t, d, gained)
             \/ Discover(t) \/ Succeed(t)
             \/ \E call \in freeing[t] : Free(t, call)
             \/ \E call \in taking[t] : Take(t, call)
             \/ \E chain \in chains[t] : Chain(t, chain)
      PROVE  owner' = owner
  BY <1>5 DEF TakeOver, Discover, Succeed, Free, Take, Chain, cloud
<1>6. (\E d \in Devices : Restart(d)) \/ Done => owner' = owner
  BY DEF Restart, Done, vars, cloud
<1>. QED
  BY <1>1, <1>3, <1>4, <1>5, <1>6 DEF MCNext, Next, CloudCall

\* The claims keep to what is to be assigned.
LEMMA NextCInv == CInv /\ [MCNext]_mcvars => CInv'
<1>. SUFFICES ASSUME CInv, [MCNext]_mcvars PROVE CInv'
  OBVIOUS
<1>1. IInv'
  BY NextIInv DEF CInv
<1>2. ToAssign' \subseteq Ownership!Claim
  BY DEF ToAssign, Ownership!Claim
<1>3. CASE MCNext
  <2>1. claims \subseteq Ownership!Claim
    BY DEF CInv, Claiming
  <2>. QED
    BY <1>1, <1>2, <1>3, <2>1 DEF MCNext, Claiming, CInv, Ownership!Claim
<1>4. CASE UNCHANGED mcvars
  BY <1>1, <1>4 DEF mcvars, vars, privateCalls, CInv, Claiming, ToAssign, Ownership!Claim
<1>. QED
  BY <1>3, <1>4

\* However tasks overlap, repeat their calls, fail or are cut off, private
\* addresses move as AddressOwnership says.
THEOREM Implementation == MCSpec => ImplementsOwnership
<1>1. MCInit => CInv /\ Ownership!Init
  <2>. SUFFICES ASSUME MCInit PROVE CInv /\ Ownership!Init
    OBVIOUS
  <2>1. /\ claims = {} /\ assigning = [t \in Tasks |-> {}]
        /\ owner \in [Addresses -> Devices]
    BY DEF MCInit, Init
  <2>2. ToAssign = {}
    BY <2>1 DEF ToAssign
  <2>. QED
    BY <2>1, <2>2, InitIInv DEF CInv, Claiming, Ownership!Init
<1>2. CInv /\ [MCNext]_mcvars => CInv'
  BY NextCInv
<1>3. CInv /\ CInv' /\ [MCNext]_mcvars =>
        [Ownership!Next]_<<owner, claims>>
  <2>. SUFFICES ASSUME CInv, CInv', [MCNext]_mcvars
                PROVE  [Ownership!Next]_<<owner, claims>>
    OBVIOUS
  <2>1. CASE MCNext
    <3>1. owner' \in [Addresses -> Devices \cup {Nowhere}] /\ claims' \subseteq Ownership!Claim
      BY DEF CInv, IInv, TypeOK, Claiming, Ownership!Claim
    <3>. QED
      BY <2>1, <3>1, AddressStep, ClaimsEnd DEF Ownership!Next
  <2>2. CASE UNCHANGED mcvars
    BY <2>2 DEF mcvars, vars, cloud
  <2>. QED
    BY <2>1, <2>2
<1>. QED
  BY <1>1, <1>2, <1>3, PTL DEF MCSpec, ImplementsOwnership, Ownership!Spec
=============================================================================
