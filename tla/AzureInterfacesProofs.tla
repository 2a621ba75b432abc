------------------------ MODULE AzureInterfacesProofs ------------------------
(***************************************************************************)
(* Theorems about AzureInterfaces, for every set of devices, tags,         *)
(* addresses, routes and tasks, overlapping or not, and every bound: its   *)
(* state keeps its form, no address is lost without a task that is in      *)
(* trouble, and, for the pairs of devices the user guide supports, a       *)
(* failover that succeeds has moved what it should and nothing else.       *)
(***************************************************************************)
EXTENDS MCAzureInterfaces, TLAPS

-----------------------------------------------------------------------------
(* The inductive invariants.                                               *)

\* A task that has not written anything, or has done so by itself and to the end.
Clean(t) == task[t].pairs = {} \/ (pc[t] = "succeeded" /\ alone[t])
Fine(t)  == pc[t] \in {"idle", "succeeded"} /\ alone[t]

\* A task that is alone and under way is the only one under way.
OneBusy == \A t, u \in Tasks : t # u /\ alone[t] /\ Busy(t) => ~Busy(u)

\* A task that is under way has a device, and issues its calls when it has
\* discovered what to do.
Orderly(t) ==
  /\ pc[t] # "idle" => task[t].host \in Devices
  /\ pc[t] \in {"idle", "discover"} =>
       stage[t] = "detach" /\ puts[t] = {} /\ reroutes[t] = {} /\ task[t].pairs = {}
  /\ pc[t] = "succeeded" => puts[t] = {} /\ reroutes[t] = {}
  /\ stage[t] = "broken" => pc[t] \in {"failed", "lost"}
  /\ puts[t] # {} => task[t].pairs # {}

\* What a discovery pairs: interfaces of one tag, and a tag once.
Paired(c) ==
  /\ \A p \in c.pairs : Device(p[2]) # c.host /\ p[1] = <<c.host, TagOf(p[2])>>
  /\ \A p, q \in c.pairs : TagOf(p[2]) = TagOf(q[2]) => p = q

\* ... each tag with which a peer has something that is wanted.
Complete(c) ==
  \A i \in Interfaces :
    Device(i) # c.host /\ c.seen[i] \cap c.wanted # {} =>
      \E p \in c.pairs : TagOf(p[2]) = TagOf(i)

\* What pair p is to leave on the interface of the peer, and on its own.
Kept(c, p)  == c.seen[p[2]] \ c.wanted
Given(c, p) == c.seen[p[1]] \cup (c.seen[p[2]] \cap c.wanted)

\* The PUTs of a task that has not failed are those of its stage.
Writes(t, i) == \E put \in puts[t] : put.interface = i

InStep(t) ==
  pc[t] = "update" =>
    /\ Complete(task[t])
    /\ stage[t] = "detach" =>
         /\ \A put \in puts[t] : \E p \in task[t].pairs :
              put.interface = p[2] /\ put.content = Kept(task[t], p)
         /\ puts[t] = {} => task[t].pairs = {}
    /\ stage[t] = "attach" =>
         \A put \in puts[t] : \E p \in task[t].pairs :
              put.interface = p[1] /\ put.content = Given(task[t], p)

\* How far a task that is alone and has not failed has come: every interface
\* is as it saw it, as it wants it, or is still to be written.
Untouched(t) ==
  \A i \in Interfaces :
    (\A p \in task[t].pairs : i \notin {p[1], p[2]}) => holds[i] = task[t].seen[i]
Written(t) ==
  \A p \in task[t].pairs :
    /\ holds[p[2]] = Kept(task[t], p) \/ (stage[t] = "detach" /\ Writes(t, p[2]))
    /\ stage[t] = "attach" => holds[p[1]] = Given(task[t], p) \/ Writes(t, p[1])
Redirected(t) ==
  \A n \in Routes : nextHop[n] = task[t].host \/ \E call \in reroutes[t] : call.route = n
OnItsWay(t) ==
  pc[t] = "update" /\ alone[t] => Untouched(t) /\ Written(t) /\ Redirected(t)

\* A task that starts when no address can have been lost sees all of them.
SawAll(t) ==
  pc[t] = "update" /\ alone[t] /\ (\A u \in Tasks \ {t} : Clean(u)) =>
    \A a \in Addresses : \E i \in Interfaces : a \in task[t].seen[i]

IInv ==
  /\ TypeOK /\ alone \in [Tasks -> BOOLEAN]
  /\ OneBusy /\ LostOnlyInTrouble
  /\ \A t \in Tasks : Orderly(t) /\ Paired(task[t]) /\ InStep(t) /\ OnItsWay(t) /\ SawAll(t)

-----------------------------------------------------------------------------
(* Typing.                                                                 *)

LEMMA InterfaceTyping ==
  /\ \A i \in Interfaces : Device(i) \in Devices /\ TagOf(i) \in Tags
                           /\ i = <<Device(i), TagOf(i)>>
  /\ \A d \in Devices, g \in Tags :
       <<d, g>> \in Interfaces /\ Device(<<d, g>>) = d /\ TagOf(<<d, g>>) = g
  /\ \A p \in Interfaces \X Interfaces : p[1] \in Interfaces /\ p[2] \in Interfaces
BY DEF Interfaces, Device, TagOf

LEMMA TriesTyping ==
  /\ MaxTries \in 1..MaxTries /\ 1 \in 1..MaxTries
  /\ \A put \in Put : Retriable(put) => [put EXCEPT !.tries = @ - 1] \in Put
  /\ \A call \in Reroute : Retriable(call) => [call EXCEPT !.tries = @ - 1] \in Reroute
<1>1. MaxTries \in Nat /\ MaxTries >= 1
  BY BoundAssumption
<1>2. ASSUME NEW n \in 1..MaxTries, n > 1 PROVE n - 1 \in 1..MaxTries
  BY <1>1, <1>2
<1>3. ASSUME NEW put \in Put, Retriable(put) PROVE [put EXCEPT !.tries = @ - 1] \in Put
  BY <1>2, <1>3 DEF Put, Retriable
<1>4. ASSUME NEW call \in Reroute, Retriable(call)
      PROVE  [call EXCEPT !.tries = @ - 1] \in Reroute
  BY <1>2, <1>4 DEF Reroute, Retriable
<1>. QED
  BY <1>1, <1>3, <1>4

LEMMA FaultTyping ==
  ASSUME TypeOK, Fault \/ NoFault
  PROVE  faults' \in 0..MaxFaults
BY BoundAssumption DEF TypeOK, Fault, NoFault

LEMMA PcTyping ==
  ASSUME TypeOK, NEW t \in Tasks, Rejected(t) \/ UNCHANGED pc
  PROVE  pc' \in [Tasks -> {"idle"} \cup Open \cup Ended]
BY DEF TypeOK, Rejected, Goto, Ended

\* What a task writes.
LEMMA PutTyping ==
  ASSUME NEW c \in Task
  PROVE  Detachments(c) \subseteq Put /\ Attachments(c) \subseteq Put
<1>1. c.seen \in [Interfaces -> SUBSET Addresses] /\ c.wanted \in SUBSET Addresses
      /\ c.pairs \in SUBSET (Interfaces \X Interfaces)
  BY DEF Task
<1>2. ASSUME NEW p \in c.pairs
      PROVE  /\ p[1] \in Interfaces /\ p[2] \in Interfaces
             /\ c.seen[p[2]] \ c.wanted \in SUBSET Addresses
             /\ c.seen[p[1]] \cup (c.seen[p[2]] \cap c.wanted) \in SUBSET Addresses
  BY <1>1, InterfaceTyping
<1>. QED
  BY <1>2, TriesTyping DEF Detachments, Attachments, Put

\* What a discovery finds out.
Learned(t, pairs) == [task[t] EXCEPT !.seen = holds, !.pairs = pairs]

LEMMA PairingTyping ==
  ASSUME TypeOK, NEW t \in Tasks, task[t].host \in Devices, NEW pairs \in Pairings(t)
  PROVE  LET c == Learned(t, pairs) IN
         /\ c \in Task /\ c.host = task[t].host /\ c.wanted = task[t].wanted
         /\ c.seen = holds /\ c.pairs = pairs
         /\ Paired(c) /\ Complete(c)
<1>. DEFINE tags == {g \in Tags : Theirs(t, g) # {}}
            c == Learned(t, pairs)
<1>1. PICK peer \in [tags -> Interfaces] :
        /\ \A g \in tags : peer[g] \in Theirs(t, g)
        /\ pairs = {<<<<task[t].host, g>>, peer[g]>> : g \in tags}
  BY DEF Pairings
<1>2. \A g \in tags : Device(peer[g]) # task[t].host /\ TagOf(peer[g]) = g
  BY <1>1 DEF Theirs
<1>3. \A p \in pairs : \E g \in tags : p = <<<<task[t].host, g>>, peer[g]>>
  BY <1>1
<1>4. pairs \in SUBSET (Interfaces \X Interfaces)
  BY <1>3, InterfaceTyping
<1>5. /\ c \in Task /\ c.host = task[t].host /\ c.wanted = task[t].wanted
      /\ c.seen = holds /\ c.pairs = pairs
  BY <1>4 DEF TypeOK, Task, Learned
<1>. HIDE DEF c
<1>6. Paired(c)
  BY <1>2, <1>3, <1>5 DEF Paired
<1>7. ASSUME NEW i \in Interfaces, Device(i) # task[t].host,
             holds[i] \cap task[t].wanted # {}
      PROVE  \E p \in pairs : TagOf(p[2]) = TagOf(i)
  <2>1. TagOf(i) \in tags
    BY <1>7, InterfaceTyping DEF Theirs
  <2>2. <<<<task[t].host, TagOf(i)>>, peer[TagOf(i)]>> \in pairs
    BY <1>1, <2>1
  <2>. QED
    BY <1>2, <2>1, <2>2
<1>8. Complete(c)
  BY <1>5, <1>7 DEF Complete
<1>. QED
  BY <1>5, <1>6, <1>8 DEF c

LEMMA InitTypeOK == Init => TypeOK
<1>. SUFFICES ASSUME Init PROVE TypeOK
  OBVIOUS
<1>1. roleChanges \in 0..MaxRoleChanges /\ faults \in 0..MaxFaults /\ crashes \in 0..MaxCrashes
  BY BoundAssumption DEF Init
<1>2. task \in [Tasks -> Task]
  BY DEF Init, Idle, Task
<1>3. holds \in [Interfaces -> SUBSET Addresses] /\ nextHop \in [Routes -> Devices]
  BY DEF Init
<1>. QED
  BY <1>1, <1>2, <1>3 DEF Init, TypeOK, Open, Ended

LEMMA TakeOverTypeOK ==
  ASSUME TypeOK, NEW t \in Tasks, NEW d \in Devices, NEW gained \in SUBSET Addresses,
         TakeOver(t, d, gained)
  PROVE  /\ TypeOK'
         /\ task'[t].host = d /\ task'[t].pairs = task[t].pairs
         /\ task'[t].wanted = {a \in Addresses : active'[a] = d}
<1>. DEFINE W == {a \in Addresses : active'[a] = d}
<1>1. active' \in [Addresses -> Devices]
  BY DEF TakeOver, TypeOK
<1>2. W \in SUBSET Addresses
  OBVIOUS
<1>3. task' = [task EXCEPT ![t] = [@ EXCEPT !.host = d, !.wanted = W]]
  BY DEF TakeOver
<1>. HIDE DEF W
<1>4. /\ task' \in [Tasks -> Task]
      /\ task'[t].host = d /\ task'[t].pairs = task[t].pairs /\ task'[t].wanted = W
  BY <1>2, <1>3 DEF TypeOK, Task
<1>5. roleChanges' \in 0..MaxRoleChanges
  BY BoundAssumption DEF TakeOver, TypeOK
<1>6. pc' \in [Tasks -> {"idle"} \cup Open \cup Ended]
  BY DEF TakeOver, TypeOK, Goto, Open
<1>7. UNCHANGED <<holds, nextHop, stage, puts, reroutes, faults, crashes>>
  BY DEF TakeOver, calls
<1>. QED
  BY <1>1, <1>4, <1>5, <1>6, <1>7 DEF TypeOK, W

LEMMA DiscoverTypeOK ==
  ASSUME TypeOK, NEW t \in Tasks, task[t].host \in Devices, Discover(t)
  PROVE  TypeOK'
<1>1. faults' \in 0..MaxFaults
  BY FaultTyping DEF Discover
<1>2. UNCHANGED <<holds, nextHop, active, stage, roleChanges, crashes>>
  BY DEF Discover
<1>3. CASE Goto(t, "failed") /\ UNCHANGED <<task, puts, reroutes>>
  BY <1>1, <1>2, <1>3 DEF TypeOK, Goto, Ended
<1>4. ASSUME NEW pairs \in Pairings(t),
             task' = [task EXCEPT ![t] = Learned(t, pairs)],
             puts' = [puts EXCEPT ![t] = Detachments(Learned(t, pairs))],
             reroutes' = [reroutes EXCEPT ![t] = Redirections(t)],
             Goto(t, "update")
      PROVE  TypeOK'
  <2>. DEFINE c == Learned(t, pairs)
  <2>1. c \in Task
    BY PairingTyping
  <2>2. Detachments(c) \subseteq Put
    BY <2>1, PutTyping
  <2>3. Redirections(t) \subseteq Reroute
    BY TriesTyping DEF Redirections, Reroute
  <2>4. task' \in [Tasks -> Task] /\ puts' \in [Tasks -> SUBSET Put]
        /\ reroutes' \in [Tasks -> SUBSET Reroute]
    BY <1>4, <2>1, <2>2, <2>3 DEF TypeOK
  <2>5. pc' \in [Tasks -> {"idle"} \cup Open \cup Ended]
    BY <1>4 DEF TypeOK, Goto, Open
  <2>. QED
    BY <1>1, <1>2, <2>4, <2>5 DEF TypeOK
<1>. QED
  BY <1>3, <1>4 DEF Discover, Learned

LEMMA PutInterfaceTypeOK ==
  ASSUME TypeOK, NEW t \in Tasks, NEW put \in puts[t], PutInterface(t, put)
  PROVE  TypeOK'
<1>1. put \in Put
  BY DEF TypeOK
<1>2. holds' \in [Interfaces -> SUBSET Addresses]
  BY <1>1 DEF PutInterface, TypeOK, Put
<1>3. stage' \in [Tasks -> {"detach", "attach", "broken"}]
  BY DEF PutInterface, TypeOK
<1>4. Attachments(task[t]) \subseteq Put
  BY PutTyping DEF TypeOK
<1>5. puts' \in [Tasks -> SUBSET Put]
  BY <1>4 DEF PutInterface, TypeOK
<1>. QED
  BY <1>2, <1>3, <1>5 DEF PutInterface, TypeOK, budgets

LEMMA PutFailsTypeOK ==
  ASSUME TypeOK, NEW t \in Tasks, NEW put \in puts[t], PutFails(t, put)
  PROVE  TypeOK'
<1>1. put \in Put
  BY DEF TypeOK
<1>2. holds' \in [Interfaces -> SUBSET Addresses]
  BY <1>1 DEF PutFails, TypeOK, Put
<1>3. faults' \in 0..MaxFaults
  BY FaultTyping DEF PutFails
<1>4. pc' \in [Tasks -> {"idle"} \cup Open \cup Ended]
  BY PcTyping DEF PutFails
<1>5. stage' \in [Tasks -> {"detach", "attach", "broken"}]
  BY DEF PutFails, TypeOK
<1>6. puts' \in [Tasks -> SUBSET Put]
  BY <1>1, TriesTyping DEF PutFails, TypeOK
<1>. QED
  BY <1>2, <1>3, <1>4, <1>5, <1>6 DEF PutFails, TypeOK

LEMMA PutRouteTypeOK ==
  ASSUME TypeOK, NEW t \in Tasks, NEW call \in reroutes[t], task[t].host \in Devices,
         PutRoute(t, call)
  PROVE  TypeOK'
<1>1. call \in Reroute
  BY DEF TypeOK
<1>2. nextHop' \in [Routes -> Devices]
  BY <1>1 DEF PutRoute, TypeOK, Reroute
<1>3. faults' \in 0..MaxFaults
  BY FaultTyping DEF PutRoute
<1>4. pc' \in [Tasks -> {"idle"} \cup Open \cup Ended]
  BY PcTyping DEF PutRoute
<1>5. reroutes' \in [Tasks -> SUBSET Reroute]
  BY <1>1, TriesTyping DEF PutRoute, TypeOK
<1>. QED
  BY <1>2, <1>3, <1>4, <1>5 DEF PutRoute, TypeOK

LEMMA RestartTypeOK ==
  ASSUME TypeOK, NEW d \in Devices, Restart(d)
  PROVE  TypeOK'
<1>1. pc' \in [Tasks -> {"idle"} \cup Open \cup Ended]
  BY DEF Restart, TypeOK, Ended
<1>2. stage' \in [Tasks -> {"detach", "attach", "broken"}]
  BY DEF Restart, TypeOK
<1>3. \A put \in Put : [put EXCEPT !.tries = 1] \in Put
  BY TriesTyping DEF Put
<1>4. \A call \in Reroute : [call EXCEPT !.tries = 1] \in Reroute
  BY TriesTyping DEF Reroute
<1>5. puts' \in [Tasks -> SUBSET Put]
  BY <1>3 DEF Restart, TypeOK
<1>6. reroutes' \in [Tasks -> SUBSET Reroute]
  BY <1>4 DEF Restart, TypeOK
<1>7. crashes' \in 0..MaxCrashes
  BY BoundAssumption DEF Restart, TypeOK
<1>. QED
  BY <1>1, <1>2, <1>5, <1>6, <1>7 DEF Restart, TypeOK

LEMMA NextTypeOK ==
  ASSUME TypeOK, \A t \in Tasks : Orderly(t), [Next]_vars
  PROVE  TypeOK'
<1>1. ASSUME NEW t \in Tasks, Discover(t) PROVE TypeOK'
  <2>1. task[t].host \in Devices
    BY <1>1 DEF Discover, Orderly
  <2>. QED
    BY <1>1, <2>1, DiscoverTypeOK
<1>2. ASSUME NEW t \in Tasks, NEW call \in reroutes[t], PutRoute(t, call) PROVE TypeOK'
  <2>1. task[t].host \in Devices
    BY <1>2 DEF Orderly
  <2>. QED
    BY <1>2, <2>1, PutRouteTypeOK
<1>3. ASSUME NEW t \in Tasks, Succeed(t) PROVE TypeOK'
  BY <1>3 DEF Succeed, TypeOK, Goto, Ended, calls, budgets
<1>4. CASE UNCHANGED vars
  BY <1>4 DEF vars, calls, budgets, TypeOK
<1>. QED
  BY <1>1, <1>2, <1>3, <1>4, TakeOverTypeOK, PutInterfaceTypeOK, PutFailsTypeOK,
     RestartTypeOK DEF Next, Done

-----------------------------------------------------------------------------
(* What one step changes.                                                  *)

Same(u) ==
  /\ pc'[u] = pc[u] /\ task'[u] = task[u] /\ stage'[u] = stage[u]
  /\ puts'[u] = puts[u] /\ reroutes'[u] = reroutes[u]

\* The steps of task t.
Step(t) ==
  \/ \E d \in Devices, gained \in SUBSET Addresses : TakeOver(t, d, gained)
  \/ Discover(t)
  \/ \E put \in puts[t] : PutInterface(t, put) \/ PutFails(t, put)
  \/ \E call \in reroutes[t] : PutRoute(t, call)
  \/ Succeed(t)

LEMMA OthersSame ==
  ASSUME TypeOK, NEW t \in Tasks, Step(t)
  PROVE  \A u \in Tasks \ {t} : Same(u)
<1>. USE DEF Same, Goto, calls
<1>1. ASSUME NEW d \in Devices, NEW gained \in SUBSET Addresses, TakeOver(t, d, gained)
      PROVE  \A u \in Tasks \ {t} : Same(u)
  BY <1>1 DEF TakeOver, TypeOK
<1>2. CASE Discover(t)
  BY <1>2 DEF Discover, TypeOK
<1>3. ASSUME NEW put \in puts[t], PutInterface(t, put)
      PROVE  \A u \in Tasks \ {t} : Same(u)
  BY <1>3 DEF PutInterface, TypeOK
<1>4. ASSUME NEW put \in puts[t], PutFails(t, put)
      PROVE  \A u \in Tasks \ {t} : Same(u)
  BY <1>4 DEF PutFails, Rejected, TypeOK
<1>5. ASSUME NEW call \in reroutes[t], PutRoute(t, call)
      PROVE  \A u \in Tasks \ {t} : Same(u)
  BY <1>5 DEF PutRoute, Rejected, TypeOK
<1>6. CASE Succeed(t)
  BY <1>6 DEF Succeed, TypeOK
<1>. QED
  BY <1>1, <1>2, <1>3, <1>4, <1>5, <1>6 DEF Step

\* Who can change what the cloud holds, and the active device.
LEMMA CloudKept ==
  ASSUME NEW t \in Tasks, Step(t)
  PROVE  /\ puts[t] = {} => UNCHANGED holds
         /\ reroutes[t] = {} => UNCHANGED nextHop
         /\ pc[t] # "idle" => UNCHANGED active
BY DEF Step, TakeOver, Discover, PutInterface, PutFails, PutRoute, Succeed

\* What a discovery leaves behind.
LEMMA DiscoverStep ==
  ASSUME TypeOK, NEW t \in Tasks, Orderly(t), Discover(t)
  PROVE  /\ UNCHANGED <<holds, nextHop, active, stage>>
         /\ pc[t] = "discover" /\ task[t].host \in Devices
         /\ stage[t] = "detach" /\ puts[t] = {} /\ reroutes[t] = {} /\ task[t].pairs = {}
         /\ \/ pc'[t] = "failed" /\ UNCHANGED <<task, puts, reroutes>>
            \/ /\ pc'[t] = "update"
               /\ task'[t].host = task[t].host /\ task'[t].wanted = task[t].wanted
               /\ task'[t].seen = holds
               /\ Paired(task'[t]) /\ Complete(task'[t])
               /\ puts'[t] = Detachments(task'[t])
               /\ reroutes'[t] = Redirections(t)
<1>1. UNCHANGED <<holds, nextHop, active, stage>> /\ pc[t] = "discover"
  BY DEF Discover
<1>2. /\ task[t].host \in Devices
      /\ stage[t] = "detach" /\ puts[t] = {} /\ reroutes[t] = {} /\ task[t].pairs = {}
  BY <1>1 DEF Orderly
<1>3. CASE Goto(t, "failed") /\ UNCHANGED <<task, puts, reroutes>>
  BY <1>1, <1>2, <1>3 DEF Goto, TypeOK
<1>4. ASSUME NEW pairs \in Pairings(t),
             task' = [task EXCEPT ![t] = Learned(t, pairs)],
             puts' = [puts EXCEPT ![t] = Detachments(Learned(t, pairs))],
             reroutes' = [reroutes EXCEPT ![t] = Redirections(t)],
             Goto(t, "update")
      PROVE  /\ pc'[t] = "update"
             /\ task'[t].host = task[t].host /\ task'[t].wanted = task[t].wanted
             /\ task'[t].seen = holds
             /\ Paired(task'[t]) /\ Complete(task'[t])
             /\ puts'[t] = Detachments(task'[t])
             /\ reroutes'[t] = Redirections(t)
  <2>. DEFINE c == Learned(t, pairs)
  <2>2. /\ c.host = task[t].host /\ c.wanted = task[t].wanted /\ c.seen = holds
        /\ Paired(c) /\ Complete(c)
    BY <1>2, PairingTyping
  <2>3. /\ task'[t] = c /\ puts'[t] = Detachments(c) /\ pc'[t] = "update"
        /\ reroutes'[t] = Redirections(t)
    BY <1>4 DEF TypeOK, Goto
  <2>. QED
    BY <2>2, <2>3
<1>. QED
  BY <1>1, <1>2, <1>3, <1>4 DEF Discover, Learned

\* How a task goes on.
LEMMA PcStep ==
  ASSUME TypeOK, NEW t \in Tasks, Step(t)
  PROVE  \/ pc[t] = "idle" /\ pc'[t] = "discover"
         \/ pc[t] = "discover" /\ pc'[t] \in {"update", "failed"}
         \/ pc[t] = "update" /\ pc'[t] \in {"succeeded", "failed"}
         \/ pc'[t] = pc[t]
BY DEF Step, TakeOver, Discover, PutInterface, PutFails, PutRoute, Succeed, Rejected, Goto,
       TypeOK

LEMMA AloneStep ==
  ASSUME alone \in [Tasks -> BOOLEAN], OneBusy, [MCNext]_<<vars, alone>>
  PROVE  /\ alone' \in [Tasks -> BOOLEAN]
         /\ \A t \in Tasks : alone'[t] => alone[t]
         /\ OneBusy'
<1>1. CASE MCNext
  BY <1>1 DEF MCNext, OneBusy
<1>2. CASE UNCHANGED <<vars, alone>>
  <2>1. \A t \in Tasks : Busy(t)' = Busy(t)
    BY <1>2 DEF vars, calls, Busy
  <2>. QED
    BY <1>2, <2>1 DEF OneBusy
<1>. QED
  BY <1>1, <1>2

\* The restart of a device, seen from one task.
LEMMA RestartStep ==
  ASSUME TypeOK, NEW d \in Devices, Restart(d), NEW t \in Tasks
  PROVE  /\ UNCHANGED <<holds, nextHop, active>> /\ task'[t] = task[t]
         /\ \/ Same(t)
            \/ /\ Busy(t) /\ task[t].host = d /\ pc'[t] = "lost" /\ stage'[t] = "broken"
               /\ puts'[t] # {} => puts[t] # {}
BY DEF Restart, Same, TypeOK

-----------------------------------------------------------------------------
(* Tasks keep to their order.                                              *)

LEMMA NextOrderly ==
  ASSUME TypeOK, NEW t \in Tasks, Orderly(t), Step(t)
  PROVE  Orderly(t)'
<1>1. ASSUME NEW d \in Devices, NEW gained \in SUBSET Addresses, TakeOver(t, d, gained)
      PROVE  Orderly(t)'
  <2>1. task'[t].host = d /\ task'[t].pairs = task[t].pairs
    BY <1>1, TakeOverTypeOK
  <2>2. pc[t] = "idle" /\ pc'[t] = "discover" /\ UNCHANGED <<stage, puts, reroutes>>
    BY <1>1 DEF TakeOver, Goto, TypeOK, calls
  <2>. QED
    BY <2>1, <2>2 DEF Orderly
<1>2. CASE Discover(t)
  <2>1. Detachments(task'[t]) # {} => task'[t].pairs # {}
    BY DEF Detachments
  <2>. QED
    BY <1>2, <2>1, DiscoverStep DEF Orderly
<1>3. ASSUME NEW put \in puts[t], PutInterface(t, put) PROVE Orderly(t)'
  <2>1. task[t].pairs # {} /\ pc[t] \notin {"idle", "discover", "succeeded"}
    BY DEF Orderly
  <2>2. UNCHANGED <<pc, task, reroutes>>
    BY <1>3 DEF PutInterface
  <2>3. stage'[t] = "broken" => stage[t] = "broken"
    BY <1>3 DEF PutInterface, TypeOK
  <2>. QED
    BY <2>1, <2>2, <2>3 DEF Orderly
<1>4. ASSUME NEW put \in puts[t], PutFails(t, put) PROVE Orderly(t)'
  <2>1. task[t].pairs # {} /\ pc[t] \notin {"idle", "discover", "succeeded"}
    BY DEF Orderly
  <2>2. UNCHANGED <<task, reroutes>>
    BY <1>4 DEF PutFails
  <2>3. \/ UNCHANGED <<pc, stage>>
        \/ pc'[t] \in {"failed", "lost"}
    BY <1>4, <2>1 DEF PutFails, Rejected, Goto, TypeOK, Open, Ended
  <2>. QED
    BY <2>1, <2>2, <2>3 DEF Orderly
<1>5. ASSUME NEW call \in reroutes[t], PutRoute(t, call) PROVE Orderly(t)'
  <2>1. pc[t] \notin {"idle", "discover", "succeeded"}
    BY DEF Orderly
  <2>2. UNCHANGED <<task, stage, puts>>
    BY <1>5 DEF PutRoute
  <2>3. pc'[t] = pc[t] \/ pc'[t] = "failed"
    BY <1>5 DEF PutRoute, Rejected, Goto, TypeOK
  <2>. QED
    BY <2>1, <2>2, <2>3 DEF Orderly
<1>6. CASE Succeed(t)
  <2>1. pc[t] = "update" /\ pc'[t] = "succeeded" /\ puts[t] = {} /\ reroutes[t] = {}
        /\ stage[t] # "broken"
    BY <1>6 DEF Succeed, Goto, TypeOK, UpdatesDone
  <2>2. UNCHANGED <<task, stage, puts, reroutes>>
    BY <1>6 DEF Succeed, calls
  <2>. QED
    BY <2>1, <2>2 DEF Orderly
<1>. QED
  BY <1>1, <1>2, <1>3, <1>4, <1>5, <1>6 DEF Step

\* Pairs are made by a discovery alone.
LEMMA NextPaired ==
  ASSUME TypeOK, NEW t \in Tasks, Orderly(t), Paired(task[t]), Step(t)
  PROVE  Paired(task[t])'
<1>1. ASSUME NEW d \in Devices, NEW gained \in SUBSET Addresses, TakeOver(t, d, gained)
      PROVE  Paired(task[t])'
  <2>1. task'[t].pairs = task[t].pairs /\ pc[t] = "idle"
    BY <1>1, TakeOverTypeOK DEF TakeOver
  <2>. QED
    BY <2>1 DEF Paired, Orderly
<1>2. CASE Discover(t)
  BY <1>2, DiscoverStep DEF Paired
<1>3. CASE UNCHANGED task
  BY <1>3 DEF Paired
<1>. QED
  BY <1>1, <1>2, <1>3 DEF Step, PutInterface, PutFails, PutRoute, Succeed

\* The PUTs of a task are those of its stage.
LEMMA NextInStep ==
  ASSUME TypeOK, NEW t \in Tasks, Orderly(t), InStep(t), Step(t)
  PROVE  InStep(t)'
<1>. SUFFICES ASSUME pc'[t] = "update" PROVE InStep(t)'
  BY DEF InStep
<1>1. CASE Discover(t)
  <2>. DEFINE c == task'[t]
  <2>1. /\ stage'[t] = "detach" /\ Complete(c) /\ puts'[t] = Detachments(c)
    BY <1>1, DiscoverStep
  <2>2. \A put \in puts'[t] : \E p \in c.pairs :
          put.interface = p[2] /\ put.content = Kept(c, p)
    BY <2>1 DEF Detachments, Kept
  <2>3. puts'[t] = {} => c.pairs = {}
    BY <2>1 DEF Detachments
  <2>. QED
    BY <2>1, <2>2, <2>3 DEF InStep, Complete, Kept
<1>2. ASSUME NEW put \in puts[t], PutInterface(t, put) PROVE InStep(t)'
  <2>1. pc[t] = "update" /\ UNCHANGED task
    BY <1>2 DEF PutInterface
  <2>2. CASE LastDetachment(t, put)
    <3>1. stage'[t] = "attach" /\ puts'[t] = Attachments(task[t])
      BY <1>2, <2>2 DEF PutInterface, LastDetachment, TypeOK
    <3>2. \A q \in puts'[t] : \E p \in task[t].pairs :
            q.interface = p[1] /\ q.content = Given(task[t], p)
      BY <3>1 DEF Attachments, Given
    <3>. QED
      BY <2>1, <3>1, <3>2 DEF InStep, Complete, Given
  <2>3. CASE ~ LastDetachment(t, put)
    <3>1. stage'[t] = stage[t] /\ puts'[t] = puts[t] \ {put}
      BY <1>2, <2>3 DEF PutInterface, TypeOK
    <3>2. stage[t] = "detach" => puts'[t] # {}
      BY <2>3, <3>1 DEF LastDetachment
    <3>. QED
      BY <2>1, <3>1, <3>2 DEF InStep, Complete, Given, Kept
  <2>. QED
    BY <2>2, <2>3
<1>3. ASSUME NEW put \in puts[t], PutFails(t, put) PROVE InStep(t)'
  <2>1. pc[t] = "update" /\ UNCHANGED task /\ Retriable(put) /\ stage'[t] = stage[t]
    BY <1>3, PcStep DEF PutFails, Rejected, Goto, TypeOK, Step
  <2>2. puts'[t] = (puts[t] \ {put}) \cup {[put EXCEPT !.tries = @ - 1]}
    BY <1>3, <2>1 DEF PutFails, TypeOK
  <2>3. put \in Put
    BY DEF TypeOK
  <2>4. /\ [put EXCEPT !.tries = @ - 1].interface = put.interface
        /\ [put EXCEPT !.tries = @ - 1].content = put.content
    BY <2>3 DEF Put
  <2>5. \A q \in puts'[t] : \E r \in puts[t] :
          q.interface = r.interface /\ q.content = r.content
    BY <2>2, <2>4
  <2>6. puts'[t] # {}
    BY <2>2
  <2>. QED
    BY <2>1, <2>5, <2>6 DEF InStep, Complete, Given, Kept
<1>4. ASSUME NEW call \in reroutes[t], PutRoute(t, call) PROVE InStep(t)'
  <2>1. pc[t] = "update" /\ UNCHANGED <<task, stage, puts>>
    BY <1>4 DEF PutRoute, Rejected, Goto, TypeOK
  <2>. QED
    BY <2>1 DEF InStep, Complete, Given, Kept
<1>. QED
  BY <1>1, <1>2, <1>3, <1>4 DEF Step, TakeOver, Succeed, Goto, TypeOK

-----------------------------------------------------------------------------
(* How far a task that is alone has come.                                  *)

\* Pairs share no interface.
LEMMA PairsApart ==
  ASSUME NEW c \in Task, Paired(c), NEW p \in c.pairs, NEW q \in c.pairs
  PROVE  /\ p[1] \in Interfaces /\ p[2] \in Interfaces /\ p[1] # q[2]
         /\ p[1] = q[1] \/ p[2] = q[2] => p = q
<1>1. p \in Interfaces \X Interfaces /\ q \in Interfaces \X Interfaces
  BY DEF Task
<1>2. /\ Device(p[2]) # c.host /\ p[1] = <<c.host, TagOf(p[2])>>
      /\ Device(q[2]) # c.host /\ q[1] = <<c.host, TagOf(q[2])>>
  BY DEF Paired
<1>3. Device(p[1]) = c.host /\ TagOf(p[1]) = TagOf(p[2]) /\ TagOf(q[1]) = TagOf(q[2])
  BY <1>2 DEF Device, TagOf
<1>. QED
  BY <1>1, <1>2, <1>3, InterfaceTyping DEF Paired

LEMMA NextOnItsWay ==
  ASSUME TypeOK, NEW t \in Tasks, Orderly(t), Paired(task[t]), InStep(t), OnItsWay(t),
         Step(t), alone'[t] => alone[t]
  PROVE  OnItsWay(t)'
<1>. SUFFICES ASSUME pc'[t] = "update", alone[t]
              PROVE  (Untouched(t) /\ Written(t) /\ Redirected(t))'
  BY DEF OnItsWay
<1>0. task[t] \in Task
  BY DEF TypeOK
<1>1. CASE Discover(t)
  <2>. DEFINE c == task'[t]
  <2>1. /\ UNCHANGED <<holds, nextHop, stage>> /\ stage[t] = "detach"
        /\ c.host = task[t].host /\ c.seen = holds
        /\ puts'[t] = Detachments(c) /\ reroutes'[t] = Redirections(t)
    BY <1>1, DiscoverStep
  <2>2. Untouched(t)'
    BY <2>1 DEF Untouched
  <2>3. ASSUME NEW p \in c.pairs PROVE Writes(t, p[2])'
    <3>1. [interface |-> p[2], content |-> c.seen[p[2]] \ c.wanted, tries |-> MaxTries]
            \in puts'[t]
      BY <2>1 DEF Detachments
    <3>. QED
      BY <3>1 DEF Writes
  <2>4. Written(t)'
    BY <2>1, <2>3 DEF Written
  <2>5. ASSUME NEW n \in Routes, nextHop[n] # task[t].host
        PROVE  \E call \in reroutes'[t] : call.route = n
    <3>1. [route |-> n, tries |-> MaxTries] \in reroutes'[t]
      BY <2>1, <2>5 DEF Redirections
    <3>. QED
      BY <3>1
  <2>6. Redirected(t)'
    BY <2>1, <2>5 DEF Redirected
  <2>. QED
    BY <2>2, <2>4, <2>6
<1>2. ASSUME NEW put \in puts[t], PutInterface(t, put)
      PROVE  (Untouched(t) /\ Written(t) /\ Redirected(t))'
  <2>. DEFINE c == task[t]
  <2>1. /\ pc[t] = "update" /\ UNCHANGED <<task, nextHop, reroutes>> /\ put \in Put
        /\ holds' = [holds EXCEPT ![put.interface] = put.content]
    BY <1>2 DEF PutInterface, TypeOK
  <2>2. Untouched(t) /\ Written(t) /\ Redirected(t)
    BY <2>1 DEF OnItsWay
  <2>3. put.interface \in Interfaces /\ holds'[put.interface] = put.content
        /\ \A i \in Interfaces \ {put.interface} : holds'[i] = holds[i]
    BY <2>1 DEF TypeOK, Put
  <2>4. Redirected(t)'
    BY <2>1, <2>2 DEF Redirected
  <2>5. stage[t] \in {"detach", "attach"}
    BY <2>1 DEF Orderly, TypeOK
  <2>6. CASE stage[t] = "detach"
    <3>1. PICK p0 \in c.pairs : put.interface = p0[2] /\ put.content = Kept(c, p0)
      BY <2>1, <2>6 DEF InStep
    <3>2. Untouched(t)'
      BY <2>1, <2>2, <2>3, <3>1 DEF Untouched
    <3>3. ASSUME NEW p \in c.pairs
          PROVE  holds'[p[2]] = Kept(c, p) \/ (p # p0 /\ Writes(t, p[2]))
      BY <1>0, <2>2, <2>3, <3>1, PairsApart DEF Written
    <3>4. CASE LastDetachment(t, put)
      <4>1. stage'[t] = "attach" /\ puts'[t] = Attachments(c) /\ puts[t] = {put}
        BY <1>2, <3>4 DEF PutInterface, LastDetachment, TypeOK
      <4>2. ASSUME NEW p \in c.pairs PROVE holds'[p[2]] = Kept(c, p)
        BY <1>0, <3>1, <3>3, <4>1, PairsApart DEF Writes
      <4>3. ASSUME NEW p \in c.pairs PROVE Writes(t, p[1])'
        <5>1. [interface |-> p[1], content |-> c.seen[p[1]] \cup (c.seen[p[2]] \cap c.wanted),
               tries |-> MaxTries] \in puts'[t]
          BY <4>1 DEF Attachments
        <5>. QED
          BY <5>1 DEF Writes
      <4>. QED
        BY <2>1, <2>4, <3>2, <4>1, <4>2, <4>3 DEF Written, Kept
    <3>5. CASE ~ LastDetachment(t, put)
      <4>1. stage'[t] = "detach" /\ puts'[t] = puts[t] \ {put}
        BY <1>2, <2>6, <3>5 DEF PutInterface, TypeOK
      <4>2. ASSUME NEW p \in c.pairs, p # p0, Writes(t, p[2]) PROVE Writes(t, p[2])'
        BY <1>0, <3>1, <4>1, <4>2, PairsApart DEF Writes
      <4>. QED
        BY <2>1, <2>4, <3>2, <3>3, <4>1, <4>2 DEF Written, Kept
    <3>. QED
      BY <3>4, <3>5
  <2>7. CASE stage[t] = "attach"
    <3>1. PICK p0 \in c.pairs : put.interface = p0[1] /\ put.content = Given(c, p0)
      BY <2>1, <2>7 DEF InStep
    <3>2. Untouched(t)'
      BY <2>1, <2>2, <2>3, <3>1 DEF Untouched
    <3>3. stage'[t] = "attach" /\ puts'[t] = puts[t] \ {put}
      BY <1>2, <2>7 DEF PutInterface, LastDetachment, TypeOK
    <3>4. ASSUME NEW p \in c.pairs PROVE holds'[p[2]] = Kept(c, p)
      BY <1>0, <2>2, <2>3, <2>7, <3>1, PairsApart DEF Written
    <3>5. ASSUME NEW p \in c.pairs
          PROVE  holds'[p[1]] = Given(c, p) \/ Writes(t, p[1])'
      <4>1. CASE p = p0
        BY <2>3, <3>1, <4>1
      <4>2. CASE p # p0
        BY <1>0, <2>2, <2>3, <2>7, <3>1, <3>3, <4>2, PairsApart DEF Written, Writes
      <4>. QED
        BY <4>1, <4>2
    <3>. QED
      BY <2>1, <2>4, <3>2, <3>3, <3>4, <3>5 DEF Written, Kept, Given
  <2>. QED
    BY <2>5, <2>6, <2>7
<1>3. ASSUME NEW put \in puts[t], PutFails(t, put)
      PROVE  (Untouched(t) /\ Written(t) /\ Redirected(t))'
  <2>. DEFINE c == task[t]
  <2>1. /\ pc[t] = "update" /\ UNCHANGED <<task, nextHop, reroutes>> /\ put \in Put
        /\ Retriable(put) /\ stage'[t] = stage[t]
    BY <1>3, PcStep DEF PutFails, Rejected, Goto, TypeOK, Step
  <2>2. Untouched(t) /\ Written(t) /\ Redirected(t)
    BY <2>1 DEF OnItsWay
  <2>3. put.interface \in Interfaces
        /\ \A i \in Interfaces \ {put.interface} : holds'[i] = holds[i]
    BY <1>3, <2>1 DEF PutFails, TypeOK, Put
  <2>4. Redirected(t)'
    BY <2>1, <2>2 DEF Redirected
  <2>5. stage[t] \in {"detach", "attach"}
    BY <2>1 DEF Orderly, TypeOK
  <2>6. puts'[t] = (puts[t] \ {put}) \cup {[put EXCEPT !.tries = @ - 1]}
    BY <1>3, <2>1 DEF PutFails, TypeOK
  <2>7. [put EXCEPT !.tries = @ - 1].interface = put.interface
    BY <2>1 DEF Put
  <2>8. \A i : Writes(t, i) => Writes(t, i)'
    BY <2>6, <2>7 DEF Writes
  <2>9. Writes(t, put.interface)'
    BY <2>6, <2>7 DEF Writes
  <2>10. PICK p0 \in c.pairs :
           put.interface = IF stage[t] = "detach" THEN p0[2] ELSE p0[1]
    BY <2>1, <2>5 DEF InStep
  <2>11. Untouched(t)'
    BY <2>1, <2>2, <2>3, <2>10 DEF Untouched
  <2>12. ASSUME NEW p \in c.pairs
         PROVE  holds'[p[2]] = Kept(c, p) \/ (stage[t] = "detach" /\ Writes(t, p[2])')
    BY <1>0, <2>2, <2>3, <2>8, <2>9, <2>10, PairsApart DEF Written
  <2>13. ASSUME NEW p \in c.pairs, stage[t] = "attach"
         PROVE  holds'[p[1]] = Given(c, p) \/ Writes(t, p[1])'
    BY <1>0, <2>2, <2>3, <2>8, <2>9, <2>13, PairsApart DEF Written
  <2>. QED
    BY <2>1, <2>4, <2>11, <2>12, <2>13 DEF Written, Kept, Given
<1>4. ASSUME NEW call \in reroutes[t], PutRoute(t, call)
      PROVE  (Untouched(t) /\ Written(t) /\ Redirected(t))'
  <2>1. pc[t] = "update" /\ UNCHANGED <<holds, task, stage, puts>> /\ call \in Reroute
    BY <1>4 DEF PutRoute, Rejected, Goto, TypeOK
  <2>2. Untouched(t) /\ Written(t) /\ Redirected(t)
    BY <2>1 DEF OnItsWay
  <2>3. (Untouched(t) /\ Written(t))'
    BY <2>1, <2>2 DEF Untouched, Written, Kept, Given, Writes
  <2>4. CASE /\ nextHop' = [nextHop EXCEPT ![call.route] = task[t].host]
             /\ reroutes' = [reroutes EXCEPT ![t] = @ \ {call}]
    <3>1. nextHop'[call.route] = task[t].host /\ reroutes'[t] = reroutes[t] \ {call}
          /\ \A n \in Routes \ {call.route} : nextHop'[n] = nextHop[n]
      BY <2>1, <2>4 DEF TypeOK, Reroute
    <3>. QED
      BY <2>1, <2>2, <2>3, <3>1 DEF Redirected
  <2>5. CASE /\ reroutes' = [reroutes EXCEPT ![t] =
                               (@ \ {call}) \cup {[call EXCEPT !.tries = @ - 1]}]
             /\ UNCHANGED nextHop
    <3>1. [call EXCEPT !.tries = @ - 1].route = call.route
      BY <2>1 DEF Reroute
    <3>2. \A q \in reroutes[t] : \E r \in reroutes'[t] : r.route = q.route
      BY <2>5, <3>1 DEF TypeOK
    <3>. QED
      BY <2>1, <2>2, <2>3, <2>5, <3>2 DEF Redirected
  <2>6. ~ Rejected(t)
    BY <2>1 DEF Rejected, Goto, TypeOK
  <2>. QED
    BY <1>4, <2>4, <2>5, <2>6 DEF PutRoute
<1>. QED
  BY <1>1, <1>2, <1>3, <1>4 DEF Step, TakeOver, Succeed, Goto, TypeOK

\* What a task that is alone has done when all its calls have come back.
LEMMA Delivered ==
  ASSUME TypeOK, NEW t \in Tasks, Orderly(t), Paired(task[t]), InStep(t), OnItsWay(t),
         pc[t] = "update", UpdatesDone(t), alone[t]
  PROVE  /\ Untouched(t)
         /\ \A p \in task[t].pairs :
              holds[p[2]] = Kept(task[t], p) /\ holds[p[1]] = Given(task[t], p)
         /\ \A n \in Routes : nextHop[n] = task[t].host
<1>1. Untouched(t) /\ Written(t) /\ Redirected(t) /\ puts[t] = {} /\ reroutes[t] = {}
  BY DEF OnItsWay, UpdatesDone
<1>2. stage[t] = "detach" => task[t].pairs = {}
  BY <1>1 DEF InStep
<1>3. stage[t] \in {"detach", "attach"}
  BY DEF UpdatesDone, TypeOK
<1>. QED
  BY <1>1, <1>2, <1>3 DEF Written, Writes, Redirected

\* Nothing it has seen has gone.
LEMMA NothingDropped ==
  ASSUME TypeOK, NEW t \in Tasks, Paired(task[t]), Untouched(t),
         \A p \in task[t].pairs :
           holds[p[2]] = Kept(task[t], p) /\ holds[p[1]] = Given(task[t], p),
         NEW i \in Interfaces, NEW a \in task[t].seen[i]
  PROVE  \E j \in Interfaces : a \in holds[j]
<1>0. task[t] \in Task
  BY DEF TypeOK
<1>1. CASE \A p \in task[t].pairs : i \notin {p[1], p[2]}
  BY <1>1 DEF Untouched
<1>2. ASSUME NEW p \in task[t].pairs, i = p[1] PROVE \E j \in Interfaces : a \in holds[j]
  BY <1>2 DEF Given
<1>3. ASSUME NEW p \in task[t].pairs, i = p[2] PROVE \E j \in Interfaces : a \in holds[j]
  <2>1. p[1] \in Interfaces /\ a \in Kept(task[t], p) \cup Given(task[t], p)
    BY <1>0, <1>3, PairsApart DEF Kept, Given
  <2>. QED
    BY <1>3, <2>1
<1>. QED
  BY <1>1, <1>2, <1>3

-----------------------------------------------------------------------------
(* No address is lost by tasks that are not in trouble.                    *)

\* A task becomes clean only by succeeding.
LEMMA CleanBefore ==
  ASSUME TypeOK, NEW t \in Tasks, Orderly(t), Step(t), alone'[t] => alone[t], Clean(t)'
  PROVE  Clean(t) \/ pc[t] = "update"
<1>1. CASE Succeed(t) \/ pc[t] = "update"
  BY <1>1 DEF Succeed
<1>2. ASSUME NEW d \in Devices, NEW gained \in SUBSET Addresses, TakeOver(t, d, gained)
      PROVE  Clean(t)
  BY <1>2 DEF TakeOver, Orderly, Clean
<1>3. CASE Discover(t)
  BY <1>3 DEF Discover, Orderly, Clean
<1>4. CASE /\ \/ \E put \in puts[t] : PutInterface(t, put) \/ PutFails(t, put)
              \/ \E call \in reroutes[t] : PutRoute(t, call)
           /\ pc[t] # "update"
  <2>1. UNCHANGED task
    BY <1>4 DEF PutInterface, PutFails, PutRoute
  <2>2. pc'[t] = pc[t]
    BY <1>4 DEF PutInterface, PutFails, PutRoute, Rejected, Goto, TypeOK
  <2>. QED
    BY <2>1, <2>2 DEF Clean
<1>. QED
  BY <1>1, <1>2, <1>3, <1>4 DEF Step

LEMMA SameClean ==
  ASSUME NEW u \in Tasks, Same(u), alone'[u] => alone[u]
  PROVE  Clean(u)' => Clean(u)
BY DEF Same, Clean

LEMMA NextSawAll ==
  ASSUME IInv, NEW t \in Tasks, Step(t), \A u \in Tasks : alone'[u] => alone[u],
         NEW v \in Tasks
  PROVE  SawAll(v)'
<1>. SUFFICES ASSUME pc'[v] = "update", alone[v], \A u \in Tasks \ {v} : Clean(u)'
              PROVE  \A a \in Addresses : \E i \in Interfaces : a \in task'[v].seen[i]
  BY DEF SawAll
<1>1. \A u \in Tasks \ {t} : Same(u)
  BY OthersSame DEF IInv
<1>2. CASE v = t
  <2>1. \A u \in Tasks \ {v} : Clean(u)
    BY <1>1, <1>2, SameClean
  <2>2. CASE Discover(t)
    <3>1. task[t].pairs = {} /\ task'[t].seen = holds
      BY <1>2, <2>2, DiscoverStep DEF IInv
    <3>2. \A u \in Tasks : Clean(u)
      BY <1>2, <2>1, <3>1 DEF Clean
    <3>. QED
      BY <1>2, <3>1, <3>2 DEF IInv, LostOnlyInTrouble, Clean
  <2>3. CASE ~ Discover(t)
    <3>1. pc[v] = "update" /\ task'[v] = task[v]
      BY <1>2, <2>3 DEF Step, TakeOver, PutInterface, PutFails, PutRoute, Succeed, Rejected,
                        Goto, IInv, TypeOK
    <3>. QED
      BY <2>1, <3>1 DEF IInv, SawAll
  <2>. QED
    BY <2>2, <2>3
<1>3. CASE v # t
  <2>1. pc[v] = "update" /\ task'[v] = task[v]
    BY <1>1, <1>3 DEF Same
  <2>2. pc[t] # "update"
    BY <1>3, <2>1 DEF IInv, OneBusy, Busy, Open
  <2>3. \A u \in Tasks \ {v} : Clean(u)
    BY <1>1, <1>3, <2>2, CleanBefore, SameClean DEF IInv
  <2>. QED
    BY <2>1, <2>3 DEF IInv, SawAll
<1>. QED
  BY <1>2, <1>3

LEMMA NextLostOnlyInTrouble ==
  ASSUME IInv, NEW t \in Tasks, Step(t), \A u \in Tasks : alone'[u] => alone[u]
  PROVE  LostOnlyInTrouble'
<1>. SUFFICES ASSUME \A u \in Tasks : Clean(u)', NEW a \in Addresses
              PROVE  \E i \in Interfaces : a \in holds'[i]
  BY DEF LostOnlyInTrouble, Clean
<1>1. \A u \in Tasks \ {t} : Clean(u)
  BY OthersSame, SameClean DEF IInv
<1>2. CASE Clean(t)
  <2>1. puts[t] = {}
    BY <1>2 DEF Clean, IInv, Orderly
  <2>2. UNCHANGED holds
    BY <2>1, CloudKept
  <2>3. \A u \in Tasks : Clean(u)
    BY <1>1, <1>2
  <2>. QED
    BY <2>2, <2>3 DEF IInv, LostOnlyInTrouble, Clean
<1>3. CASE ~ Clean(t)
  <2>1. pc[t] = "update" /\ task[t].pairs # {}
    BY <1>3, CleanBefore DEF IInv, Clean
  <2>2. Succeed(t) /\ alone[t]
    <3>1. ASSUME ~ Succeed(t) PROVE FALSE
      <4>1. UNCHANGED task
        BY <2>1, <3>1 DEF Step, TakeOver, Discover, PutInterface, PutFails, PutRoute
      <4>2. pc'[t] # "succeeded"
        BY <2>1, <3>1 DEF Step, TakeOver, Discover, PutInterface, PutFails, PutRoute,
                          Rejected, Goto, IInv, TypeOK
      <4>. QED
        BY <2>1, <4>1, <4>2 DEF Clean
    <3>2. UNCHANGED task
      BY <3>1 DEF Succeed
    <3>. QED
      BY <2>1, <3>1, <3>2 DEF Clean
  <2>3. UNCHANGED holds /\ UpdatesDone(t)
    BY <2>2 DEF Succeed
  <2>4. PICK i \in Interfaces : a \in task[t].seen[i]
    BY <1>1, <2>1, <2>2 DEF IInv, SawAll
  <2>. QED
    BY <2>1, <2>2, <2>3, <2>4, Delivered, NothingDropped DEF IInv
<1>. QED
  BY <1>2, <1>3

-----------------------------------------------------------------------------
(* The invariant is inductive.                                             *)

LEMMA InitIInv == MCInit => IInv
<1>. SUFFICES ASSUME MCInit PROVE IInv
  OBVIOUS
<1>1. TypeOK /\ alone \in [Tasks -> BOOLEAN]
  BY InitTypeOK DEF MCInit
<1>2. \A t \in Tasks : ~ Busy(t)
  BY DEF MCInit, Init, Busy, Open
<1>3. \A t \in Tasks : task[t] = Idle /\ pc[t] = "idle" /\ stage[t] = "detach"
                       /\ puts[t] = {} /\ reroutes[t] = {}
  BY DEF MCInit, Init
<1>4. \A t \in Tasks :
        Orderly(t) /\ Paired(task[t]) /\ InStep(t) /\ OnItsWay(t) /\ SawAll(t)
  BY <1>3 DEF Idle, Orderly, Paired, InStep, OnItsWay, SawAll
<1>5. \A a \in Addresses : \E i \in Interfaces : a \in holds[i]
  <2>1. PICK tag \in [Addresses -> Tags] :
          holds = [i \in Interfaces |->
                     {a \in Addresses : active[a] = Device(i) /\ tag[a] = TagOf(i)}]
    BY DEF MCInit, Init
  <2>2. ASSUME NEW a \in Addresses PROVE a \in holds[<<active[a], tag[a]>>]
    BY <1>1, <2>1, InterfaceTyping DEF TypeOK
  <2>. QED
    BY <1>1, <2>2, InterfaceTyping DEF TypeOK
<1>. QED
  BY <1>1, <1>2, <1>4, <1>5 DEF IInv, OneBusy, LostOnlyInTrouble

\* What a task knows of itself holds as long as nothing of it changes, and
\* nobody else is under way if it is alone.
LEMMA SameInvariant ==
  ASSUME NEW u \in Tasks, Same(u), alone'[u] => alone[u],
         Orderly(u), Paired(task[u]), InStep(u), OnItsWay(u),
         pc[u] = "update" /\ alone[u] => UNCHANGED <<holds, nextHop>>
  PROVE  (Orderly(u) /\ Paired(task[u]) /\ InStep(u) /\ OnItsWay(u))'
<1>1. Orderly(u)' /\ Paired(task[u])'
  BY DEF Same, Orderly, Paired
<1>2. InStep(u)'
  BY DEF Same, InStep, Complete, Kept, Given
<1>3. OnItsWay(u)'
  BY DEF Same, OnItsWay, Untouched, Written, Redirected, Kept, Given, Writes
<1>. QED
  BY <1>1, <1>2, <1>3

LEMMA NextIInv == IInv /\ [MCNext]_<<vars, alone>> => IInv'
<1>. SUFFICES ASSUME IInv, [MCNext]_<<vars, alone>> PROVE IInv'
  OBVIOUS
<1>1. /\ alone' \in [Tasks -> BOOLEAN] /\ OneBusy'
      /\ \A t \in Tasks : alone'[t] => alone[t]
  BY AloneStep DEF IInv
<1>2. [Next]_vars
  BY DEF MCNext
<1>3. TypeOK'
  BY <1>2, NextTypeOK DEF IInv
<1>4. ASSUME NEW t \in Tasks, Step(t) PROVE IInv'
  <2>1. ASSUME NEW u \in Tasks \ {t}
        PROVE  (Orderly(u) /\ Paired(task[u]) /\ InStep(u) /\ OnItsWay(u))'
    <3>1. pc[u] = "update" /\ alone[u] => puts[t] = {} /\ reroutes[t] = {}
      BY DEF IInv, OneBusy, Busy, Open
    <3>. QED
      BY <1>1, <1>4, <3>1, OthersSame, CloudKept, SameInvariant DEF IInv
  <2>2. (Orderly(t) /\ Paired(task[t]) /\ InStep(t) /\ OnItsWay(t))'
    BY <1>1, <1>4, NextOrderly, NextPaired, NextInStep, NextOnItsWay DEF IInv
  <2>3. \A u \in Tasks : SawAll(u)'
    BY <1>1, <1>4, NextSawAll
  <2>4. LostOnlyInTrouble'
    BY <1>1, <1>4, NextLostOnlyInTrouble
  <2>. QED
    BY <1>1, <1>3, <2>1, <2>2, <2>3, <2>4 DEF IInv
<1>5. ASSUME NEW d \in Devices, Restart(d) PROVE IInv'
  <2>1. ASSUME NEW t \in Tasks PROVE Clean(t)' => Clean(t)
    BY <1>1, <1>5, RestartStep DEF IInv, Same, Clean
  <2>2. LostOnlyInTrouble'
    BY <1>5, <2>1, RestartStep DEF IInv, LostOnlyInTrouble, Clean, Restart
  <2>3. ASSUME NEW t \in Tasks
        PROVE  (Orderly(t) /\ Paired(task[t]) /\ InStep(t) /\ OnItsWay(t) /\ SawAll(t))'
    <3>1. CASE Same(t)
      <4>1. (Orderly(t) /\ Paired(task[t]) /\ InStep(t) /\ OnItsWay(t))'
        BY <1>1, <1>5, <3>1, RestartStep, SameInvariant DEF IInv
      <4>2. SawAll(t)'
        BY <1>1, <2>1, <3>1 DEF IInv, Same, SawAll
      <4>. QED
        BY <4>1, <4>2
    <3>2. CASE /\ Busy(t) /\ task[t].host = d /\ pc'[t] = "lost" /\ stage'[t] = "broken"
               /\ puts'[t] # {} => puts[t] # {}
      <4>1. task'[t] = task[t]
        BY <1>5, RestartStep DEF IInv
      <4>2. Orderly(t)'
        BY <1>5, <3>2, <4>1 DEF IInv, Orderly
      <4>3. Paired(task[t])'
        BY <4>1 DEF IInv, Paired
      <4>. QED
        BY <3>2, <4>2, <4>3 DEF InStep, OnItsWay, SawAll
    <3>. QED
      BY <1>5, <3>1, <3>2, RestartStep DEF IInv
  <2>. QED
    BY <1>1, <1>3, <2>2, <2>3 DEF IInv
<1>6. CASE UNCHANGED vars
  <2>1. \A t \in Tasks : Same(t)
    BY <1>6 DEF vars, calls, Same
  <2>2. UNCHANGED <<holds, nextHop>>
    BY <1>6 DEF vars
  <2>3. \A t \in Tasks : Clean(t)' => Clean(t)
    BY <1>1, <2>1, SameClean
  <2>4. LostOnlyInTrouble'
    BY <2>2, <2>3 DEF IInv, LostOnlyInTrouble, Clean
  <2>5. \A t \in Tasks : SawAll(t)'
    BY <1>1, <2>1, <2>3 DEF IInv, Same, SawAll
  <2>6. \A t \in Tasks : (Orderly(t) /\ Paired(task[t]) /\ InStep(t) /\ OnItsWay(t))'
    BY <1>1, <2>1, <2>2, SameInvariant DEF IInv
  <2>. QED
    BY <1>1, <1>3, <2>4, <2>5, <2>6 DEF IInv
<1>. QED
  BY <1>2, <1>4, <1>5, <1>6 DEF Next, Done, Step

-----------------------------------------------------------------------------
(* Theorems.                                                               *)

\* The inductive invariant is one.
THEOREM Invariance == MCSpec => []IInv
BY InitIInv, NextIInv, PTL DEF MCSpec

\* The variables keep their form.
THEOREM TypeCorrect == MCSpec => []TypeOK
<1>1. IInv => TypeOK
  BY DEF IInv
<1>. QED
  BY <1>1, Invariance, PTL

\* An address that no interface holds any more was lost by a task that had
\* written interfaces and has not succeeded, or has overlapped another one,
\* however many devices, interfaces and tasks there are (_updateAddresses).
THEOREM NoQuietLoss == MCSpec => []LostOnlyInTrouble
<1>1. IInv => LostOnlyInTrouble
  BY DEF IInv
<1>. QED
  BY <1>1, Invariance, PTL

-----------------------------------------------------------------------------
(* Pairs of devices.  The user guide asks for two BIG-IP systems           *)
(* (docs/userguide/azure.rst); with more, a task takes what it wants from  *)
(* one of the peers that have an interface of the same tag.                *)

AtMostTwoDevices == \A c, d, e \in Devices : c = d \/ c = e \/ d = e

\* A task that has written all its pairs has given every interface what is
\* expected there.
LEMMA ExpectedReached ==
  ASSUME AtMostTwoDevices, TypeOK, NEW t \in Tasks, task[t].host \in Devices,
         Paired(task[t]), Complete(task[t]), Untouched(t),
         \A p \in task[t].pairs :
           holds[p[2]] = Kept(task[t], p) /\ holds[p[1]] = Given(task[t], p)
  PROVE  holds = Expected(task[t])
<1>. DEFINE c == task[t]
            Same2(i) == UNION {c.seen[j] \cap c.wanted :
                                 j \in {k \in Interfaces : TagOf(k) = TagOf(i)}}
<1>0. c \in Task /\ c.seen \in [Interfaces -> SUBSET Addresses]
      /\ c.pairs \subseteq Interfaces \X Interfaces
  BY DEF TypeOK, Task
<1>1. \A i, j \in Interfaces : Device(i) = Device(j) /\ TagOf(i) = TagOf(j) => i = j
  BY InterfaceTyping
<1>2. \A i, j \in Interfaces : Device(i) # c.host /\ Device(j) # c.host => Device(i) = Device(j)
  BY InterfaceTyping DEF AtMostTwoDevices
<1>3. \A p \in c.pairs : /\ p[1] \in Interfaces /\ p[2] \in Interfaces
                         /\ Device(p[2]) # c.host /\ Device(p[1]) = c.host
                         /\ TagOf(p[1]) = TagOf(p[2])
  BY <1>0, PairsApart, InterfaceTyping DEF Paired
<1>4. ASSUME NEW i \in Interfaces, Device(i) = c.host
      PROVE  holds[i] = c.seen[i] \cup Same2(i)
  <2>1. ASSUME NEW p \in c.pairs, p[1] = i PROVE holds[i] = c.seen[i] \cup Same2(i)
    <3>1. \A j \in Interfaces : TagOf(j) = TagOf(i) => j = i \/ j = p[2]
      BY <1>1, <1>2, <1>3, <1>4, <2>1
    <3>2. TagOf(p[2]) = TagOf(i) /\ p[2] \in Interfaces
      BY <1>3, <2>1
    <3>3. holds[i] = c.seen[i] \cup (c.seen[p[2]] \cap c.wanted)
      BY <2>1 DEF Given
    <3>4. c.seen[i] \cup Same2(i) = c.seen[i] \cup (c.seen[p[2]] \cap c.wanted)
      BY <3>1, <3>2
    <3>. QED
      BY <3>3, <3>4
  <2>2. CASE \A p \in c.pairs : p[1] # i
    <3>1. \A p \in c.pairs : TagOf(p[2]) # TagOf(i) /\ p[2] # i
      BY <1>1, <1>3, <1>4, <2>2
    <3>2. holds[i] = c.seen[i]
      BY <2>2, <3>1 DEF Untouched
    <3>3. \A j \in Interfaces : TagOf(j) = TagOf(i) =>
                                  j = i \/ c.seen[j] \cap c.wanted = {}
      BY <1>1, <1>4, <3>1 DEF Complete
    <3>4. Same2(i) \subseteq c.seen[i]
      BY <3>3
    <3>. QED
      BY <3>2, <3>4
  <2>. QED
    BY <2>1, <2>2
<1>5. ASSUME NEW i \in Interfaces, Device(i) # c.host
      PROVE  holds[i] = c.seen[i] \ c.wanted
  <2>1. CASE \E p \in c.pairs : p[2] = i
    BY <2>1 DEF Kept
  <2>2. CASE \A p \in c.pairs : p[2] # i
    <3>1. c.seen[i] \cap c.wanted = {}
      BY <1>1, <1>2, <1>3, <1>5, <2>2 DEF Complete
    <3>2. holds[i] = c.seen[i]
      BY <1>3, <1>5, <2>2 DEF Untouched
    <3>. QED
      BY <3>1, <3>2
  <2>. QED
    BY <2>1, <2>2
<1>6. holds \in [Interfaces -> SUBSET Addresses]
  BY DEF TypeOK
<1>7. \A i \in Interfaces :
        holds[i] = IF Device(i) = c.host THEN c.seen[i] \cup Same2(i) ELSE c.seen[i] \ c.wanted
  BY <1>4, <1>5
<1>. QED
  BY <1>6, <1>7 DEF Expected

\* A success is a step of its task, from updates that have all resolved.
LEMMA SuccessStep ==
  ASSUME IInv, NEW t \in Tasks, [MCNext]_<<vars, alone>>,
         pc[t] = "update", pc'[t] = "succeeded"
  PROVE  Succeed(t)
<1>1. ASSUME NEW u \in Tasks, Step(u) PROVE u = t /\ Succeed(t)
  <2>1. u = t
    BY <1>1, OthersSame DEF IInv, Same
  <2>. QED
    BY <1>1, <2>1 DEF Step, TakeOver, Discover, PutInterface, PutFails, PutRoute, Rejected,
                      Goto, IInv, TypeOK
<1>2. ASSUME NEW d \in Devices, Restart(d) PROVE FALSE
  BY <1>2, RestartStep DEF IInv, Same
<1>3. ~ UNCHANGED vars
  BY DEF vars
<1>. QED
  BY <1>1, <1>2, <1>3 DEF MCNext, Next, Done, Step

\* For pairs of devices: a task that succeeds by itself has moved what it
\* wants to the interfaces of the same tag, nothing else, and every route to
\* its device, whatever was rejected and retried or was cut off before it
\* (_discoverAddressOperations, _updateAddresses, _updateRoutes).
THEOREM Delivery ==
  ASSUME AtMostTwoDevices
  PROVE  MCSpec => SuccessDelivers
<1>1. ASSUME IInv, [MCNext]_<<vars, alone>>, NEW t \in Tasks,
             pc[t] = "update", pc'[t] = "succeeded", alone[t]
      PROVE  holds = Expected(task[t]) /\ \A n \in Routes : nextHop[n] = task[t].host
  <2>1. Succeed(t)
    BY <1>1, SuccessStep
  <2>2. /\ TypeOK /\ Orderly(t) /\ Paired(task[t]) /\ InStep(t) /\ OnItsWay(t)
        /\ UpdatesDone(t)
    BY <1>1, <2>1 DEF IInv, Succeed
  <2>3. /\ Untouched(t)
        /\ \A p \in task[t].pairs :
             holds[p[2]] = Kept(task[t], p) /\ holds[p[1]] = Given(task[t], p)
        /\ \A n \in Routes : nextHop[n] = task[t].host
    BY <1>1, <2>2, Delivered
  <2>4. task[t].host \in Devices /\ Complete(task[t])
    BY <1>1, <2>2 DEF Orderly, InStep
  <2>. QED
    BY <2>2, <2>3, <2>4, ExpectedReached
<1>2. IInv /\ [MCNext]_<<vars, alone>> =>
        [\A t \in Tasks : pc[t] = "update" /\ pc'[t] = "succeeded" /\ alone[t] =>
           /\ holds = Expected(task[t])
           /\ \A n \in Routes : nextHop[n] = task[t].host]_<<vars, alone>>
  BY <1>1
<1>. QED
  BY <1>2, Invariance, PTL DEF MCSpec, SuccessDelivers

\* While one failover is under way, and all before it succeeded without
\* overlapping, each address is where it was: with the device its traffic
\* group is active on, or on its way to it.
InPlace(c, at) ==
  \A a \in Addresses :
    /\ a \in c.wanted <=> active[a] = c.host
    /\ \E i \in Interfaces : a \in at[i] /\ (a \in c.wanted \/ Device(i) = active[a])

Following(t) ==
  alone[t] /\ (\A u \in Tasks \ {t} : Fine(u)) =>
    /\ pc[t] = "discover" => InPlace(task[t], holds)
    /\ pc[t] = "update" => InPlace(task[t], task[t].seen)

FInv == AddressesFollowActive /\ \A t \in Tasks : Following(t)

\* A task that is not under way can only start.
LEMMA Starts ==
  ASSUME IInv, NEW t \in Tasks, Step(t), ~ Busy(t)
  PROVE  \E d \in Devices, gained \in SUBSET Addresses : TakeOver(t, d, gained)
BY DEF Step, Busy, Open, Discover, Succeed

LEMMA Started ==
  ASSUME IInv, NEW t \in Tasks, NEW d \in Devices, NEW gained \in SUBSET Addresses,
         TakeOver(t, d, gained), AddressesFollowActive, \A u \in Tasks : Fine(u)
  PROVE  pc'[t] = "discover" /\ InPlace(task[t], holds)'
<1>1. /\ pc'[t] = "discover" /\ UNCHANGED holds
      /\ active' = [a \in Addresses |-> IF a \in gained THEN d ELSE active[a]]
  BY DEF TakeOver, Goto, IInv, TypeOK
<1>2. task'[t].host = d /\ task'[t].wanted = {a \in Addresses : active'[a] = d}
  BY TakeOverTypeOK DEF IInv
<1>3. \A a \in Addresses : \E i \in Interfaces : a \in holds[i] /\ Device(i) = active[a]
  BY DEF AddressesFollowActive, Fine
<1>4. ASSUME NEW a \in Addresses
      PROVE  /\ a \in task'[t].wanted <=> active'[a] = task'[t].host
             /\ a \in task'[t].wanted \/ active'[a] = active[a]
  BY <1>1, <1>2
<1>. QED
  BY <1>1, <1>3, <1>4 DEF InPlace

\* The end of a failover that nothing has overlapped.
LEMMA Arrived ==
  ASSUME AtMostTwoDevices, IInv, NEW t \in Tasks, Succeed(t), alone[t],
         InPlace(task[t], task[t].seen), NEW a \in Addresses
  PROVE  \E i \in Interfaces : a \in holds[i] /\ Device(i) = active[a]
<1>. DEFINE c == task[t]
<1>1. /\ TypeOK /\ Orderly(t) /\ Paired(c) /\ InStep(t) /\ OnItsWay(t)
      /\ UpdatesDone(t) /\ pc[t] = "update"
  BY DEF IInv, Succeed
<1>2. c.host \in Devices /\ Complete(c)
  BY <1>1 DEF Orderly, InStep
<1>3. holds = Expected(c)
  BY <1>1, <1>2, Delivered, ExpectedReached
<1>4. PICK i \in Interfaces : a \in c.seen[i] /\ (a \in c.wanted \/ Device(i) = active[a])
  BY DEF InPlace
<1>5. a \in c.wanted <=> active[a] = c.host
  BY DEF InPlace
<1>6. CASE a \notin c.wanted
  <2>1. a \in Expected(c)[i]
    BY <1>4, <1>6 DEF Expected
  <2>. QED
    BY <1>3, <1>4, <1>6, <2>1
<1>7. CASE a \in c.wanted
  <2>. DEFINE j == <<c.host, TagOf(i)>>
  <2>1. j \in Interfaces /\ Device(j) = c.host /\ TagOf(j) = TagOf(i)
    BY <1>2, InterfaceTyping
  <2>2. a \in UNION {c.seen[k] \cap c.wanted : k \in {m \in Interfaces : TagOf(m) = TagOf(j)}}
    BY <1>4, <1>7, <2>1
  <2>3. a \in Expected(c)[j]
    BY <2>1, <2>2 DEF Expected
  <2>. QED
    BY <1>3, <1>5, <1>7, <2>1, <2>3
<1>. QED
  BY <1>6, <1>7

LEMMA NextFInv ==
  ASSUME AtMostTwoDevices, IInv, FInv, [MCNext]_<<vars, alone>>
  PROVE  FInv'
<1>1. \A t \in Tasks : alone'[t] => alone[t]
  BY AloneStep DEF IInv
<1>2. ASSUME NEW t \in Tasks, Step(t) PROVE FInv'
  <2>1. \A u \in Tasks \ {t} : Same(u) /\ (Fine(u)' => Fine(u))
    BY <1>1, <1>2, OthersSame DEF IInv, Same, Fine
  <2>2. ASSUME \A u \in Tasks : Fine(u)', NEW a \in Addresses
        PROVE  \E i \in Interfaces : a \in holds'[i] /\ Device(i) = active'[a]
    <3>1. Busy(t)
      <4>1. ASSUME NEW d \in Devices, NEW gained \in SUBSET Addresses, TakeOver(t, d, gained)
            PROVE  FALSE
        BY <2>2, <4>1 DEF TakeOver, Goto, Fine, IInv, TypeOK
      <4>. QED
        BY <1>2, <4>1, Starts
    <3>2. pc[t] = "update" /\ pc'[t] = "succeeded" /\ alone[t]
      BY <1>1, <1>2, <2>2, <3>1, PcStep DEF Fine, IInv, Orderly, Busy, Open
    <3>3. Succeed(t)
      BY <3>2, SuccessStep
    <3>4. InPlace(task[t], task[t].seen)
      BY <2>1, <2>2, <3>2 DEF FInv, Following
    <3>5. UNCHANGED <<holds, active>>
      BY <3>3 DEF Succeed
    <3>. QED
      BY <3>2, <3>3, <3>4, <3>5, Arrived
  <2>3. ASSUME NEW v \in Tasks, alone'[v], \A u \in Tasks \ {v} : Fine(u)'
        PROVE  /\ pc'[v] = "discover" => InPlace(task[v], holds)'
               /\ pc'[v] = "update" => InPlace(task[v], task[v].seen)'
    <3>1. CASE v # t /\ pc'[v] \in {"discover", "update"}
      <4>1. Busy(v) /\ alone[v]
        BY <1>1, <2>1, <2>3, <3>1 DEF Same, Busy, Open
      <4>2. ~ Busy(t)
        BY <3>1, <4>1 DEF IInv, OneBusy
      <4>3. PICK e \in Devices, gained \in SUBSET Addresses : TakeOver(t, e, gained)
        BY <1>2, <4>2, Starts
      <4>4. pc'[t] = "discover"
        BY <4>3 DEF TakeOver, Goto, IInv, TypeOK
      <4>. QED
        BY <2>3, <3>1, <4>4 DEF Fine
    <3>2. CASE v = t
      <4>1. alone[t] /\ \A u \in Tasks \ {t} : Fine(u)
        BY <1>1, <2>1, <2>3, <3>2
      <4>2. ASSUME NEW d \in Devices, NEW gained \in SUBSET Addresses, TakeOver(t, d, gained)
            PROVE  pc'[t] = "discover" /\ InPlace(task[t], holds)'
        <5>1. \A u \in Tasks : Fine(u)
          BY <4>1, <4>2 DEF Fine, TakeOver
        <5>. QED
          BY <4>2, <5>1, Started DEF FInv
      <4>3. CASE Discover(t)
        <5>1. pc[t] = "discover" /\ UNCHANGED active /\ pc'[t] # "discover"
          BY <4>3, DiscoverStep DEF IInv
        <5>2. InPlace(task[t], holds)
          BY <4>1, <5>1 DEF FInv, Following
        <5>3. pc'[t] = "update" => /\ task'[t].host = task[t].host
                                   /\ task'[t].wanted = task[t].wanted
                                   /\ task'[t].seen = holds
          BY <4>3, DiscoverStep DEF IInv
        <5>. QED
          BY <3>2, <5>1, <5>2, <5>3 DEF InPlace
      <4>4. CASE /\ ~ Discover(t)
                 /\ ~ \E d \in Devices, gained \in SUBSET Addresses : TakeOver(t, d, gained)
        <5>1. UNCHANGED <<task, active>>
          BY <1>2, <4>4 DEF Step, PutInterface, PutFails, PutRoute, Succeed
        <5>2. pc'[t] # "discover" /\ (pc'[t] = "update" => pc[t] = "update")
          BY <1>2, <4>4, PcStep DEF IInv, Orderly, Step, Succeed
        <5>. QED
          BY <3>2, <4>1, <5>1, <5>2 DEF FInv, Following, InPlace
      <4>. QED
        BY <3>2, <4>2, <4>3, <4>4
    <3>. QED
      BY <3>1, <3>2
  <2>. QED
    BY <2>2, <2>3 DEF FInv, AddressesFollowActive, Following, Fine
<1>3. ASSUME NEW d \in Devices, Restart(d) PROVE FInv'
  <2>1. UNCHANGED <<holds, active, task>>
    BY <1>3 DEF Restart
  <2>2. \A t \in Tasks : pc'[t] = pc[t] \/ pc'[t] = "lost"
    BY <1>3 DEF Restart
  <2>3. \A t \in Tasks : Fine(t)' => Fine(t)
    BY <1>1, <2>2 DEF Fine
  <2>4. AddressesFollowActive'
    BY <2>1, <2>3 DEF FInv, AddressesFollowActive, Fine
  <2>5. \A t \in Tasks : Following(t)'
    BY <1>1, <2>1, <2>2, <2>3 DEF FInv, Following, InPlace
  <2>. QED
    BY <2>4, <2>5 DEF FInv
<1>4. CASE UNCHANGED vars
  <2>1. UNCHANGED <<holds, active, task, pc>>
    BY <1>4 DEF vars
  <2>2. \A t \in Tasks : Fine(t)' => Fine(t)
    BY <1>1, <2>1 DEF Fine
  <2>3. AddressesFollowActive'
    BY <2>1, <2>2 DEF FInv, AddressesFollowActive, Fine
  <2>4. \A t \in Tasks : Following(t)'
    BY <1>1, <2>1, <2>2 DEF FInv, Following, InPlace
  <2>. QED
    BY <2>3, <2>4 DEF FInv
<1>. QED
  BY <1>2, <1>3, <1>4 DEF MCNext, Next, Done, Step

LEMMA InitFInv == MCInit => FInv
<1>. SUFFICES ASSUME MCInit PROVE FInv
  OBVIOUS
<1>1. \A t \in Tasks : pc[t] = "idle"
  BY DEF MCInit, Init
<1>2. active \in [Addresses -> Devices]
  BY DEF MCInit, Init
<1>3. PICK tag \in [Addresses -> Tags] :
        holds = [i \in Interfaces |->
                   {a \in Addresses : active[a] = Device(i) /\ tag[a] = TagOf(i)}]
  BY DEF MCInit, Init
<1>4. ASSUME NEW a \in Addresses
      PROVE  /\ <<active[a], tag[a]>> \in Interfaces
             /\ a \in holds[<<active[a], tag[a]>>]
             /\ Device(<<active[a], tag[a]>>) = active[a]
  BY <1>2, <1>3, InterfaceTyping
<1>5. \A a \in Addresses : \E i \in Interfaces : a \in holds[i] /\ Device(i) = active[a]
  BY <1>4
<1>. QED
  BY <1>1, <1>5 DEF FInv, AddressesFollowActive, Following

\* For pairs of devices: after failovers that succeeded and did not overlap,
\* each traffic group's addresses are on the device it is active on.
THEOREM FollowActive ==
  ASSUME AtMostTwoDevices
  PROVE  MCSpec => []AddressesFollowActive
<1>1. IInv /\ FInv /\ [MCNext]_<<vars, alone>> => FInv'
  BY NextFInv
<1>2. FInv => AddressesFollowActive
  BY DEF FInv
<1>. QED
  BY <1>1, <1>2, InitFInv, Invariance, PTL DEF MCSpec
=============================================================================
