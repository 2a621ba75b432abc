--------------------------- MODULE MCGcpProvider ---------------------------
(* Instances of GcpProvider for TLC, with two history variables: the interface
   name each alias range had at first, and which tasks no other task, and no
   call left over from another task, has overlapped. *)
EXTENDS GcpProvider, TLC

VARIABLES home, alone

MCInit ==
  /\ Init
  /\ home = [a \in Aliases |-> NameOf(CHOOSE i \in Interfaces : a \in aliases[i])]
  /\ alone = [t \in Tasks |-> TRUE]

MCNext ==
  /\ Next
  /\ alone' = [t \in Tasks |->
                 alone[t] /\ (Busy(t)' => \A u \in Tasks \ {t} : ~Busy(u)')]
  /\ UNCHANGED home

MCSpec == MCInit /\ [][MCNext]_<<vars, home, alone>>

\* One name occurs in one other.
LookAlike ==
  {<<d, d>> : d \in Devices} \cup {CHOOSE p \in Devices \X Devices : p[1] # p[2]}

\* The devices are not interchangeable: their names are not.
Symmetry ==
  Permutations(Nics) \cup Permutations(Aliases)
    \cup Permutations(Routes) \cup Permutations(Tasks)

\* An alias range is only ever on interfaces of the name it had at first.
NicKept == \A i \in Interfaces : \A a \in aliases[i] : home[a] = NameOf(i)

\* A task that succeeds, and that nothing has overlapped, leaves its device
\* with every alias range it wants that an interface has; every rule it wants
\* sends to it, or to an instance whose URL its own name occurs in; and every
\* route that exists leads to it, or is one that Google has accepted to create
\* (_updateAddresses, _updateRoutes).
SuccessDelivers ==
  [][\A t \in Tasks : pc[t] = "update" /\ pc'[t] = "succeeded" /\ alone[t] =>
       /\ \A i \in Interfaces :
            aliases[i] \cap task[t].wanted # {} => Device(i) = task[t].host
       /\ \A r \in Rules \cap task[t].wanted : NamesOurs(task[t], r)
       /\ \A n \in Routes : route[n].hop \in {Deleted, task[t].host}
       /\ \A n \in task[t].routes :
            \/ route[n].hop = task[t].host
            \/ n \in inserting[t] \cup refused[t]]_<<vars, home, alone>>
=============================================================================
