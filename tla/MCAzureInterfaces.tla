------------------------- MODULE MCAzureInterfaces -------------------------
(* Instances of AzureInterfaces for TLC, with a history variable: which tasks
   no other task, and no call left over from another task, has overlapped.
   Devices, tags, addresses and tasks are interchangeable. *)
EXTENDS AzureInterfaces, TLC

VARIABLE alone

MCInit == Init /\ alone = [t \in Tasks |-> TRUE]

MCNext ==
  /\ Next
  /\ alone' = [t \in Tasks |->
                 alone[t] /\ (Busy(t)' => \A u \in Tasks \ {t} : ~Busy(u)')]

MCSpec == MCInit /\ [][MCNext]_<<vars, alone>>

Symmetry ==
  Permutations(Devices) \cup Permutations(Tags) \cup Permutations(Addresses)
    \cup Permutations(Tasks)

\* What the interfaces hold after a failover to c.host, from what they held
\* before: what is wanted has gone to the interface of the same tag, and
\* everything else is where it was (with one peer).
Expected(c) ==
  [i \in Interfaces |->
     IF Device(i) = c.host
     THEN c.seen[i] \cup UNION {c.seen[j] \cap c.wanted :
                                  j \in {k \in Interfaces : TagOf(k) = TagOf(i)}}
     ELSE c.seen[i] \ c.wanted]

\* A task that succeeds, and that nothing has overlapped, has moved what it
\* wants to the interfaces of the same tag, nothing else, and every route to
\* its device, whatever failed, was retried or was cut off before it
\* (_discoverAddressOperations, _updateAddresses, _updateRoutes).
SuccessDelivers ==
  [][\A t \in Tasks : pc[t] = "update" /\ pc'[t] = "succeeded" /\ alone[t] =>
       /\ holds = Expected(task[t])
       /\ \A n \in Routes : nextHop[n] = task[t].host]_<<vars, alone>>

\* An address that no interface holds, and that no discovery will see again,
\* was lost by a task that has written interfaces and has not succeeded, or
\* has overlapped another: a task that is by itself, and succeeds, drops
\* neither what it moves nor what it writes back.
LostOnlyInTrouble ==
  \A a \in Addresses : (\A i \in Interfaces : a \notin holds[i]) =>
    \E t \in Tasks : task[t].pairs # {} /\ (pc[t] # "succeeded" \/ ~alone[t])

\* After failovers that succeeded and did not overlap, each traffic group's
\* addresses are with the device it is active on, all of them at once.
AddressesFollowActive ==
  (\A t \in Tasks : pc[t] \in {"idle", "succeeded"} /\ alone[t]) =>
    \A a \in Addresses : \E i \in Interfaces : a \in holds[i] /\ Device(i) = active[a]
=============================================================================
