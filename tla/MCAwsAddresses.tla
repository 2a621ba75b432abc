--------------------------- MODULE MCAwsAddresses ---------------------------
(* Instances of AwsAddresses for TLC, with four history variables: the addresses
   that had an Elastic IP at first; which tasks no other task, and no call left
   over from another task, has overlapped; who is to bring which address to
   which device; and the addresses that a chain of which task, one that nobody
   waited for any more, has left without an Elastic IP. *)
EXTENDS AwsAddresses, TLC

VARIABLES had, alone, claims, strayed

mcvars == <<vars, had, alone, claims, strayed>>

\* The addresses that task t is still to assign to its device.
ToAssign ==
  {k \in [task : Tasks, address : Addresses, device : Devices] :
     /\ k.device = task[k.task].host
     /\ \E b \in assigning[k.task] : b.step = "assign" /\ k.address \in b.addresses}

\* No batch of task t waits for this chain any more.
Abandoned(t, c) == \A b \in assigning[t] : ~WaitsFor(b, c)

\* The last chain of task t for address a, an abandoned one, ends in this step
\* and leaves the address without an Elastic IP.
Strays(t, a) ==
  /\ \E c \in chains[t] : c.address = a /\ Abandoned(t, c)
  /\ \A c \in chains'[t] : c.address # a
  /\ elastic'[a] = Unbound

MCInit ==
  /\ Init
  /\ had = {a \in Addresses : elastic[a] # Unbound}
  /\ alone = [t \in Tasks |-> TRUE]
  /\ claims = {} /\ strayed = {}

\* What a task that has failed or was cut off does not assign any more remains
\* claimed, until the address is there all the same.
MCNext ==
  /\ Next
  /\ alone' = [t \in Tasks |->
                 alone[t] /\ (Busy(t)' => \A u \in Tasks \ {t} : ~Busy(u)')]
  /\ claims' = ToAssign' \cup
       {c \in claims : pc'[c.task] \in {"failed", "lost"} /\ owner'[c.address] # c.device}
  /\ strayed' = strayed \cup {p \in Tasks \X Addresses : Strays(p[1], p[2])}
  /\ UNCHANGED had

MCSpec == MCInit /\ [][MCNext]_mcvars /\ Fairness

\* A task that succeeds, and that nothing has overlapped, leaves every tagged
\* Elastic IP on its device, those included that an earlier task took off and
\* did not associate again, and has every address it wants that some device
\* had, whatever failed or was cut off before it.
SuccessDelivers ==
  [][\A t \in Tasks : pc[t] = "update" /\ pc'[t] = "succeeded" /\ alone[t] =>
       /\ \A e \in Tagged : tagged[e].at = task[t].host
       /\ \A a \in task[t].wanted : owner[a] \in {task[t].host, Nowhere}]_mcvars

\* An address that had an Elastic IP and has none any more, which nothing in
\* the cloud tells, was taken from its interface by a task that has not
\* succeeded, or that overlapped another one, or that has a chain for it under
\* way, or whose last chain for it was one of an earlier attempt and ended when
\* it had taken the Elastic IP off (_associateAddressToNic).  The calls that a
\* task waits for lose none, however often they are repeated.
ElasticLostInTrouble ==
  \A a \in had : elastic[a] = Unbound =>
    \E t \in Tasks :
      /\ a \in task[t].public
      /\ \/ pc[t] # "succeeded" \/ ~alone[t]
         \/ (\E c \in chains[t] : c.address = a) \/ <<t, a>> \in strayed

\* A task resolves "when all addresses are reassociated"
\* (_reassociateAddresses): when one that nothing overlapped has succeeded and
\* has no call left, each address that it found with an Elastic IP has it.
Reassociated ==
  \A t \in Tasks : pc[t] = "succeeded" /\ alone[t] /\ ~Busy(t) =>
    \A a \in task[t].public : elastic[a] # Unbound

\* However tasks overlap and repeat their calls, private addresses move as
\* AddressOwnership says: one is unassigned only when a task is to assign it to
\* its own device, and a task that has not failed lets go of what it is to
\* assign only when it has (_disassociateAddressFromNic, _associateAddressToNic).
Ownership == INSTANCE AddressOwnership
ImplementsOwnership == Ownership!Spec

\* Every update comes to an end, and so does every call it has issued: a call
\* that is rejected, for whatever reason, is repeated only so often.
UpdatesEnd == \A t \in Tasks : Busy(t) ~> ~Busy(t)
=============================================================================
