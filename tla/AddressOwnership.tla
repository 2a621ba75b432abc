-------------------------- MODULE AddressOwnership --------------------------
(***************************************************************************)
(* What moving failover addresses promises, whatever the cloud and however *)
(* many tasks move them at the same time.  A task claims an address for a  *)
(* device.  An address leaves a device only when somebody claims it, goes  *)
(* to a device only when it is with no other and is claimed for that one,  *)
(* and a claim ends only when the address is where it is claimed for.      *)
(***************************************************************************)
CONSTANTS
  Devices,    \* the devices of the cluster
  Addresses,  \* failover addresses
  Tasks,      \* whoever moves them
  Nowhere     \* where an address is that no device has

VARIABLES
  owner,      \* the device that has each address, or Nowhere
  claims      \* who is to bring which address to which device

Claim == [task : Tasks, address : Addresses, device : Devices]

TypeOK ==
  /\ owner \in [Addresses -> Devices \cup {Nowhere}]
  /\ claims \subseteq Claim

Init ==
  /\ owner \in [Addresses -> Devices]
  /\ claims = {}

Claimed(a) == \E c \in claims : c.address = a

\* Address a stays, is let go, or arrives.
Stays(a)   == owner'[a] = owner[a]
Leaves(a)  == owner'[a] = Nowhere /\ Claimed(a)
Arrives(a) == /\ owner[a] = Nowhere
              /\ \E c \in claims : c.address = a /\ c.device = owner'[a]

Next ==
  /\ owner' \in [Addresses -> Devices \cup {Nowhere}]
  /\ claims' \subseteq Claim
  /\ \A a \in Addresses : Stays(a) \/ Leaves(a) \/ Arrives(a)
  /\ \A c \in claims \ claims' : owner'[c.address] = c.device

Spec == Init /\ [][Next]_<<owner, claims>>

-----------------------------------------------------------------------------
\* No address is forgotten: one that no device has is claimed by a task.
NoneForgotten == \A a \in Addresses : owner[a] = Nowhere => Claimed(a)
=============================================================================
