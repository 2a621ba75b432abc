------------------------- MODULE MCAddressSelection -------------------------
(* An instance of AddressSelection: two devices, two groups of which one name
   contains the other, a floating and two fixed self IPs, a virtual address
   and a NAT with the address of the floating self IP in another route domain. *)
EXTENDS AddressSelection, TLC

MCDevices == {"bigip1", "bigip2"}
MCGroups  == {"traffic-group-1", "traffic-group-10"}
MCSelfIPs == {"self1", "self2", "floating"}
MCVirtuals == {"vip"}
MCNats == {"nat"}
MCHome ==
  "self1" :> {"bigip1"} @@ "self2" :> {"bigip2"} @@ "floating" :> MCDevices
MCIPs == {"10.0.0.1", "10.0.0.2", "10.0.0.3", "10.0.1.1"}
MCBare ==
  "self1" :> "10.0.0.1" @@ "self2" :> "10.0.0.2" @@ "floating" :> "10.0.0.3" @@
  "vip" :> "10.0.1.1" @@ "nat" :> "10.0.0.3"

\* The first range contains both destinations, the second only one.
MCCidrs == {"192.0.2.0/24", "2.0/24", "198.51.100.0/24"}
MCRoutes ==
  {[cidr |-> "2.0/24", table |-> "tagged"], [cidr |-> "198.51.100.0/24", table |-> "tagged"]}
MCRanges ==
  <<[range |-> "192.0.2.0/24", own |-> FALSE, discoveryType |-> "static",
     items |-> <<"10.0.0.2", "10.0.0.1">>],
    [range |-> "198.51.100.0/24", own |-> TRUE, discoveryType |-> "routeTag", items |-> <<>>]>>
MCTag == "tagged" :> <<"10.0.0.1", "10.0.0.2">>
MCContains ==
  {<<x, x>> : x \in MCDevices \cup MCGroups \cup MCCidrs} \cup
  {<<"traffic-group-10", "traffic-group-1">>, <<"192.0.2.0/24", "2.0/24">>}
=============================================================================
