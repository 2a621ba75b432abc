--------------------------- MODULE AddressSelection ---------------------------
(***************************************************************************)
(* What a device decides to take over (failover.js: _getTrafficGroups,     *)
(* _getSelfAddresses, _getFloatingAddresses, _getFailoverAddresses) and    *)
(* where it points the routes (_parseConfig, and the next hop discovery    *)
(* that the providers inherit, abstract/cloud.js).                         *)
(*                                                                         *)
(* FailoverTask takes "this device is active" and "these addresses fail    *)
(* over" as given.  Here they are computed, with several traffic groups,   *)
(* from lists that a device reads one by one while roles move and users    *)
(* edit the configuration.  The code compares names with indexOf: a name   *)
(* matches every name that contains it.                                    *)
(***************************************************************************)
EXTENDS Naturals, Sequences

CONSTANTS
  Devices,      \* the devices of the cluster, each by its hostname
  Groups,       \* the floating traffic groups
  SelfIPs, Virtuals, Snats, Nats,   \* configured addresses, by their kind
  Home,         \* the devices that have a self IP; all of them for a floating one
  IPs, Bare,    \* a configured address without its mask and route domain
  Routes,       \* the routes in scope, each [cidr, table]
  Cidrs,        \* their destinations, and the ranges of the declaration
  Ranges,       \* scopingAddressRanges, in order; own is FALSE for a range
                \* that has no nextHopAddresses and gets the default ones
  Tables,
  SelfIpTag,    \* f5_self_ips: the next hops each route table is tagged with
  Contains,     \* the pairs <<x, y>> such that the name x contains the name y
  MaxChanges    \* bound: moves of a traffic group and edits of the configuration

LocalOnly == "traffic-group-local-only"
Untouched == "untouched"

Floating   == Virtuals \cup Snats \cup Nats
Configured == SelfIPs \cup Floating

\* A self IP that only one device has does not float.
Fixed == {s \in SelfIPs : \E d \in Devices : Home[s] = {d}}

ASSUME NamesAssumption ==
  /\ LocalOnly \notin Groups
  /\ \A x \in Devices \cup Groups \cup Cidrs : <<x, x>> \in Contains
ASSUME ConfigurationAssumption ==
  /\ SelfIPs \cap Floating = {}
  /\ Home \in [SelfIPs -> SUBSET Devices]
  /\ Bare \in [Configured -> IPs] /\ Untouched \notin IPs
  \* fixed self IPs of different devices differ
  /\ \A s, t \in Fixed : Bare[s] = Bare[t] => Home[s] = Home[t]
ASSUME BoundAssumption == MaxChanges \in Nat
ASSUME RoutesAssumption ==
  /\ Routes \subseteq [cidr : Cidrs, table : Tables]
  /\ SelfIpTag \in [Tables -> Seq(IPs)]
  /\ Ranges \in Seq([range : Cidrs, own : BOOLEAN, discoveryType : {"static", "routeTag"},
                     items : Seq(IPs)])

VARIABLES
  activeFor,   \* the devices each traffic group is active on
  groupOf,     \* the traffic group each address is configured in
  tag,         \* the tag of each route table, <<>> when it is missing
  unread,      \* the lists each device's task has still to read
  stats,       \* activeFor as each device read it
  seen,        \* groupOf as each device read it
  result,      \* what each device's task makes of it
  changes

cluster == <<activeFor, groupOf, tag, changes>>
vars == <<cluster, unread, stats, seen, result>>

\* The reads of _getDeviceObjects that decide something; the three kinds of
\* floating addresses are one of them here.
Lists == {"stats", "self", "floating"}
ListOf(o) == IF o \in SelfIPs THEN "self" ELSE "floating"

Result == [status : {"reading", "failed", "standby", "selected"},
           local : SUBSET IPs, failover : SUBSET IPs,
           nextHop : [Routes -> IPs \cup {Untouched}]]
Blank == [status |-> "reading", local |-> {}, failover |-> {},
          nextHop |-> [n \in Routes |-> Untouched]]
NothingRead == [o \in Configured |-> LocalOnly]

TypeOK ==
  /\ activeFor \in [Groups -> SUBSET Devices]
  /\ groupOf \in [Configured -> Groups \cup {LocalOnly}]
  /\ tag \in [Tables -> Seq(IPs)]
  /\ unread \in [Devices -> SUBSET Lists]
  /\ stats \in [Devices -> [Groups -> SUBSET Devices]]
  /\ seen \in [Devices -> [Configured -> Groups \cup {LocalOnly}]]
  /\ result \in [Devices -> Result]
  /\ changes \in 0..MaxChanges

\* Addresses are configured in the group they float with, fixed self IPs in none.
Placements ==
  {f \in [Configured -> Groups \cup {LocalOnly}] : \A s \in Fixed : f[s] = LocalOnly}

Init ==
  /\ \E d \in Devices : activeFor = [g \in Groups |-> {d}]
  /\ groupOf \in Placements
  /\ tag = SelfIpTag
  /\ unread = [d \in Devices |-> Lists]
  /\ stats = [d \in Devices |-> [g \in Groups |-> {}]]
  /\ seen = [d \in Devices |-> NothingRead]
  /\ result = [d \in Devices |-> Blank]
  /\ changes = 0

-----------------------------------------------------------------------------
(* The cluster and its users.                                              *)

Change == changes < MaxChanges /\ changes' = changes + 1

\* A group moves; until the devices are reconciled both may be active for it.
MoveGroup(g, d) ==
  /\ Change
  /\ activeFor[g] # {d}
  /\ activeFor' \in {[activeFor EXCEPT ![g] = {d}], [activeFor EXCEPT ![g] = @ \cup {d}]}
  /\ UNCHANGED <<groupOf, tag, unread, stats, seen, result>>

\* A user moves an address to another group.
Reassign(o, g) ==
  /\ Change
  /\ o \notin Fixed /\ groupOf[o] # g
  /\ groupOf' = [groupOf EXCEPT ![o] = g]
  /\ UNCHANGED <<activeFor, tag, unread, stats, seen, result>>

\* Somebody removes the tag from a route table.
Untag(t) ==
  /\ Change
  /\ tag[t] # <<>>
  /\ tag' = [tag EXCEPT ![t] = <<>>]
  /\ UNCHANGED <<activeFor, groupOf, unread, stats, seen, result>>

-----------------------------------------------------------------------------
(* The task of a device.                                                   *)

\* A new task, with a new FailoverClient.
Begin(d) ==
  /\ result[d].status # "reading"
  /\ unread' = [unread EXCEPT ![d] = Lists]
  /\ stats' = [stats EXCEPT ![d] = [g \in Groups |-> {}]]
  /\ seen' = [seen EXCEPT ![d] = NothingRead]
  /\ result' = [result EXCEPT ![d] = Blank]
  /\ UNCHANGED cluster

\* _getDeviceObjects: the lists arrive in any order.
Read(d, list) ==
  /\ result[d].status = "reading" /\ list \in unread[d]
  /\ unread' = [unread EXCEPT ![d] = @ \ {list}]
  /\ stats' = IF list = "stats" THEN [stats EXCEPT ![d] = activeFor] ELSE stats
  /\ seen' = [seen EXCEPT ![d] =
                [o \in Configured |-> IF ListOf(o) = list THEN groupOf[o] ELSE @[o]]]
  /\ UNCHANGED <<cluster, result>>

\* One of the reads fails: the error is logged, and the task fails on the
\* missing result.
ReadFails(d) ==
  /\ result[d].status = "reading" /\ unread[d] # {}
  /\ result' = [result EXCEPT ![d].status = "failed"]
  /\ UNCHANGED <<cluster, unread, stats, seen>>

\* Variant of the next definition: any device that is active will do.
ActiveSomewhere(d) == {g \in Groups : stats[d][g] # {}}

\* _getTrafficGroups: the groups of which the statistics say that a device
\* whose name contains the hostname is active for them.
ActiveGroups(d) ==
  {g \in Groups : \E e \in stats[d][g] : <<e, d>> \in Contains}

\* _getSelfAddresses and _getFloatingAddresses: an address matches when one of
\* the groups contains the name of its own.
Matching(d) ==
  {o \in Configured : \E g \in ActiveGroups(d) : <<g, seen[d][o]>> \in Contains}

SelfIPsOf(d) == {s \in SelfIPs : d \in Home[s]}

\* Variant of the next definition: the NAT objects are left out.
FailoverWithoutNats(d) ==
  {Bare[o] : o \in Matching(d) \cap (SelfIPsOf(d) \cup Virtuals \cup Snats)}

\* _getFailoverAddresses.
FailoverAddresses(d) == {Bare[o] : o \in Matching(d) \cap (SelfIPsOf(d) \cup Floating)}
LocalAddresses(d)    == {Bare[s] : s \in SelfIPsOf(d) \ Matching(d)}

\* _matchRouteToAddressRange: a range is a string, and so is a destination.
RangesOf(n) == {i \in DOMAIN Ranges : <<Ranges[i].range, n.cidr>> \in Contains}

\* The index of what filter(...)[0] returns.
Least(S) == CHOOSE i \in S : \A j \in S : i <= j

\* The range whose next hops a route takes.
RangeOf(n) == Ranges[Least(RangesOf(n))]

\* _nextHopAddressResolver and the first half of _discoverNextHopAddress.
Candidates(n) ==
  IF RangeOf(n).discoveryType = "static" THEN RangeOf(n).items ELSE tag[n.table]

\* A tag that is missing cannot be split, and default items that are missing
\* not be filtered: one such route and nothing is updated.
Undiscoverable ==
  \E n \in Routes :
    /\ RangesOf(n) # {} /\ Candidates(n) = <<>>
    /\ RangeOf(n).discoveryType = "static" => ~RangeOf(n).own

\* Variants of the next definition: whether the address is ours is not asked;
\* all the addresses are returned in place of the first.
FirstCandidate(d, n) == IF RangesOf(n) = {} THEN Untouched ELSE Candidates(n)[1]
AllCandidates(d, n) == IF RangesOf(n) = {} THEN Untouched ELSE Candidates(n)

\* The first candidate that is a local address; without one the route is
\* left alone.
NextHop(d, n) ==
  LET ours == IF RangesOf(n) = {} THEN {}
              ELSE {i \in DOMAIN Candidates(n) : Candidates(n)[i] \in LocalAddresses(d)}
  IN  IF ours = {} THEN Untouched ELSE Candidates(n)[Least(ours)]

\* _getFailoverDiscovery: nothing is looked for on a standby device.
Select(d) ==
  /\ result[d].status = "reading" /\ unread[d] = {}
  /\ \/ /\ ActiveGroups(d) = {}
        /\ result' = [result EXCEPT ![d].status = "standby"]
     \/ /\ ActiveGroups(d) # {} /\ Undiscoverable
        /\ result' = [result EXCEPT ![d].status = "failed"]
     \/ /\ ActiveGroups(d) # {} /\ ~Undiscoverable
        /\ result' = [result EXCEPT ![d] =
             [status |-> "selected",
              local |-> LocalAddresses(d), failover |-> FailoverAddresses(d),
              nextHop |-> [n \in Routes |-> NextHop(d, n)]]]
  /\ UNCHANGED <<cluster, unread, stats, seen>>

Next ==
  \/ \E g \in Groups, d \in Devices : MoveGroup(g, d)
  \/ \E o \in Configured, g \in Groups \cup {LocalOnly} : Reassign(o, g)
  \/ \E t \in Tables : Untag(t)
  \/ \E d \in Devices : Begin(d) \/ ReadFails(d) \/ Select(d)
  \/ \E d \in Devices, list \in Lists : Read(d, list)

Spec == Init /\ [][Next]_vars

-----------------------------------------------------------------------------
(* Properties.                                                             *)

Selected(d) == result[d].status = "selected"

\* Two tasks that read the same state of a cluster that agrees with itself:
\* every group active on one device at most.
SameReading(d, e) ==
  /\ stats[d] = stats[e] /\ seen[d] = seen[e]
  /\ \A g \in Groups : \A f, h \in stats[d][g] : f = h

\* What can make two devices take one address all the same: a hostname that
\* contains that of one of them, ...
HostnamesOverlap(d, e) ==
  \E f \in Devices : \E x \in {d, e} : f # x /\ <<f, x>> \in Contains
\* ... a group whose name contains that of the address's group, ...
GroupNamesOverlap(g) == \E h \in Groups : h # g /\ <<h, g>> \in Contains
\* ... or two addresses that differ only in what is stripped from them.
SameWhenBare(o, p) == o # p /\ Bare[o] = Bare[p]

\* However the reads interleave with failovers and edits, two devices that saw
\* the same cluster take no address both, unless two names overlap or two
\* addresses coincide once stripped (the indexOf of _getTrafficGroups and
\* _getFloatingAddresses, the split of _addAddress): these are the only ways.
TakenTwiceOnlyByName ==
  \A d, e \in Devices :
    d # e /\ Selected(d) /\ Selected(e) /\ SameReading(d, e) =>
      \A ip \in result[d].failover \cap result[e].failover :
        \/ HostnamesOverlap(d, e)
        \/ \E o \in Configured : Bare[o] = ip /\ GroupNamesOverlap(seen[d][o])
        \/ \E o, p \in Configured : Bare[o] = ip /\ SameWhenBare(o, p)

\* A device that found itself active for a group takes every floating address
\* it found in the group, of whatever kind, and does not go by as standby
\* (_getFailoverAddresses).
NoneMissed ==
  \A d \in Devices, o \in Floating :
    /\ result[d].status \in {"selected", "standby"}
    /\ seen[d][o] \in Groups /\ d \in stats[d][seen[d][o]]
    => Bare[o] \in result[d].failover

\* Devices do not point a route at one and the same next hop when the declared
\* ones are fixed self IPs, "the Self IP address of each instance", and no
\* floating address coincides with them (_discoverNextHopAddress).
NextHopsDiffer ==
  \A d, e \in Devices, n \in Routes :
    d # e /\ Selected(d) /\ Selected(e) =>
      LET hop == result[d].nextHop[n] IN
      hop = result[e].nextHop[n] =>
        hop = Untouched \/ \E s \in SelfIPs \ Fixed : Bare[s] = hop
=============================================================================
