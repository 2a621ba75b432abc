----------------------- MODULE AddressSelectionProofs -----------------------
(***************************************************************************)
(* Theorems about AddressSelection, for every cluster, configuration and   *)
(* declaration, and every relation between the names.                      *)
(***************************************************************************)
EXTENDS AddressSelection, WellFoundedInduction, TLAPS

\* What a finished task holds is what its reads, which nothing has touched
\* since, make of the selection; its next hops are self IPs of its device.
Chosen(d) ==
  /\ Selected(d) => result[d].failover = FailoverAddresses(d)
  /\ result[d].status = "standby" => ActiveGroups(d) = {}
  /\ \A n \in Routes :
       result[d].nextHop[n] = Untouched
       \/ \E s \in SelfIPsOf(d) : Bare[s] = result[d].nextHop[n]

IInv == TypeOK /\ \A d \in Devices : Chosen(d)

-----------------------------------------------------------------------------
(* What the helpers return.                                                *)

\* A set of indices has a least one.
LEMMA LeastTyping ==
  ASSUME NEW S, S \subseteq Nat, S # {}
  PROVE  Least(S) \in S
<1>. DEFINE R == {ss \in Nat \X Nat : ss[1] < ss[2]}
<1>1. IsWellFoundedOn(R, Nat)
  BY NatLessThanWellFounded DEF OpToRel
<1>2. \E i \in S : \A j \in S : ~ (<<j, i>> \in R)
  BY <1>1, WFMin
<1>3. \A i \in S, j \in S : <<j, i>> \notin R => i <= j
  OBVIOUS
<1>. QED
  BY <1>2, <1>3 DEF Least

\* The candidates for a route in scope are a list of addresses.
LEMMA CandidatesTyping ==
  ASSUME TypeOK, NEW n \in Routes, RangesOf(n) # {}
  PROVE  Candidates(n) \in Seq(IPs)
<1>1. RangesOf(n) \subseteq Nat
  BY RoutesAssumption DEF RangesOf
<1>2. Least(RangesOf(n)) \in DOMAIN Ranges
  BY <1>1, LeastTyping DEF RangesOf
<1>3. RangeOf(n).items \in Seq(IPs)
  <2>. DEFINE Range == [range : Cidrs, own : BOOLEAN,
                        discoveryType : {"static", "routeTag"}, items : Seq(IPs)]
  <2>1. Ranges \in Seq(Range)
    BY RoutesAssumption
  <2>. HIDE DEF Range
  <2>2. Ranges[Least(RangesOf(n))] \in Range
    BY <1>2, <2>1
  <2>. QED
    BY <2>2 DEF RangeOf, Range
<1>4. tag[n.table] \in Seq(IPs)
  BY RoutesAssumption DEF TypeOK
<1>. QED
  BY <1>3, <1>4 DEF Candidates

\* Addresses without their masks and route domains are IP addresses.
LEMMA AddressTyping ==
  ASSUME NEW d \in Devices
  PROVE  FailoverAddresses(d) \in SUBSET IPs /\ LocalAddresses(d) \in SUBSET IPs
BY ConfigurationAssumption
   DEF FailoverAddresses, LocalAddresses, Matching, SelfIPsOf, Configured

\* A next hop is a self IP of the device.
LEMMA NextHopTyping ==
  ASSUME TypeOK, NEW d \in Devices, NEW n \in Routes
  PROVE  /\ NextHop(d, n) \in IPs \cup {Untouched}
         /\ NextHop(d, n) = Untouched \/ \E s \in SelfIPsOf(d) : Bare[s] = NextHop(d, n)
<1>. DEFINE ours == IF RangesOf(n) = {} THEN {}
                    ELSE {i \in DOMAIN Candidates(n) : Candidates(n)[i] \in LocalAddresses(d)}
<1>1. CASE ours = {}
  BY <1>1 DEF NextHop
<1>2. CASE ours # {}
  <2>1. ours \subseteq Nat
    <3>1. Candidates(n) \in Seq(IPs)
      BY <1>2, CandidatesTyping
    <3>. QED
      BY <3>1
  <2>2. Least(ours) \in ours
    BY <1>2, <2>1, LeastTyping
  <2>3. NextHop(d, n) = Candidates(n)[Least(ours)]
    BY <1>2 DEF NextHop
  <2>4. NextHop(d, n) \in LocalAddresses(d)
    BY <1>2, <2>2, <2>3
  <2>. QED
    BY <2>4, AddressTyping DEF LocalAddresses
<1>. QED
  BY <1>1, <1>2

-----------------------------------------------------------------------------
(* The invariant.                                                          *)

LEMMA InitIInv == Init => IInv
<1>. SUFFICES ASSUME Init PROVE IInv
  OBVIOUS
<1>1. TypeOK
  BY RoutesAssumption, BoundAssumption
     DEF Init, TypeOK, Placements, NothingRead, Blank, Result
<1>2. ASSUME NEW d \in Devices PROVE Chosen(d)
  BY DEF Init, Chosen, Selected, Blank
<1>. QED
  BY <1>1, <1>2 DEF IInv

\* A task is unaffected by what happens to the cluster, and to others.
LEMMA ChosenKept ==
  ASSUME NEW d \in Devices, Chosen(d), result'[d] = result[d],
         (stats'[d] = stats[d] /\ seen'[d] = seen[d]) \/ result[d].status \in {"reading", "failed"}
  PROVE  Chosen(d)'
<1>1. CASE stats'[d] = stats[d] /\ seen'[d] = seen[d]
  <2>1. ActiveGroups(d)' = ActiveGroups(d)
    BY <1>1 DEF ActiveGroups
  <2>2. FailoverAddresses(d)' = FailoverAddresses(d)
    BY <1>1, <2>1 DEF FailoverAddresses, Matching
  <2>. QED
    BY <2>1, <2>2 DEF Chosen, Selected
<1>2. CASE result[d].status \in {"reading", "failed"}
  BY <1>2 DEF Chosen, Selected
<1>. QED
  BY <1>1, <1>2

\* A task that has failed keeps nothing but the next hops it had.
LEMMA ChosenOnFailure ==
  ASSUME NEW d \in Devices, Chosen(d), result[d] \in Result,
         result'[d] = [result[d] EXCEPT !.status = "failed"]
  PROVE  Chosen(d)'
<1>1. result'[d].status = "failed" /\ result'[d].nextHop = result[d].nextHop
  BY DEF Result
<1>2. \A n \in Routes :
        result'[d].nextHop[n] = Untouched
        \/ \E s \in SelfIPsOf(d) : Bare[s] = result'[d].nextHop[n]
  BY <1>1 DEF Chosen
<1>. QED
  BY <1>1, <1>2 DEF Chosen, Selected

\* The steps of the cluster and its users.
LEMMA ClusterIInv ==
  ASSUME IInv,
         \/ \E g \in Groups, d \in Devices : MoveGroup(g, d)
         \/ \E o \in Configured, g \in Groups \cup {LocalOnly} : Reassign(o, g)
         \/ \E t \in Tables : Untag(t)
         \/ UNCHANGED vars
  PROVE  IInv'
<1>1. TypeOK'
  <2>1. ASSUME NEW g \in Groups, NEW d \in Devices, MoveGroup(g, d) PROVE TypeOK'
    <3>1. activeFor' \in [Groups -> SUBSET Devices]
      <4>1. activeFor[g] \cup {d} \in SUBSET Devices /\ {d} \in SUBSET Devices
        BY DEF IInv, TypeOK
      <4>2. \E S \in SUBSET Devices : activeFor' = [activeFor EXCEPT ![g] = S]
        BY <2>1, <4>1 DEF MoveGroup
      <4>. QED
        BY <4>2 DEF IInv, TypeOK
    <3>2. changes' \in 0..MaxChanges
      BY <2>1, BoundAssumption DEF MoveGroup, Change, IInv, TypeOK
    <3>. QED
      BY <2>1, <3>1, <3>2 DEF MoveGroup, IInv, TypeOK
  <2>2. ASSUME NEW o \in Configured, NEW g \in Groups \cup {LocalOnly}, Reassign(o, g)
        PROVE  TypeOK'
    <3>1. changes' \in 0..MaxChanges
      BY <2>2, BoundAssumption DEF Reassign, Change, IInv, TypeOK
    <3>. QED
      BY <2>2, <3>1 DEF Reassign, IInv, TypeOK
  <2>3. ASSUME NEW t \in Tables, Untag(t) PROVE TypeOK'
    <3>1. changes' \in 0..MaxChanges
      BY <2>3, BoundAssumption DEF Untag, Change, IInv, TypeOK
    <3>2. tag' \in [Tables -> Seq(IPs)]
      <4>1. <<>> \in Seq(IPs)
        OBVIOUS
      <4>. QED
        BY <2>3, <4>1 DEF Untag, IInv, TypeOK
    <3>. QED
      BY <2>3, <3>1, <3>2 DEF Untag, IInv, TypeOK
  <2>4. CASE UNCHANGED vars
    BY <2>4 DEF vars, cluster, IInv, TypeOK
  <2>. QED
    BY <2>1, <2>2, <2>3, <2>4
<1>2. UNCHANGED <<stats, seen, result>>
  BY DEF MoveGroup, Reassign, Untag, vars
<1>3. ASSUME NEW d \in Devices PROVE Chosen(d)'
  BY <1>2, ChosenKept DEF IInv
<1>. QED
  BY <1>1, <1>3 DEF IInv

\* The steps of a task.
LEMMA TaskIInv ==
  ASSUME IInv, NEW d \in Devices,
         Begin(d) \/ ReadFails(d) \/ Select(d) \/ \E list \in Lists : Read(d, list)
  PROVE  IInv'
<1>. USE DEF IInv, TypeOK
<1>1. CASE Begin(d)
  <2>1. TypeOK'
    BY <1>1 DEF Begin, cluster, NothingRead, Blank, Result
  <2>2. Chosen(d)'
    BY <1>1 DEF Begin, Chosen, Selected, Blank
  <2>3. ASSUME NEW e \in Devices \ {d} PROVE Chosen(e)'
    BY <1>1, ChosenKept DEF Begin
  <2>. QED
    BY <2>1, <2>2, <2>3
<1>2. CASE ReadFails(d)
  <2>1. result'[d] = [result[d] EXCEPT !.status = "failed"] /\ result[d] \in Result
    BY <1>2 DEF ReadFails
  <2>2. result'[d] \in Result
    BY <2>1 DEF Result
  <2>3. TypeOK'
    BY <1>2, <2>2 DEF ReadFails, cluster
  <2>4. Chosen(d)'
    BY <2>1, ChosenOnFailure
  <2>5. ASSUME NEW e \in Devices \ {d} PROVE Chosen(e)'
    BY <1>2, ChosenKept DEF ReadFails
  <2>. QED
    BY <2>3, <2>4, <2>5
<1>3. ASSUME NEW list \in Lists, Read(d, list) PROVE IInv'
  <2>1. TypeOK'
    BY <1>3 DEF Read, cluster
  <2>2. \A e \in Devices :
          /\ result'[e] = result[e]
          /\ (stats'[e] = stats[e] /\ seen'[e] = seen[e]) \/ result[e].status = "reading"
    BY <1>3 DEF Read
  <2>3. ASSUME NEW e \in Devices PROVE Chosen(e)'
    BY <2>2, ChosenKept
  <2>. QED
    BY <2>1, <2>3
<1>4. CASE Select(d)
  <2>1. ASSUME NEW e \in Devices \ {d} PROVE Chosen(e)'
    BY <1>4, ChosenKept DEF Select
  <2>2. /\ ActiveGroups(d)' = ActiveGroups(d)
        /\ FailoverAddresses(d)' = FailoverAddresses(d)
    BY <1>4 DEF Select, ActiveGroups, FailoverAddresses, Matching
  <2>3. CASE /\ result' = [result EXCEPT ![d].status = "standby"]
             /\ ActiveGroups(d) = {}
    <3>1. result'[d] = [result[d] EXCEPT !.status = "standby"] /\ result[d] \in Result
      BY <2>3
    <3>2. result'[d] \in Result
      BY <3>1 DEF Result
    <3>3. TypeOK'
      BY <1>4, <2>3, <3>2 DEF Select, cluster
    <3>4. Chosen(d)'
      BY <2>2, <2>3, <3>1 DEF Chosen, Selected, Result
    <3>. QED
      BY <2>1, <3>3, <3>4
  <2>4. CASE result' = [result EXCEPT ![d].status = "failed"]
    <3>1. result'[d] = [result[d] EXCEPT !.status = "failed"] /\ result[d] \in Result
      BY <2>4
    <3>2. result'[d] \in Result
      BY <3>1 DEF Result
    <3>3. TypeOK'
      BY <1>4, <2>4, <3>2 DEF Select, cluster
    <3>4. Chosen(d)'
      BY <3>1, ChosenOnFailure
    <3>. QED
      BY <2>1, <3>3, <3>4
  <2>5. CASE result' = [result EXCEPT ![d] =
                [status |-> "selected",
                 local |-> LocalAddresses(d), failover |-> FailoverAddresses(d),
                 nextHop |-> [n \in Routes |-> NextHop(d, n)]]]
    <3>1. result'[d] = [status |-> "selected",
             local |-> LocalAddresses(d), failover |-> FailoverAddresses(d),
             nextHop |-> [n \in Routes |-> NextHop(d, n)]]
      BY <2>5
    <3>2. \A n \in Routes :
            /\ NextHop(d, n) \in IPs \cup {Untouched}
            /\ NextHop(d, n) = Untouched \/ \E s \in SelfIPsOf(d) : Bare[s] = NextHop(d, n)
      BY NextHopTyping
    <3>3. result'[d] \in Result
      BY <3>1, <3>2, AddressTyping DEF Result
    <3>4. TypeOK'
      BY <1>4, <2>5, <3>3 DEF Select, cluster
    <3>5. Chosen(d)'
      BY <2>2, <3>1, <3>2 DEF Chosen, Selected
    <3>. QED
      BY <2>1, <3>4, <3>5
  <2>. QED
    BY <1>4, <2>3, <2>4, <2>5 DEF Select
<1>. QED
  BY <1>1, <1>2, <1>3, <1>4

\* The invariant is inductive and holds initially.
THEOREM Invariance == Spec => []IInv
<1>1. Init => IInv
  BY InitIInv
<1>2. IInv /\ [Next]_vars => IInv'
  BY ClusterIInv, TaskIInv DEF Next
<1>. QED
  BY <1>1, <1>2, PTL DEF Spec

-----------------------------------------------------------------------------
(* Theorems.                                                               *)

\* The lists, what the devices read of them, and what they select keep their
\* form; in particular a next hop is always found or the route left alone.
THEOREM TypeCorrect == Spec => []TypeOK
<1>1. IInv => TypeOK
  BY DEF IInv
<1>. QED
  BY <1>1, Invariance, PTL

\* Two devices that saw the same cluster select one address both only when
\* hostnames or group names overlap or two addresses coincide once stripped:
\* there is no fourth way, whatever moves or is edited meanwhile.
THEOREM OnlyByName == Spec => []TakenTwiceOnlyByName
<1>1. IInv => TakenTwiceOnlyByName
  <2>. SUFFICES ASSUME IInv, NEW d \in Devices, NEW e \in Devices, d # e,
                       Selected(d), Selected(e), SameReading(d, e),
                       NEW ip \in result[d].failover \cap result[e].failover,
                       ~ HostnamesOverlap(d, e),
                       \A o \in Configured : Bare[o] = ip => ~ GroupNamesOverlap(seen[d][o]),
                       \A o, p \in Configured : Bare[o] = ip => ~ SameWhenBare(o, p)
                PROVE  FALSE
    BY DEF TakenTwiceOnlyByName
  <2>1. ip \in FailoverAddresses(d) /\ ip \in FailoverAddresses(e)
    BY DEF IInv, Chosen
  <2>2. PICK o \in Matching(d) : Bare[o] = ip
    BY <2>1 DEF FailoverAddresses
  <2>3. PICK p \in Matching(e) : Bare[p] = ip
    BY <2>1 DEF FailoverAddresses
  <2>4. o \in Configured /\ o = p
    BY <2>2, <2>3 DEF Matching, SameWhenBare
  <2>5. PICK g \in ActiveGroups(d) : <<g, seen[d][o]>> \in Contains
    BY <2>2 DEF Matching
  <2>6. PICK h \in ActiveGroups(e) : <<h, seen[e][o]>> \in Contains
    BY <2>3, <2>4 DEF Matching
  <2>7. g = seen[d][o] /\ h = seen[d][o]
    BY <2>2, <2>4, <2>5, <2>6 DEF GroupNamesOverlap, SameReading, ActiveGroups
  <2>8. PICK x \in stats[d][g] : <<x, d>> \in Contains
    BY <2>5 DEF ActiveGroups
  <2>9. PICK y \in stats[e][h] : <<y, e>> \in Contains
    BY <2>6 DEF ActiveGroups
  <2>10. x \in Devices /\ g \in Groups
    BY <2>5, <2>8 DEF IInv, TypeOK, ActiveGroups
  <2>11. x = y
    BY <2>7, <2>8, <2>9, <2>10 DEF SameReading
  <2>12. x # d \/ x # e
    OBVIOUS
  <2>. QED
    BY <2>8, <2>9, <2>10, <2>11, <2>12 DEF HostnamesOverlap
<1>. QED
  BY <1>1, Invariance, PTL

\* A device that found itself active for a group takes every floating address
\* that it found in the group.
THEOREM Complete == Spec => []NoneMissed
<1>1. IInv => NoneMissed
  <2>. SUFFICES ASSUME IInv, NEW d \in Devices, NEW o \in Floating,
                       result[d].status \in {"selected", "standby"},
                       seen[d][o] \in Groups, d \in stats[d][seen[d][o]]
                PROVE  Bare[o] \in result[d].failover
    BY DEF NoneMissed
  <2>1. seen[d][o] \in ActiveGroups(d)
    BY NamesAssumption DEF ActiveGroups
  <2>2. Selected(d) /\ result[d].failover = FailoverAddresses(d)
    BY <2>1 DEF IInv, Chosen, Selected
  <2>3. o \in Matching(d)
    BY <2>1, NamesAssumption DEF Matching, Configured
  <2>. QED
    BY <2>2, <2>3 DEF FailoverAddresses
<1>. QED
  BY <1>1, Invariance, PTL

\* Two devices point a route at the same next hop only when it is a floating
\* self IP, however the declaration and the tags are written.
THEOREM HopsApart == Spec => []NextHopsDiffer
<1>1. IInv => NextHopsDiffer
  <2>. SUFFICES ASSUME IInv, NEW d \in Devices, NEW e \in Devices, NEW n \in Routes,
                       d # e, result[d].nextHop[n] = result[e].nextHop[n],
                       result[d].nextHop[n] # Untouched
                PROVE  \E s \in SelfIPs \ Fixed : Bare[s] = result[d].nextHop[n]
    BY DEF NextHopsDiffer
  <2>1. PICK s \in SelfIPsOf(d) : Bare[s] = result[d].nextHop[n]
    BY DEF IInv, Chosen
  <2>2. PICK t \in SelfIPsOf(e) : Bare[t] = result[d].nextHop[n]
    BY DEF IInv, Chosen
  <2>3. s \in SelfIPs /\ t \in SelfIPs /\ d \in Home[s] /\ e \in Home[t]
    BY <2>1, <2>2 DEF SelfIPsOf
  <2>4. ~ (s \in Fixed /\ t \in Fixed)
    BY <2>1, <2>2, <2>3, ConfigurationAssumption DEF Fixed
  <2>. QED
    BY <2>1, <2>2, <2>3, <2>4
<1>. QED
  BY <1>1, Invariance, PTL
=============================================================================
