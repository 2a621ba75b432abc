----------------------- MODULE AddressOwnershipProofs -----------------------
(***************************************************************************)
(* What AddressOwnership promises, and with it every provider that is      *)
(* shown to implement it.                                                  *)
(***************************************************************************)
EXTENDS AddressOwnership, TLAPS

\* A claim outlives every step that leaves its address nowhere.
LEMMA ClaimKept ==
  ASSUME Nowhere \notin Devices, TypeOK, Next,
         NEW a \in Addresses, Claimed(a), owner'[a] = Nowhere
  PROVE  Claimed(a)'
<1>1. PICK c \in claims : c.address = a
  BY DEF Claimed
<1>2. c.device \in Devices
  BY DEF TypeOK, Claim
<1>3. c \in claims'
  BY <1>1, <1>2 DEF Next
<1>. QED
  BY <1>1, <1>3 DEF Claimed

\* Typing and NoneForgotten are inductive together.
LEMMA Inductive ==
  ASSUME Nowhere \notin Devices, TypeOK, NoneForgotten, [Next]_<<owner, claims>>
  PROVE  TypeOK' /\ NoneForgotten'
<1>1. CASE UNCHANGED <<owner, claims>>
  BY <1>1 DEF TypeOK, NoneForgotten, Claimed
<1>2. CASE Next
  <2>1. TypeOK'
    BY <1>2 DEF Next, TypeOK
  <2>2. ASSUME NEW a \in Addresses, owner'[a] = Nowhere PROVE Claimed(a)'
    <3>1. ~ Arrives(a)
      BY <2>2 DEF Arrives, TypeOK, Claim
    <3>2. Claimed(a)
      BY <1>2, <2>2, <3>1 DEF Next, Stays, Leaves, NoneForgotten
    <3>. QED
      BY <1>2, <2>2, <3>2, ClaimKept
  <2>. QED
    BY <2>1, <2>2 DEF NoneForgotten
<1>. QED
  BY <1>1, <1>2

\* No address is forgotten, as long as "nowhere" is not a device: an address
\* that no device has is claimed by a task that still has to bring it, or
\* could not.
THEOREM NothingForgotten ==
  ASSUME Nowhere \notin Devices
  PROVE  Spec => []NoneForgotten
<1>. DEFINE Inv == TypeOK /\ NoneForgotten
<1>1. Init => Inv
  BY DEF Init, TypeOK, NoneForgotten
<1>2. Inv /\ [Next]_<<owner, claims>> => Inv'
  BY Inductive
<1>. QED
  BY <1>1, <1>2, PTL DEF Spec
=============================================================================
