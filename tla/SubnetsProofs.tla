---------------------------- MODULE SubnetsProofs ----------------------------
(***************************************************************************)
(* Proofs about the address arithmetic of core/ipam.py: what TLC sees slot *)
(* by slot, for all slots, and for all pairs of slots.                     *)
(***************************************************************************)
EXTENDS SubnetWalk, TLAPS

\* Dividing a network's number by 256 stays within the octets.
LEMMA OctetBounds ==
  ASSUME NEW n \in Int, 0 <= n, n <= 39934
  PROVE  /\ (n \div 256) \in Int /\ 0 <= (n \div 256) /\ (n \div 256) <= 155
         /\ (n % 256) \in Int /\ 0 <= (n % 256) /\ (n % 256) <= 255
  BY Z3

\* Every network of every slot is a network of the reserved address space.
THEOREM SubnetsInRange == \A b \in Slots : InRange(b)
<1> TAKE b \in Slots
<1>1. ASSUME NEW i \in Nets PROVE Subnet(b, i) \in (100..255) \X (0..255)
  <2>1. PICK n \in Int : n = b * 5 + i /\ 0 <= n /\ n <= 39934
    BY DEF Slots, MAX_SLOTS, Nets
  <2>2. Subnet(b, i) = <<100 + (n \div 256), n % 256>>
    BY <2>1 DEF Subnet
  <2>3. 100 + (n \div 256) \in 100..255 /\ n % 256 \in 0..255
    BY <2>1, OctetBounds
  <2> QED
    BY <2>2, <2>3
<1> QED
  BY <1>1 DEF InRange

\* A network's position in the address space determines slot and place.
LEMMA RoundTrip ==
  ASSUME NEW n \in Nat
  PROVE  ((100 + (n \div 256)) - 100) * 256 + (n % 256) = n
  OBVIOUS

\* Every network computes back to the slot and place it was derived from.
THEOREM SubnetsRecover == \A b \in Slots : Recovers(b)
<1> TAKE b \in Slots
<1>1. ASSUME NEW i \in Nets
      PROVE  LET s == Subnet(b, i)
                 n == (s[1] - 100) * 256 + s[2]
             IN  n \div 5 = b /\ n % 5 = i
  <2> DEFINE m == b * 5 + i
  <2>1. m \in Nat /\ m \div 5 = b /\ m % 5 = i
    BY DEF Slots, MAX_SLOTS, Nets
  <2>2. (Subnet(b, i)[1] - 100) * 256 + Subnet(b, i)[2] = m
    BY <2>1, RoundTrip DEF Subnet
  <2> QED
    BY <2>1, <2>2
<1> QED
  BY <1>1 DEF Recovers

\* Two different slots, or two different places, never get the same network:
\* the instances of one user share no subnet as long as their slots differ.
THEOREM SubnetsDisjoint ==
  \A b, c \in Slots : \A i, j \in Nets :
    Subnet(b, i) = Subnet(c, j) => b = c /\ i = j
<1> TAKE b, c \in Slots
<1> TAKE i, j \in Nets
<1> HAVE Subnet(b, i) = Subnet(c, j)
<1> DEFINE n == (Subnet(b, i)[1] - 100) * 256 + Subnet(b, i)[2]
<1>1. n \div 5 = b /\ n % 5 = i
  BY SubnetsRecover DEF Recovers
<1>2. n \div 5 = c /\ n % 5 = j
  BY SubnetsRecover DEF Recovers
<1> QED
  BY <1>1, <1>2

\* Containers of any instances share an address only if they are one
\* container of one instance on one network.
THEOREM AddressesDisjoint ==
  \A b, c \in Slots : \A h, k \in StaticHosts :
    StaticIp(b, h) = StaticIp(c, k) => b = c /\ h = k
<1> TAKE b, c \in Slots
<1> TAKE h, k \in StaticHosts
<1> HAVE StaticIp(b, h) = StaticIp(c, k)
<1>1. /\ h[2] \in Nets /\ k[2] \in Nets
      /\ h[3] \in Nat /\ k[3] \in Nat
      /\ h = <<h[1], h[2], h[3]>> /\ k = <<k[1], k[2], k[3]>>
  BY DEF StaticHosts, Nets, Isolated, CoreProxy, Dns, Egress, Ipc
<1>2. /\ Subnet(b, h[2])[1] = Subnet(c, k[2])[1]
      /\ Subnet(b, h[2])[2] = Subnet(c, k[2])[2]
      /\ h[3] = k[3]
  BY DEF StaticIp
<1>3. Subnet(b, h[2]) = Subnet(c, k[2])
  BY <1>2 DEF Subnet
<1>4. b = c /\ h[2] = k[2]
  BY <1>1, <1>3, SubnetsDisjoint
<1>5. h = k
  BY <1>2, <1>4 DEF StaticHosts, Isolated, CoreProxy, Dns, Egress, Ipc
<1> QED
  BY <1>4, <1>5

-----------------------------------------------------------------------------
(* The walk through all slots. *)

WalkInv == slot \in Slots /\ net \in Nets /\ MatchesOdometer

\* Counting a number up by one turns its two octets as the odometer turns them.
LEMMA Carry ==
  ASSUME NEW n \in Nat
  PROVE  /\ n % 256 = 255 => (n + 1) \div 256 = (n \div 256) + 1 /\ (n + 1) % 256 = 0
         /\ n % 256 # 255 => (n + 1) \div 256 = n \div 256 /\ (n + 1) % 256 = (n % 256) + 1
  BY Z3

\* The walk starts at slot 0 with the first network of the address space.
LEMMA WalkInit == Init => WalkInv
<1>1. 0 \div 256 = 0 /\ 0 % 256 = 0
  BY Z3
<1> QED
  BY <1>1 DEF Init, WalkInv, MatchesOdometer, Subnet, Slots, MAX_SLOTS, Nets

\* A turn of the odometer is the next network of the slot, or the next slot's first.
LEMMA WalkStep == WalkInv /\ [Next]_vars => WalkInv'
<1> SUFFICES ASSUME WalkInv, [Next]_vars PROVE WalkInv'
  OBVIOUS
<1>1. CASE UNCHANGED vars
  BY <1>1 DEF vars, WalkInv, MatchesOdometer
<1>2. ASSUME Next PROVE WalkInv'
  <2>1. PICK n \in Nat : n = slot * 5 + net
    BY DEF WalkInv, Slots, MAX_SLOTS, Nets
  <2>2. octets = <<100 + (n \div 256), n % 256>>
    BY <2>1 DEF WalkInv, MatchesOdometer, Subnet
  <2>a. Count
    BY <1>2, Zenon DEF Next, NextNet, NextSlot
  <2>b. \/ net < 4 /\ net' = net + 1 /\ slot' = slot
        \/ net = 4 /\ slot < MAX_SLOTS - 1 /\ slot' = slot + 1 /\ net' = 0
    BY <1>2, Zenon DEF Next, NextNet, NextSlot
  <2>3. /\ slot' \in Slots /\ net' \in Nets
        /\ slot' * 5 + net' = n + 1
    <3>1. slot \in Int /\ 0 <= slot /\ slot <= 7986 /\ net \in Int /\ 0 <= net /\ net <= 4
      BY DEF WalkInv, Slots, MAX_SLOTS, Nets
    <3>2. CASE net < 4 /\ net' = net + 1 /\ slot' = slot
      BY <2>1, <3>1, <3>2 DEF Slots, MAX_SLOTS, Nets
    <3>3. CASE net = 4 /\ slot < MAX_SLOTS - 1 /\ slot' = slot + 1 /\ net' = 0
      BY <2>1, <3>1, <3>3 DEF Slots, MAX_SLOTS, Nets
    <3> QED
      BY <2>b, <3>2, <3>3
  <2>4. Subnet(slot, net)' = <<100 + ((n + 1) \div 256), (n + 1) % 256>>
    BY <2>3 DEF Subnet
  <2>5. n \div 256 \in Int /\ n % 256 \in Int
    OBVIOUS
  <2>6. octets' = <<100 + ((n + 1) \div 256), (n + 1) % 256>>
    BY <2>2, <2>a, <2>5, Carry DEF Count
  <2> QED
    BY <2>3, <2>4, <2>6 DEF WalkInv, MatchesOdometer
<1> QED
  BY <1>1, <1>2

\* The networks that derive_subnets computes are the odometer's, in its order.
THEOREM WalkMatches == Spec => []MatchesOdometer
<1>1. WalkInv => MatchesOdometer
  BY DEF WalkInv
<1> QED
  BY WalkInit, WalkStep, <1>1, PTL DEF Spec

\* On the whole walk, the slot's networks are its own.
THEOREM WalkRecovers == Spec => []SlotRecovered
<1>1. Spec => []WalkInv
  BY WalkInit, WalkStep, PTL DEF Spec
<1>2. WalkInv => SlotRecovered
  BY SubnetsRecover DEF SlotRecovered, WalkInv
<1> QED
  BY <1>1, <1>2, PTL
=============================================================================
