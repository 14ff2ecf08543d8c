------------------------------ MODULE SubnetWalk ------------------------------
(***************************************************************************)
(* derive_subnets against a reference that does no division: an odometer   *)
(* that starts at 10.100.0.0/24 and counts the third octet up, carrying    *)
(* into the second, and hands the networks out in order, five to a slot.   *)
(***************************************************************************)
EXTENDS Subnets

VARIABLES slot,   \* the slot being handed out
          net,    \* which of its networks
          octets  \* the odometer

vars == <<slot, net, octets>>

Init == slot = 0 /\ net = 0 /\ octets = <<100, 0>>

Count == octets' = IF octets[2] = 255 THEN <<octets[1] + 1, 0>>
                                      ELSE <<octets[1], octets[2] + 1>>

NextNet == net < 4 /\ net' = net + 1 /\ slot' = slot /\ Count

NextSlot == net = 4 /\ slot < MAX_SLOTS - 1 /\ slot' = slot + 1 /\ net' = 0 /\ Count

Next == NextNet \/ NextSlot

Spec == Init /\ [][Next]_vars

\* The formula of derive_subnets is the plain enumeration of the networks, and
\* the last slot's last network is still inside the address space.
MatchesOdometer == Subnet(slot, net) = octets

\* The slot's networks belong to no other slot.
SlotRecovered == Recovers(slot)
=============================================================================
