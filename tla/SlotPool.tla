------------------------------- MODULE SlotPool -------------------------------
(***************************************************************************)
(* What core/ipam.py promises to its callers: a pool of MaxSlots numbered  *)
(* slots with one caller at a time.  An instance without a slot gets the   *)
(* lowest one that nobody has booked, keeps it however often it asks again *)
(* and gives it back; a booking is made and dropped at one instant between *)
(* call and return.  Two things are visible of the file behind the pool:   *)
(* from that instant to the end of the write a peek finds an empty pool,   *)
(* and a caller that dies then takes all bookings with it.  A caller that  *)
(* dies elsewhere leaves a booking nobody was told of, or none.            *)
(***************************************************************************)
EXTENDS Integers

CONSTANTS Procs, NoProc, Instances, MaxSlots

VARIABLES booked,   \* the slot of each instance, NoSlot for none
          granted,  \* the slot it was told and may use
          caller,   \* the process in a call, or NoProc
          stage,    \* where its call is
          inst,     \* the instance of each process's call
          peeked    \* what each process's last peek returned

NoSlot == -1
Slots == 0..(MaxSlots - 1)
Empty == [i \in Instances |-> NoSlot]

Init == /\ booked = Empty
        /\ granted = Empty
        /\ caller = NoProc /\ stage = "idle"
        /\ inst \in [Procs -> Instances]
        /\ peeked = [p \in Procs |-> [inst |-> "none"]]

Taken(m) == {m[j] : j \in Instances}
Lowest(m) == {s \in Slots \ Taken(m) : \A t \in 0..(s - 1) : t \in Taken(m)}

\* Who releases a slot has stopped using it.
Ask(p, i, op) ==
  /\ caller = NoProc
  /\ caller' = p /\ stage' = op
  /\ inst' = [inst EXCEPT ![p] = i]
  /\ granted' = IF op = "release" THEN [granted EXCEPT ![i] = NoSlot] ELSE granted
  /\ UNCHANGED <<booked, peeked>>

Moves(from, to) == stage = from /\ stage' = to /\ UNCHANGED <<caller, inst, granted, peeked>>

Find == /\ booked[inst[caller]] # NoSlot
        /\ Moves("allocate", "granting")
        /\ UNCHANGED booked

Exhausted == /\ booked[inst[caller]] = NoSlot /\ Lowest(booked) = {}
             /\ Moves("allocate", "exhausted")
             /\ UNCHANGED booked

Book == /\ booked[inst[caller]] = NoSlot
        /\ \E s \in Lowest(booked) : booked' = [booked EXCEPT ![inst[caller]] = s]
        /\ Moves("allocate", "booking")

Drop == /\ booked' = [booked EXCEPT ![inst[caller]] = NoSlot]
        /\ Moves("release", "dropping")

Written == /\ Moves("booking", "granting") \/ Moves("dropping", "released")
           /\ UNCHANGED booked

Return ==
  /\ stage \in {"granting", "exhausted", "released"}
  /\ granted' = IF stage = "granting"
                THEN [granted EXCEPT ![inst[caller]] = booked[inst[caller]]] ELSE granted
  /\ caller' = NoProc /\ stage' = "idle"
  /\ UNCHANGED <<booked, inst, peeked>>

Writing == stage \in {"booking", "dropping"}

Peek(p, i) ==
  LET m == IF Writing THEN Empty ELSE booked IN
  /\ p # caller
  /\ \/ /\ m[i] # NoSlot
        /\ peeked' = [peeked EXCEPT ![p] = [inst |-> i, slot |-> m[i], existing |-> TRUE]]
     \/ /\ m[i] = NoSlot
        /\ \E s \in Lowest(m) :
             peeked' = [peeked EXCEPT ![p] = [inst |-> i, slot |-> s, existing |-> FALSE]]
  /\ UNCHANGED <<booked, granted, caller, stage, inst>>

Die == /\ caller # NoProc
       /\ caller' = NoProc /\ stage' = "idle"
       /\ booked' = IF Writing THEN Empty ELSE booked
       /\ UNCHANGED <<granted, inst, peeked>>

Next == \/ \E p \in Procs, i \in Instances : \/ \E op \in {"allocate", "release"} : Ask(p, i, op)
                                             \/ Peek(p, i)
        \/ Find \/ Exhausted \/ Book \/ Drop \/ Written \/ Return \/ Die

Spec == Init /\ [][Next]_<<booked, granted, caller, stage, inst, peeked>>
=============================================================================
