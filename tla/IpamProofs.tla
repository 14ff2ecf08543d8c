------------------------------ MODULE IpamProofs ------------------------------
(***************************************************************************)
(* Proofs about Ipam for any processes, instances and number of slots.     *)
(*                                                                         *)
(* Whoever dies where, Inv is inductive: the flock serialises the calls    *)
(* and no ledger ever holds a slot twice.  On top of it, Copies says what  *)
(* the copy of the lock's holder has to do with the file; it makes every   *)
(* step one of the slot pool.  GrantsBooked ties the slots in use to the   *)
(* pool until a rewrite is cut short, and before the first death the two   *)
(* are the same (LedgerTracksGrants).                                      *)
(***************************************************************************)
EXTENDS Ipam, TLAPS

Inv == TypeOK /\ LockMatchesControl /\ LedgerInjective

\* What a reader loads is a map, and no slot is in it twice.
LEMMA LoadedOK ==
  ASSUME TypeOK
  PROVE  /\ Loaded(file, EmptyMap) \in Maps
         /\ LedgerInjective => Injective(Loaded(file, EmptyMap))
  BY DEF TypeOK, Files, Loaded, EmptyMap, Maps, LedgerInjective, Injective, NoSlot

\* The candidate of the scan is a slot that no entry has.
LEMMA LowestFreeOK ==
  ASSUME NEW m \in Maps, NEW s \in LowestFree(m)
  PROVE  s \in Slots /\ \A i \in Instances : m[i] # s
  BY DEF LowestFree, UsedIndices, Slots, NoSlot, Maps

\* Adding the scan's candidate for one instance keeps a map a map without duplicates.
LEMMA ExtendOK ==
  ASSUME NEW m \in Maps, NEW i \in Instances, NEW s \in LowestFree(m)
  PROVE  /\ [m EXCEPT ![i] = s] \in Maps
         /\ Injective(m) => Injective([m EXCEPT ![i] = s])
  BY LowestFreeOK DEF Maps, Injective

\* So does removing an instance.
LEMMA RemoveOK ==
  ASSUME NEW m \in Maps, NEW i \in Instances
  PROVE  /\ [m EXCEPT ![i] = NoSlot] \in Maps
         /\ Injective(m) => Injective([m EXCEPT ![i] = NoSlot])
  BY DEF Maps, Injective

\* No file, nothing granted, nobody holding the lock.
LEMMA InitInv == Init => Inv
<1> SUFFICES ASSUME Init PROVE Inv
  OBVIOUS
<1>1. EmptyMap \in Maps /\ Injective(EmptyMap)
  BY DEF EmptyMap, Maps, Injective
<1>2. TypeOK
  BY <1>1, IpamAssumption
  DEF Init, TypeOK, Absent, Files, PCs, LockedPCs, NoPeek, Peeks
<1>3. LockMatchesControl
  BY IpamAssumption DEF Init, LockMatchesControl, LockedPCs
<1>4. LedgerInjective
  BY <1>1 DEF Init, LedgerInjective, Absent, LockedPCs
<1> QED
  BY <1>2, <1>3, <1>4 DEF Inv

\* Every step of every call, and every crash, keeps the types.
LEMMA TypeStep == TypeOK /\ [Next]_vars => TypeOK'
<1> SUFFICES ASSUME TypeOK, [Next]_vars PROVE TypeOK'
  OBVIOUS
<1>0. EmptyMap \in Maps
  BY DEF EmptyMap, Maps
<1> USE IpamAssumption DEF TypeOK, Goto, PCs, LockedPCs, deaths
<1>1. CASE UNCHANGED vars
  BY <1>1 DEF vars
<1>2. ASSUME NEW p \in Procs, NEW i \in Instances, AllocLock(p, i) \/ ReleaseLock(p, i)
      PROVE TypeOK'
  <2>1. CASE AllocLock(p, i)
    BY <2>1 DEF AllocLock
  <2>2. CASE ReleaseLock(p, i)
    BY <2>2, RemoveOK DEF ReleaseLock
  <2> QED
    BY <1>2, <2>1, <2>2
<1>3. ASSUME NEW p \in Procs, NEW i \in Instances, Peek(p, i) PROVE TypeOK'
  <2> DEFINE l == Loaded(file, EmptyMap)
  <2>1. l \in Maps
    BY LoadedOK
  <2>2. PICK v \in Peeks : peeked' = [peeked EXCEPT ![p] = v]
    <3> HIDE DEF l
    <3>1. CASE l[i] # NoSlot
      <4>1. [inst |-> i, slot |-> l[i], existing |-> TRUE] \in Peeks
        BY <3>1, <2>1 DEF Maps, Peeks
      <4> QED
        BY <4>1, <3>1, <1>3 DEF Peek, l
    <3>2. CASE l[i] = NoSlot
      <4>1. PICK s \in LowestFree(l) :
              peeked' = [peeked EXCEPT ![p] = [inst |-> i, slot |-> s, existing |-> FALSE]]
        BY <3>2, <1>3 DEF Peek, l
      <4>2. [inst |-> i, slot |-> s, existing |-> FALSE] \in Peeks
        BY <2>1, LowestFreeOK DEF Peeks
      <4> QED
        BY <4>1, <4>2
    <3> QED
      BY <3>1, <3>2
  <2> QED
    BY <1>3, <2>2 DEF Peek
<1>4. ASSUME NEW p \in Procs, AllocLoad(p) PROVE TypeOK'
  <2>1. PICK m \in Maps : data' = [data EXCEPT ![p] = m]
    BY <1>4, LoadedOK, ExtendOK DEF AllocLoad
  <2> QED
    BY <1>4, <2>1 DEF AllocLoad
<1>5. ASSUME NEW p \in Procs,
             \/ AllocTruncate(p) \/ AllocWrite(p) \/ ReleaseTruncate(p) \/ ReleaseWrite(p)
      PROVE TypeOK'
  BY <1>0, <1>5 DEF AllocTruncate, AllocWrite, ReleaseTruncate, ReleaseWrite, Truncate, Write,
                    Torn, Whole, Files
<1>6. ASSUME NEW p \in Procs, AllocReturn(p) PROVE TypeOK'
  BY <1>0, <1>6 DEF AllocReturn, Maps
<1>7. ASSUME NEW p \in Procs, ReleaseLoad(p) PROVE TypeOK'
  BY <1>7, LoadedOK, RemoveOK DEF ReleaseLoad
<1>8. ASSUME NEW p \in Procs, AllocExhausted(p) \/ ReleaseReturn(p) PROVE TypeOK'
  BY <1>0, <1>8 DEF AllocExhausted, ReleaseReturn
<1>9. ASSUME NEW p \in Procs, Crash(p) PROVE TypeOK'
  <2>1. cut' \in BOOLEAN
    BY <1>9, Zenon DEF Crash
  <2> QED
    BY <1>0, <1>9, <2>1 DEF Crash
<1> QED
  BY <1>1, <1>2, <1>3, <1>4, <1>5, <1>6, <1>7, <1>8, <1>9 DEF Next, Call, Allocating, Releasing

\* The flock follows the control points.
LEMMA LockStep == TypeOK /\ LockMatchesControl /\ [Next]_vars => LockMatchesControl'
<1> SUFFICES ASSUME TypeOK, LockMatchesControl, [Next]_vars PROVE LockMatchesControl'
  OBVIOUS
<1> USE IpamAssumption DEF TypeOK, LockMatchesControl, Goto, LockedPCs
<1>1. CASE UNCHANGED vars
  BY <1>1 DEF vars
<1>2. ASSUME NEW p \in Procs, Call(p) PROVE LockMatchesControl'
  <2>1. CASE \E i \in Instances : AllocLock(p, i) \/ ReleaseLock(p, i)
    BY <2>1 DEF AllocLock, ReleaseLock
  <2>2. CASE \E i \in Instances : Peek(p, i)
    <3>1. UNCHANGED <<lock, pc>>
      BY <2>2, Zenon DEF Peek
    <3> QED
      BY <3>1
  <2> QED
    BY <1>2, <2>1, <2>2 DEF Call
<1>3. ASSUME NEW p \in Procs, Allocating(p) PROVE LockMatchesControl'
  <2>1. CASE AllocLoad(p)
    <3>1. /\ lock' = lock /\ pc[p] = "alloc_load"
          /\ \/ pc' = [pc EXCEPT ![p] = "alloc_return"]
             \/ pc' = [pc EXCEPT ![p] = "alloc_truncate"]
             \/ pc' = [pc EXCEPT ![p] = "exhausted"]
      BY <2>1, Zenon DEF AllocLoad
    <3> QED
      BY <3>1
  <2>2. CASE AllocTruncate(p) \/ AllocWrite(p)
    BY <2>2 DEF AllocTruncate, AllocWrite, Truncate, Write
  <2>3. CASE AllocReturn(p) \/ AllocExhausted(p)
    BY <2>3 DEF AllocReturn, AllocExhausted
  <2> QED
    BY <1>3, <2>1, <2>2, <2>3 DEF Allocating
<1>4. ASSUME NEW p \in Procs, Releasing(p) PROVE LockMatchesControl'
  BY <1>4 DEF Releasing, ReleaseLoad, ReleaseTruncate, ReleaseWrite, ReleaseReturn,
              Truncate, Write
<1>5. ASSUME NEW p \in Procs, Crash(p) PROVE LockMatchesControl'
  BY <1>5 DEF Crash, PCs
<1> QED
  BY <1>1, <1>2, <1>3, <1>4, <1>5 DEF Next

\* No copy and no file gets a duplicate.
LEMMA InjectiveStep == TypeOK /\ LedgerInjective /\ [Next]_vars => LedgerInjective'
<1> SUFFICES ASSUME TypeOK, LedgerInjective, [Next]_vars PROVE LedgerInjective'
  OBVIOUS
<1>0. EmptyMap \in Maps /\ Injective(EmptyMap)
  BY DEF EmptyMap, Maps, Injective
<1>l. Loaded(file, EmptyMap) \in Maps /\ Injective(Loaded(file, EmptyMap))
  BY LoadedOK
<1> USE DEF TypeOK, LedgerInjective, Goto, LockedPCs
<1>1. CASE UNCHANGED vars
  BY <1>1 DEF vars
<1>2. ASSUME NEW p \in Procs, Call(p) PROVE LedgerInjective'
  BY <1>2 DEF Call, AllocLock, ReleaseLock, Peek
<1>3. ASSUME NEW p \in Procs, AllocLoad(p) PROVE LedgerInjective'
  <2>1. PICK m \in Maps : data' = [data EXCEPT ![p] = m] /\ Injective(m)
    BY <1>3, <1>l, ExtendOK DEF AllocLoad
  <2> QED
    BY <1>3, <2>1 DEF AllocLoad
<1>4. ASSUME NEW p \in Procs, ReleaseLoad(p) PROVE LedgerInjective'
  <2>1. PICK m \in Maps : data' = [data EXCEPT ![p] = m] /\ Injective(m)
    BY <1>4, <1>l, RemoveOK DEF ReleaseLoad
  <2> QED
    BY <1>4, <2>1 DEF ReleaseLoad
<1>5. ASSUME NEW p \in Procs, AllocTruncate(p) \/ ReleaseTruncate(p) PROVE LedgerInjective'
  BY <1>0, <1>5 DEF AllocTruncate, ReleaseTruncate, Truncate, Torn
<1>6. ASSUME NEW p \in Procs, AllocWrite(p) \/ ReleaseWrite(p) PROVE LedgerInjective'
  BY <1>6 DEF AllocWrite, ReleaseWrite, Write, Whole
<1>7. ASSUME NEW p \in Procs,
             AllocReturn(p) \/ AllocExhausted(p) \/ ReleaseReturn(p) \/ Crash(p)
      PROVE LedgerInjective'
  BY <1>7 DEF AllocReturn, AllocExhausted, ReleaseReturn, Crash
<1> QED
  BY <1>1, <1>2, <1>3, <1>4, <1>5, <1>6, <1>7 DEF Next, Allocating, Releasing

\* Types, the flock and injectivity hold whatever crashes happen.
THEOREM Invariance == Spec => []Inv
<1>1. Inv /\ [Next]_vars => Inv'
  BY TypeStep, LockStep, InjectiveStep DEF Inv
<1> QED
  BY InitInv, <1>1, PTL DEF Spec

\* No ledger that is on disk, or about to be, gives a slot to two instances.
THEOREM NoDuplicateInLedger == Spec => []LedgerInjective
  BY Invariance, PTL DEF Inv

-----------------------------------------------------------------------------
(* Before the first death: crashes = 0. *)

\* Only a death counts as one.
LEMMA CrashesStep ==
  ASSUME TypeOK, [Next]_vars
  PROVE  crashes' = crashes \/ \E p \in Procs : Crash(p) /\ crashes' = crashes + 1
<1>1. CASE UNCHANGED vars
  BY <1>1 DEF vars, deaths
<1>2. ASSUME NEW p \in Procs, Call(p) PROVE crashes' = crashes
  BY <1>2, Zenon DEF Call, AllocLock, ReleaseLock, Peek, deaths
<1>3. ASSUME NEW p \in Procs, Allocating(p) PROVE crashes' = crashes
  BY <1>3, Zenon DEF Allocating, AllocLoad, AllocTruncate, AllocWrite, AllocReturn,
     AllocExhausted, Truncate, Write, deaths
<1>4. ASSUME NEW p \in Procs, Releasing(p) PROVE crashes' = crashes
  BY <1>4, Zenon DEF Releasing, ReleaseLoad, ReleaseTruncate, ReleaseWrite, ReleaseReturn,
     Truncate, Write, deaths
<1>5. ASSUME NEW p \in Procs, Crash(p) PROVE crashes' = crashes + 1
  BY <1>5 DEF Crash
<1> QED
  BY <1>1, <1>2, <1>3, <1>4, <1>5 DEF Next

\* The lock's holder takes the step that its control point names; everyone else is idle.
LEMMA TracksStep ==
  ASSUME Inv, Tracks, crashes' = 0, [Next]_vars
  PROVE  Tracks'
<1> DEFINE l == Loaded(file, EmptyMap)
<1>l. l \in Maps
  BY LoadedOK DEF Inv
<1>c. \A p \in Procs : ~ Crash(p)
  BY DEF Crash, Inv, TypeOK
<1>x. \A p, q \in Procs : pc[p] \in LockedPCs /\ pc[q] \in LockedPCs => p = q
  BY DEF Inv, LockMatchesControl
<1>i. \A p \in Procs : lock = NoProc => pc[p] \notin LockedPCs
  BY IpamAssumption DEF Inv, LockMatchesControl
<1> USE DEF Inv, TypeOK
<1> HIDE DEF l
<1>1. CASE UNCHANGED vars
  BY <1>1 DEF vars, Tracks, NewGrant
<1>2. ASSUME NEW p \in Procs, NEW i \in Instances, AllocLock(p, i) PROVE Tracks'
  BY <1>2, <1>i, IpamAssumption DEF AllocLock, Tracks, Goto, LockedPCs
<1>3. ASSUME NEW p \in Procs, NEW i \in Instances, ReleaseLock(p, i) PROVE Tracks'
  BY <1>3, <1>i, <1>l, IpamAssumption DEF ReleaseLock, Tracks, Goto, LockedPCs, l
<1>4. ASSUME NEW p \in Procs, NEW i \in Instances, Peek(p, i) PROVE Tracks'
  <2>1. UNCHANGED <<file, lock, pc, inst, data, granted>>
    BY <1>4, Zenon DEF Peek
  <2> QED
    BY <2>1 DEF Tracks, NewGrant
<1>5. ASSUME NEW p \in Procs, AllocLoad(p) PROVE Tracks'
  <2>1. l = granted
    BY <1>5 DEF AllocLoad, Tracks, Goto, l
  <2>2. UNCHANGED <<file, lock, inst, granted>> /\ lock = p /\ pc[p] = "alloc_load"
    BY <1>5 DEF AllocLoad, Goto, LockMatchesControl, LockedPCs
  <2>3. \A q \in Procs \ {p} : pc'[q] = pc[q] /\ pc[q] \notin LockedPCs
    BY <1>5, <1>x, <2>2 DEF AllocLoad, Goto, LockedPCs
  <2>4. \/ pc'[p] \in {"alloc_return", "exhausted"} /\ data'[p] = l
        \/ /\ pc'[p] = "alloc_truncate" /\ l[inst[p]] = NoSlot
           /\ \E s \in LowestFree(l) : data'[p] = [l EXCEPT ![inst[p]] = s]
    BY <1>5 DEF AllocLoad, Goto, l
  <2>5. l' = l
    BY <2>2 DEF l
  <2>6. pc'[p] = "alloc_truncate" => NewGrant(p)'
    BY <2>1, <2>2, <2>4 DEF NewGrant
  <2> QED
    BY <2>1, <2>2, <2>3, <2>4, <2>5, <2>6, IpamAssumption
    DEF Tracks, LockedPCs, l
<1>6. ASSUME NEW p \in Procs, AllocTruncate(p) PROVE Tracks'
  BY <1>6, <1>x, IpamAssumption
  DEF AllocTruncate, Truncate, Tracks, NewGrant, Goto, LockedPCs, LockMatchesControl
<1>7. ASSUME NEW p \in Procs, AllocWrite(p) PROVE Tracks'
  BY <1>7, <1>x, IpamAssumption
  DEF AllocWrite, Write, Whole, Loaded, Tracks, NewGrant, Goto, LockedPCs,
      LockMatchesControl
<1>8. ASSUME NEW p \in Procs, AllocReturn(p) PROVE Tracks'
  <2>1. l = data[p] /\ (data[p] = granted \/ NewGrant(p))
    BY <1>8 DEF AllocReturn, Tracks, Goto, l
  <2>2. granted' = data[p]
    BY <1>8, <2>1 DEF AllocReturn, NewGrant, Maps
  <2>3. l' = l
    BY <1>8 DEF AllocReturn, l
  <2>4. \A q \in Procs : pc'[q] \notin LockedPCs
    BY <1>8, <1>x DEF AllocReturn, Goto, LockedPCs
  <2> QED
    BY <2>1, <2>2, <2>3, <2>4 DEF Tracks, LockedPCs, l
<1>9. ASSUME NEW p \in Procs, AllocExhausted(p) \/ ReleaseReturn(p) PROVE Tracks'
  <2>1. l = granted /\ UNCHANGED <<file, granted>>
    BY <1>9 DEF AllocExhausted, ReleaseReturn, Tracks, Goto, l
  <2>2. \A q \in Procs : pc'[q] \notin LockedPCs
    BY <1>9, <1>x DEF AllocExhausted, ReleaseReturn, Goto, LockedPCs
  <2> QED
    BY <2>1, <2>2 DEF Tracks, LockedPCs, l
<1>10. ASSUME NEW p \in Procs, ReleaseLoad(p) PROVE Tracks'
  BY <1>10, <1>x, IpamAssumption
  DEF ReleaseLoad, Tracks, Goto, LockedPCs, LockMatchesControl
<1>11. ASSUME NEW p \in Procs, ReleaseTruncate(p) PROVE Tracks'
  BY <1>11, <1>x, IpamAssumption
  DEF ReleaseTruncate, Truncate, Tracks, Goto, LockedPCs, LockMatchesControl
<1>12. ASSUME NEW p \in Procs, ReleaseWrite(p) PROVE Tracks'
  BY <1>12, <1>x, IpamAssumption
  DEF ReleaseWrite, Write, Whole, Loaded, Tracks, Goto, LockedPCs, LockMatchesControl
<1> QED
  BY <1>1, <1>2, <1>3, <1>4, <1>5, <1>6, <1>7, <1>8, <1>9, <1>10, <1>11, <1>12, <1>c
  DEF Next, Call, Allocating, Releasing

\* Until a process dies in a call the ledger never forgets and never leaks a slot.
THEOREM LedgerExact == Spec => []LedgerTracksGrants
<1>1. Init => LedgerTracksGrants
  BY DEF Init, LedgerTracksGrants, Tracks, Loaded, Absent
<1>2. Inv /\ LedgerTracksGrants /\ [Next]_vars => LedgerTracksGrants'
  <2> SUFFICES ASSUME Inv, LedgerTracksGrants, [Next]_vars, crashes' = 0 PROVE Tracks'
    BY DEF LedgerTracksGrants
  <2>1. crashes = 0
    BY CrashesStep DEF Inv, TypeOK
  <2> QED
    BY <2>1, TracksStep DEF LedgerTracksGrants
<1> QED
  BY Invariance, <1>1, <1>2, PTL DEF Spec

-----------------------------------------------------------------------------
(* The pool, whoever dies where. *)

\* What the copy of the lock's holder has to do with the file it was made of,
\* and that a file in the gap holds nothing.
Copies ==
  LET l == Loaded(file, EmptyMap) IN
  \A p \in Procs :
    /\ pc[p] = "alloc_truncate" =>
         /\ l[inst[p]] = NoSlot
         /\ \E s \in LowestFree(l) : data[p] = [l EXCEPT ![inst[p]] = s]
    /\ pc[p] = "release_truncate" => data[p] = [l EXCEPT ![inst[p]] = NoSlot]
    /\ pc[p] \in InTheGap => l = EmptyMap
    /\ pc[p] = "alloc_return" => l = data[p]

\* Only the lock's holder changes the file, and it does so after its copy is made.
LEMMA CopiesStep == Inv /\ Copies /\ [Next]_vars => Copies'
<1> SUFFICES ASSUME Inv, Copies, [Next]_vars PROVE Copies'
  OBVIOUS
<1> DEFINE l == Loaded(file, EmptyMap)
<1>x. \A p, q \in Procs : pc[p] \in LockedPCs /\ pc[q] \in LockedPCs => p = q
  BY DEF Inv, LockMatchesControl
<1> USE DEF Inv, TypeOK, InTheGap
<1>1. CASE UNCHANGED vars
  BY <1>1 DEF vars, Copies
<1>2. ASSUME NEW p \in Procs, NEW i \in Instances, AllocLock(p, i) \/ ReleaseLock(p, i)
      PROVE Copies'
  BY <1>2 DEF AllocLock, ReleaseLock, Copies, Goto
<1>3. ASSUME NEW p \in Procs, NEW i \in Instances, Peek(p, i) PROVE Copies'
  <2>1. UNCHANGED <<file, pc, inst, data>>
    BY <1>3, Zenon DEF Peek
  <2> QED
    BY <2>1 DEF Copies
<1>4. ASSUME NEW p \in Procs, AllocLoad(p) PROVE Copies'
  <2>1. UNCHANGED <<file, inst>> /\ pc[p] = "alloc_load"
    BY <1>4 DEF AllocLoad, Goto
  <2>2. \A q \in Procs \ {p} : pc'[q] \notin LockedPCs
    BY <1>4, <1>x DEF AllocLoad, Goto, LockedPCs
  <2>3. \/ pc'[p] \in {"alloc_return", "exhausted"} /\ data'[p] = l
        \/ /\ pc'[p] = "alloc_truncate" /\ l[inst[p]] = NoSlot
           /\ \E s \in LowestFree(l) : data'[p] = [l EXCEPT ![inst[p]] = s]
    BY <1>4 DEF AllocLoad, Goto
  <2> QED
    BY <2>1, <2>2, <2>3 DEF Copies, LockedPCs
<1>5. ASSUME NEW p \in Procs, ReleaseLoad(p) PROVE Copies'
  BY <1>5, <1>x DEF ReleaseLoad, Copies, Goto, LockedPCs
<1>6. ASSUME NEW p \in Procs, AllocTruncate(p) \/ ReleaseTruncate(p) PROVE Copies'
  BY <1>6, <1>x DEF AllocTruncate, ReleaseTruncate, Truncate, Torn, Loaded, Copies, Goto,
     LockedPCs
<1>7. ASSUME NEW p \in Procs, AllocWrite(p) \/ ReleaseWrite(p) PROVE Copies'
  BY <1>7, <1>x DEF AllocWrite, ReleaseWrite, Write, Whole, Loaded, Copies, Goto, LockedPCs
<1>8. ASSUME NEW p \in Procs, AllocReturn(p) \/ AllocExhausted(p) \/ ReleaseReturn(p) \/ Crash(p)
      PROVE Copies'
  <2>1. /\ UNCHANGED <<file, inst>> /\ pc'[p] = "idle"
        /\ \A q \in Procs \ {p} : pc'[q] = pc[q] /\ data'[q] = data[q]
    BY <1>8 DEF AllocReturn, AllocExhausted, ReleaseReturn, Crash, Goto
  <2> QED
    BY <2>1 DEF Copies
<1> QED
  BY <1>1, <1>2, <1>3, <1>4, <1>5, <1>6, <1>7, <1>8 DEF Next, Call, Allocating, Releasing

\* Until a rewrite is cut short, every slot in use is booked for its user, and
\* who releases an instance has nothing granted for it.
GrantsBooked ==
  /\ ~cut => \A i \in Instances : granted[i] # NoSlot => Booked[i] = granted[i]
  /\ \A p \in Procs : pc[p] \in {"release_load", "release_truncate"} => granted[inst[p]] = NoSlot

\* With the holder elsewhere than in the gap, or none, the file is the ledger.
LEMMA OutsideTheGap ==
  ASSUME Inv, \A p \in Procs : lock = p => pc[p] \notin InTheGap
  PROVE  Booked = Loaded(file, EmptyMap)
  BY DEF Inv, TypeOK, Booked

\* A ledger is a map without duplicates in the gap too.
LEMMA BookedOK ==
  ASSUME Inv
  PROVE  Booked \in Maps /\ Injective(Booked)
<1>1. CASE lock # NoProc /\ pc[lock] \in InTheGap
  BY <1>1 DEF Inv, TypeOK, LedgerInjective, Booked, InTheGap, LockedPCs
<1>2. CASE ~(lock # NoProc /\ pc[lock] \in InTheGap)
  BY <1>2, LoadedOK DEF Inv, Booked
<1> QED
  BY <1>1, <1>2

\* What each step of the lock's holder does to the ledger.
LEMMA BookedStep ==
  ASSUME Inv, Inv', Copies, NEW p \in Procs
  PROVE  /\ (\E i \in Instances : AllocLock(p, i) \/ ReleaseLock(p, i)) => Booked' = Booked
         /\ AllocLoad(p) \/ ReleaseLoad(p) => Booked' = Booked
         /\ AllocTruncate(p) \/ ReleaseTruncate(p) =>
              Booked = Loaded(file, EmptyMap) /\ Booked' = data[p]
         /\ AllocWrite(p) \/ ReleaseWrite(p) => Booked = data[p] /\ Booked' = Booked
         /\ AllocReturn(p) \/ AllocExhausted(p) \/ ReleaseReturn(p) =>
              Booked = Loaded(file, EmptyMap) /\ Booked' = Booked
         /\ Crash(p) => Booked' = IF pc[p] \in InTheGap THEN EmptyMap ELSE Booked
<1> USE IpamAssumption DEF Inv, TypeOK, LockMatchesControl, LockedPCs, InTheGap, Goto, Booked
<1>1. ASSUME NEW i \in Instances, AllocLock(p, i) \/ ReleaseLock(p, i) PROVE Booked' = Booked
  BY <1>1 DEF AllocLock, ReleaseLock
<1>2. ASSUME AllocLoad(p) \/ ReleaseLoad(p) PROVE Booked' = Booked
  <2>1. /\ pc[p] \in {"alloc_load", "release_load"} /\ UNCHANGED <<file, lock>>
        /\ pc'[p] \in LockedPCs \ InTheGap
    BY <1>2 DEF AllocLoad, ReleaseLoad
  <2> QED
    BY <2>1
<1>3. ASSUME AllocTruncate(p) \/ ReleaseTruncate(p)
      PROVE Booked = Loaded(file, EmptyMap) /\ Booked' = data[p]
  BY <1>3 DEF AllocTruncate, ReleaseTruncate, Truncate
<1>4. ASSUME AllocWrite(p) \/ ReleaseWrite(p) PROVE Booked = data[p] /\ Booked' = Booked
  BY <1>4 DEF AllocWrite, ReleaseWrite, Write, Whole, Loaded
<1>5. ASSUME AllocReturn(p) \/ AllocExhausted(p) \/ ReleaseReturn(p)
      PROVE Booked = Loaded(file, EmptyMap) /\ Booked' = Booked
  BY <1>5 DEF AllocReturn, AllocExhausted, ReleaseReturn
<1>6. ASSUME Crash(p) PROVE Booked' = IF pc[p] \in InTheGap THEN EmptyMap ELSE Booked
  <2>1. lock' = NoProc /\ file' = file /\ lock = p /\ pc[p] \in LockedPCs
    BY <1>6 DEF Crash, PCs
  <2>2. Booked' = Loaded(file, EmptyMap)
    BY <2>1
  <2> QED
    BY <2>1, <2>2 DEF Copies
<1> QED
  BY <1>1, <1>2, <1>3, <1>4, <1>5, <1>6

\* A booking is made before it is granted, and dropped after its grant is given up.
LEMMA GrantsStep == Inv /\ Inv' /\ Copies /\ GrantsBooked /\ [Next]_vars => GrantsBooked'
<1> SUFFICES ASSUME Inv, Inv', Copies, GrantsBooked, [Next]_vars PROVE GrantsBooked'
  OBVIOUS
<1> DEFINE l == Loaded(file, EmptyMap)
<1>m. Booked \in Maps /\ l \in Maps
  BY BookedOK, LoadedOK DEF Inv
<1>x. \A p, q \in Procs : pc[p] \in LockedPCs /\ pc[q] \in LockedPCs => p = q
  BY DEF Inv, LockMatchesControl
<1>i. \A p \in Procs : lock = NoProc => pc[p] \notin LockedPCs
  BY IpamAssumption DEF Inv, LockMatchesControl
<1> USE DEF Inv, TypeOK, GrantsBooked, deaths
<1>1. CASE UNCHANGED vars
  BY <1>1 DEF vars, Booked
<1>2. ASSUME NEW p \in Procs, NEW i \in Instances, AllocLock(p, i) \/ ReleaseLock(p, i)
      PROVE GrantsBooked'
  <2>1. Booked' = Booked
    BY <1>2, BookedStep
  <2> QED
    BY <1>2, <1>i, <2>1, <1>m DEF AllocLock, ReleaseLock, Goto, LockedPCs, Maps
<1>3. ASSUME NEW p \in Procs, NEW i \in Instances, Peek(p, i) PROVE GrantsBooked'
  <2>1. UNCHANGED <<file, lock, pc, inst, data, granted, cut>>
    BY <1>3, Zenon DEF Peek, deaths
  <2> QED
    BY <2>1 DEF Booked
<1>4. ASSUME NEW p \in Procs, AllocLoad(p) \/ ReleaseLoad(p) PROVE GrantsBooked'
  <2>1. Booked' = Booked
    BY <1>4, BookedStep
  <2>2. UNCHANGED <<inst, granted, cut>>
    BY <1>4, Zenon DEF AllocLoad, ReleaseLoad, deaths
  <2>3. /\ \A q \in Procs \ {p} : pc'[q] = pc[q]
        /\ pc'[p] = "release_truncate" => pc[p] = "release_load"
        /\ pc'[p] # "release_load"
    BY <1>4 DEF AllocLoad, ReleaseLoad, Goto
  <2> QED
    BY <2>1, <2>2, <2>3
<1>5. ASSUME NEW p \in Procs, AllocTruncate(p) PROVE GrantsBooked'
  <2>1. Booked = l /\ Booked' = data[p]
    BY <1>5, BookedStep
  <2>2. /\ l[inst[p]] = NoSlot
        /\ \E s \in LowestFree(l) : data[p] = [l EXCEPT ![inst[p]] = s]
    BY <1>5 DEF AllocTruncate, Truncate, Goto, Copies
  <2>3. UNCHANGED <<inst, granted, cut>> /\ pc' = [pc EXCEPT ![p] = "alloc_write"]
    BY <1>5 DEF AllocTruncate, Truncate, Goto
  <2> QED
    BY <2>1, <2>2, <2>3, <1>m DEF Maps
<1>6. ASSUME NEW p \in Procs, ReleaseTruncate(p) PROVE GrantsBooked'
  <2>1. Booked = l /\ Booked' = data[p]
    BY <1>6, BookedStep
  <2>2. data[p] = [l EXCEPT ![inst[p]] = NoSlot] /\ granted[inst[p]] = NoSlot
    BY <1>6 DEF ReleaseTruncate, Truncate, Goto, Copies
  <2>3. UNCHANGED <<inst, granted, cut>> /\ pc' = [pc EXCEPT ![p] = "release_write"]
    BY <1>6 DEF ReleaseTruncate, Truncate, Goto
  <2> QED
    BY <2>1, <2>2, <2>3, <1>m DEF Maps
<1>7. ASSUME NEW p \in Procs, AllocWrite(p) \/ ReleaseWrite(p) PROVE GrantsBooked'
  <2>1. Booked' = Booked
    BY <1>7, BookedStep
  <2> QED
    BY <1>7, <2>1 DEF AllocWrite, ReleaseWrite, Write, Goto
<1>8. ASSUME NEW p \in Procs, AllocReturn(p) PROVE GrantsBooked'
  <2>1. Booked = l /\ Booked' = Booked /\ l = data[p]
    BY <1>8, BookedStep DEF Copies, AllocReturn, Goto
  <2>2. granted' = [granted EXCEPT ![inst[p]] = Booked[inst[p]]] /\ UNCHANGED <<inst, cut>>
    BY <1>8, <2>1 DEF AllocReturn
  <2>3. \A q \in Procs : pc'[q] \notin LockedPCs
    BY <1>8, <1>x DEF AllocReturn, Goto, LockedPCs
  <2> QED
    BY <2>1, <2>2, <2>3, <1>m DEF LockedPCs, Maps
<1>9. ASSUME NEW p \in Procs, AllocExhausted(p) \/ ReleaseReturn(p) PROVE GrantsBooked'
  <2>1. Booked' = Booked
    BY <1>9, BookedStep
  <2> QED
    BY <1>9, <2>1 DEF AllocExhausted, ReleaseReturn, Goto
<1>10. ASSUME NEW p \in Procs, Crash(p) PROVE GrantsBooked'
  <2>1. cut' \/ Booked' = Booked
    BY <1>10, BookedStep DEF Crash
  <2>2. cut => cut'
    BY <1>10 DEF Crash
  <2> QED
    BY <1>10, <2>1, <2>2 DEF Crash
<1> QED
  BY <1>1, <1>2, <1>3, <1>4, <1>5, <1>6, <1>7, <1>8, <1>9, <1>10
  DEF Next, Call, Allocating, Releasing

\* The copies and the grants, for any number of deaths.
LEMMA PoolInvariance == Spec => [](Copies /\ GrantsBooked)
<1>1. Init => Copies /\ GrantsBooked
  BY DEF Init, Copies, GrantsBooked, EmptyMap, InTheGap
<1> QED
  BY Invariance, <1>1, CopiesStep, GrantsStep, PTL DEF Spec

\* Until a rewrite is cut short, slots in use are distinct, deaths elsewhere
\* included.
THEOREM SlotsInUseDistinct == Spec => []GrantedDistinctUntilCut
<1>1. Inv /\ GrantsBooked => GrantedDistinctUntilCut
  <2> SUFFICES ASSUME Inv, GrantsBooked, ~cut PROVE Injective(granted)
    BY DEF GrantedDistinctUntilCut, GrantedDistinct
  <2>1. Injective(Booked)
    BY BookedOK
  <2> QED
    BY <2>1 DEF GrantsBooked, Injective
<1> QED
  BY Invariance, PoolInvariance, <1>1, PTL

\* In the gap the file is torn.
TornInTheGap == \A p \in Procs : pc[p] \in InTheGap => file.state = "torn"

\* The holder of the lock enters the gap with the truncation and leaves it with the write.
LEMMA TornStep == Inv /\ TornInTheGap /\ [Next]_vars => TornInTheGap'
<1> SUFFICES ASSUME Inv, TornInTheGap, [Next]_vars PROVE TornInTheGap'
  OBVIOUS
<1>x. \A p, q \in Procs : pc[p] \in LockedPCs /\ pc[q] \in LockedPCs => p = q
  BY DEF Inv, LockMatchesControl
<1> USE DEF Inv, TypeOK, TornInTheGap, InTheGap
<1>1. CASE UNCHANGED vars
  BY <1>1 DEF vars
<1>2. ASSUME NEW p \in Procs, AllocTruncate(p) \/ ReleaseTruncate(p) PROVE TornInTheGap'
  BY <1>2 DEF AllocTruncate, ReleaseTruncate, Truncate, Torn
<1>3. ASSUME NEW p \in Procs, AllocWrite(p) \/ ReleaseWrite(p) PROVE TornInTheGap'
  BY <1>3, <1>x DEF AllocWrite, ReleaseWrite, Write, Goto, LockedPCs
<1>4. ASSUME NEW p \in Procs, Call(p) PROVE TornInTheGap'
  <2>1. file' = file /\ \A q \in Procs : pc'[q] \in InTheGap => pc[q] \in InTheGap
    BY <1>4 DEF Call, AllocLock, ReleaseLock, Peek, Goto
  <2> QED
    BY <2>1
<1>5. ASSUME NEW p \in Procs, AllocLoad(p) \/ ReleaseLoad(p) PROVE TornInTheGap'
  <2>1. file' = file /\ \A q \in Procs : pc'[q] \in InTheGap => pc[q] \in InTheGap
    BY <1>5 DEF AllocLoad, ReleaseLoad, Goto
  <2> QED
    BY <2>1
<1>6. ASSUME NEW p \in Procs, AllocReturn(p) \/ AllocExhausted(p) \/ ReleaseReturn(p) \/ Crash(p)
      PROVE TornInTheGap'
  BY <1>6 DEF AllocReturn, AllocExhausted, ReleaseReturn, Crash, Goto
<1> QED
  BY <1>1, <1>2, <1>3, <1>4, <1>5, <1>6 DEF Next, Call, Allocating, Releasing

\* Until a rewrite is cut short, a peek without the lock finds the slot of
\* every allocated instance in a file that is not torn.
THEOREM PeekFinds == Spec => PeekFindsAllocated
<1> DEFINE Finds == \A p \in Procs, i \in Instances :
                      Peek(p, i) /\ ~cut /\ granted[i] # NoSlot /\ file.state # "torn"
                      => peeked'[p] = [inst |-> i, slot |-> granted[i], existing |-> TRUE]
<1>1. Inv /\ TornInTheGap /\ GrantsBooked => [Finds]_vars
  <2> SUFFICES ASSUME Inv, TornInTheGap, GrantsBooked,
                      NEW p \in Procs, NEW i \in Instances, Peek(p, i),
                      ~cut, granted[i] # NoSlot, file.state # "torn"
               PROVE  peeked'[p] = [inst |-> i, slot |-> granted[i], existing |-> TRUE]
    OBVIOUS
  <2> DEFINE l == Loaded(file, EmptyMap)
  <2>1. Booked = l
    BY OutsideTheGap DEF TornInTheGap
  <2>2. l[i] = granted[i]
    BY <2>1 DEF GrantsBooked
  <2>3. peeked' = [peeked EXCEPT ![p] = [inst |-> i, slot |-> l[i], existing |-> TRUE]]
    BY <2>2 DEF Peek
  <2> HIDE DEF l
  <2> QED
    BY <2>2, <2>3 DEF Inv, TypeOK
<1>2. Init => TornInTheGap
  BY DEF Init, TornInTheGap, InTheGap
<1> QED
  BY Invariance, PoolInvariance, TornStep, <1>1, <1>2, PTL DEF Spec, PeekFindsAllocated

\* The scan of allocate and peek_next_slot finds the slot that the pool promises.
LEMMA LowestIs ==
  ASSUME NEW m \in Maps
  PROVE  LowestFree(m) = Pool!Lowest(m)
  BY DEF LowestFree, UsedIndices, Slots, NoSlot, Maps, Pool!Lowest, Pool!Taken, Pool!Slots

\* Every step of the ledger is a step of the pool, or changes nothing of it.
LEMMA PoolStep ==
  ASSUME Inv, Inv', Copies, [Next]_vars
  PROVE  Pool!Next \/ UNCHANGED <<Booked, granted, lock, Stage, inst, peeked>>
<1> DEFINE l == Loaded(file, EmptyMap)
<1> USE IpamAssumption DEF Inv, TypeOK
<1>l. l \in Maps /\ Booked \in Maps
  BY LoadedOK, BookedOK
<1>n. NoSlot = Pool!NoSlot /\ EmptyMap = Pool!Empty
  BY DEF NoSlot, Pool!NoSlot, EmptyMap, Pool!Empty
<1>h. ASSUME NEW p \in Procs, pc[p] \in LockedPCs
      PROVE  lock = p /\ lock # NoProc /\ Stage = StageOf(pc[p])
  BY <1>h DEF LockMatchesControl, Stage
<1>s. ASSUME NEW p \in Procs, lock' = p PROVE Stage' = StageOf(pc'[p])
  BY <1>s DEF Stage
<1>i. lock' = NoProc => Stage' = "idle"
  BY DEF Stage
<1>1. CASE UNCHANGED vars
  BY <1>1 DEF vars, Booked, Stage
<1>2. ASSUME NEW p \in Procs, NEW i \in Instances, AllocLock(p, i)
      PROVE  Pool!Ask(p, i, "allocate")
  <2>1. Booked' = Booked
    BY <1>2, BookedStep
  <2>2. Stage' = "allocate"
    BY <1>2, <1>s DEF AllocLock, Goto, StageOf
  <2> QED
    BY <1>2, <2>1, <2>2 DEF AllocLock, Pool!Ask
<1>3. ASSUME NEW p \in Procs, NEW i \in Instances, ReleaseLock(p, i)
      PROVE  Pool!Ask(p, i, "release")
  <2>1. Booked' = Booked
    BY <1>3, BookedStep
  <2>2. Stage' = "release"
    BY <1>3, <1>s DEF ReleaseLock, Goto, StageOf
  <2> QED
    BY <1>3, <1>n, <2>1, <2>2 DEF ReleaseLock, Pool!Ask
<1>4. ASSUME NEW p \in Procs, NEW i \in Instances, Peek(p, i) PROVE Pool!Peek(p, i)
  <2>1. UNCHANGED <<file, lock, pc, inst, data, granted>> /\ pc[p] = "idle"
    BY <1>4, Zenon DEF Peek
  <2>2. UNCHANGED <<Booked, Stage>>
    BY <2>1 DEF Booked, Stage
  <2>3. p # lock
    BY <2>1 DEF LockMatchesControl, LockedPCs
  <2>4. Pool!Writing <=> lock # NoProc /\ pc[lock] \in InTheGap
    <3>1. CASE lock = NoProc
      BY <3>1 DEF Pool!Writing, Stage
    <3>2. CASE lock # NoProc
      <4>1. pc[lock] \in LockedPCs
        BY <3>2 DEF LockMatchesControl
      <4> QED
        BY <3>2, <4>1 DEF Pool!Writing, Stage, StageOf, LockedPCs, InTheGap
    <3> QED
      BY <3>1, <3>2
  <2>5. l = IF Pool!Writing THEN Pool!Empty ELSE Booked
    BY <2>4, <1>n DEF Copies, Booked
  <2>6. LowestFree(l) = Pool!Lowest(l)
    BY <1>l, LowestIs
  <2>7. \/ /\ l[i] # NoSlot
           /\ peeked' = [peeked EXCEPT ![p] = [inst |-> i, slot |-> l[i], existing |-> TRUE]]
        \/ /\ l[i] = NoSlot
           /\ \E s \in LowestFree(l) :
                peeked' = [peeked EXCEPT ![p] = [inst |-> i, slot |-> s, existing |-> FALSE]]
    BY <1>4, Zenon DEF Peek
  <2> HIDE DEF l
  <2> QED
    BY <2>1, <2>2, <2>3, <2>5, <2>6, <2>7, <1>n, Zenon DEF Pool!Peek
<1>5. ASSUME NEW p \in Procs, AllocLoad(p)
      PROVE  \/ Pool!Find \/ Pool!Exhausted
             \/ UNCHANGED <<Booked, granted, lock, Stage, inst, peeked>>
  <2>1. pc[p] = "alloc_load" /\ UNCHANGED <<lock, inst, peeked, granted>>
    BY <1>5 DEF AllocLoad, Goto
  <2>2. lock = p /\ Stage = "allocate" /\ Booked = l /\ Booked' = Booked
    BY <1>5, <1>h, <2>1, BookedStep DEF LockedPCs, StageOf, Booked, InTheGap
  <2>3. Stage' = StageOf(pc'[p])
    BY <2>1, <2>2, <1>s
  <2>4. \/ l[inst[p]] # NoSlot /\ pc'[p] = "alloc_return"
        \/ pc'[p] = "alloc_truncate"
        \/ l[inst[p]] = NoSlot /\ LowestFree(l) = {} /\ pc'[p] = "exhausted"
    BY <1>5 DEF AllocLoad, Goto
  <2>5. LowestFree(l) = Pool!Lowest(l)
    BY <1>l, LowestIs
  <2> HIDE DEF l
  <2>6. CASE l[inst[p]] # NoSlot /\ pc'[p] = "alloc_return"
    BY <2>1, <2>2, <2>3, <2>6, <1>n DEF Pool!Find, Pool!Moves, StageOf
  <2>7. CASE pc'[p] = "alloc_truncate"
    BY <2>1, <2>2, <2>3, <2>7 DEF StageOf
  <2>8. CASE l[inst[p]] = NoSlot /\ LowestFree(l) = {} /\ pc'[p] = "exhausted"
    BY <2>1, <2>2, <2>3, <2>5, <2>8, <1>n DEF Pool!Exhausted, Pool!Moves, StageOf
  <2> QED
    BY <2>4, <2>6, <2>7, <2>8
<1>6. ASSUME NEW p \in Procs, AllocTruncate(p) PROVE Pool!Book
  <2>1. /\ pc[p] = "alloc_truncate" /\ pc'[p] = "alloc_write"
        /\ UNCHANGED <<lock, inst, peeked, granted>>
    BY <1>6 DEF AllocTruncate, Truncate, Goto
  <2>2. lock = p /\ Stage = "allocate" /\ Stage' = "booking"
    BY <1>h, <1>s, <2>1 DEF LockedPCs, StageOf
  <2>3. Booked = l /\ Booked' = data[p]
    BY <1>6, BookedStep
  <2>4. l[inst[p]] = NoSlot /\ \E s \in LowestFree(l) : data[p] = [l EXCEPT ![inst[p]] = s]
    BY <2>1 DEF Copies
  <2>5. LowestFree(l) = Pool!Lowest(l)
    BY <1>l, LowestIs
  <2> HIDE DEF l
  <2> QED
    BY <2>1, <2>2, <2>3, <2>4, <2>5, <1>n DEF Pool!Book, Pool!Moves
<1>7. ASSUME NEW p \in Procs, ReleaseLoad(p)
      PROVE  UNCHANGED <<Booked, granted, lock, Stage, inst, peeked>>
  <2>1. /\ pc[p] = "release_load" /\ pc'[p] = "release_truncate"
        /\ UNCHANGED <<lock, inst, peeked, granted>>
    BY <1>7 DEF ReleaseLoad, Goto
  <2>2. lock = p /\ Stage' = Stage
    BY <1>h, <1>s, <2>1 DEF LockedPCs, StageOf
  <2> QED
    BY <1>7, <2>1, <2>2, BookedStep
<1>8. ASSUME NEW p \in Procs, ReleaseTruncate(p) PROVE Pool!Drop
  <2>1. /\ pc[p] = "release_truncate" /\ pc'[p] = "release_write"
        /\ UNCHANGED <<lock, inst, peeked, granted>>
    BY <1>8 DEF ReleaseTruncate, Truncate, Goto
  <2>2. lock = p /\ Stage = "release" /\ Stage' = "dropping"
    BY <1>h, <1>s, <2>1 DEF LockedPCs, StageOf
  <2>3. Booked = l /\ Booked' = data[p] /\ data[p] = [l EXCEPT ![inst[p]] = NoSlot]
    BY <1>8, <2>1, BookedStep DEF Copies
  <2> HIDE DEF l
  <2> QED
    BY <2>1, <2>2, <2>3, <1>n DEF Pool!Drop, Pool!Moves
<1>9. ASSUME NEW p \in Procs, AllocWrite(p) \/ ReleaseWrite(p) PROVE Pool!Written
  <2>1. /\ \/ pc[p] = "alloc_write" /\ pc'[p] = "alloc_return"
           \/ pc[p] = "release_write" /\ pc'[p] = "release_return"
        /\ UNCHANGED <<lock, inst, peeked, granted>>
    BY <1>9 DEF AllocWrite, ReleaseWrite, Write, Goto
  <2>2. \/ Stage = "booking" /\ Stage' = "granting"
        \/ Stage = "dropping" /\ Stage' = "released"
    BY <1>h, <1>s, <2>1 DEF LockedPCs, StageOf
  <2>3. Booked' = Booked
    BY <1>9, BookedStep
  <2> QED
    BY <2>1, <2>2, <2>3 DEF Pool!Written, Pool!Moves
<1>10. ASSUME NEW p \in Procs, AllocReturn(p) \/ AllocExhausted(p) \/ ReleaseReturn(p)
       PROVE  Pool!Return
  <2>1. Booked = l /\ Booked' = Booked
    BY <1>10, BookedStep
  <2>2. UNCHANGED <<inst, peeked>> /\ lock' = NoProc /\ Stage' = "idle"
    BY <1>10, <1>i DEF AllocReturn, AllocExhausted, ReleaseReturn
  <2>3. CASE AllocReturn(p)
    <3>1. pc[p] = "alloc_return" /\ granted' = [granted EXCEPT ![inst[p]] = data[p][inst[p]]]
      BY <2>3 DEF AllocReturn, Goto
    <3>2. lock = p /\ Stage = "granting" /\ data[p] = Booked
      BY <1>h, <2>1, <3>1 DEF LockedPCs, StageOf, Copies
    <3> QED
      BY <2>1, <2>2, <3>1, <3>2 DEF Pool!Return
  <2>4. CASE AllocExhausted(p) \/ ReleaseReturn(p)
    <3>1. pc[p] \in {"exhausted", "release_return"} /\ granted' = granted
      BY <2>4 DEF AllocExhausted, ReleaseReturn, Goto
    <3>2. Stage \in {"exhausted", "released"}
      BY <1>h, <3>1 DEF LockedPCs, StageOf
    <3> QED
      BY <2>1, <2>2, <3>1, <3>2 DEF Pool!Return
  <2> QED
    BY <1>10, <2>3, <2>4
<1>11. ASSUME NEW p \in Procs, Crash(p) PROVE Pool!Die
  <2>1. pc[p] \in LockedPCs /\ lock' = NoProc /\ UNCHANGED <<inst, peeked, granted>>
    BY <1>11 DEF Crash, PCs
  <2>2. lock # NoProc /\ Stage = StageOf(pc[p]) /\ Stage' = "idle"
    BY <1>h, <1>i, <2>1
  <2>3. Pool!Writing <=> pc[p] \in InTheGap
    BY <2>1, <2>2 DEF Pool!Writing, StageOf, LockedPCs, InTheGap
  <2>4. Booked' = IF pc[p] \in InTheGap THEN EmptyMap ELSE Booked
    BY <1>11, BookedStep
  <2> QED
    BY <2>1, <2>2, <2>3, <2>4, <1>n DEF Pool!Die
<1> QED
  BY <1>1, <1>2, <1>3, <1>4, <1>5, <1>6, <1>7, <1>8, <1>9, <1>10, <1>11
  DEF Next, Call, Allocating, Releasing, Pool!Next

\* The ledger is one pool of slots with atomic allocate, release and peek, for
\* any number of processes, slots and deaths: only a death between truncation and
\* write loses bookings.
THEOREM Refinement == Spec => ImplementsPool
<1>1. Init => Pool!Init
  <2> SUFFICES ASSUME Init PROVE Pool!Init
    OBVIOUS
  <2>1. Inv
    BY InitInv
  <2>2. lock = NoProc /\ Stage = "idle" /\ Booked = EmptyMap
    BY DEF Init, Stage, Booked, Loaded, Absent
  <2> QED
    BY <2>1, <2>2
    DEF Init, Inv, TypeOK, Pool!Init, Pool!Empty, Pool!NoSlot, EmptyMap, NoSlot, NoPeek
<1>2. Inv /\ Inv' /\ Copies /\ [Next]_vars
        => [Pool!Next]_<<Booked, granted, lock, Stage, inst, peeked>>
  BY PoolStep
<1> QED
  BY Invariance, PoolInvariance, <1>1, <1>2, PTL DEF Spec, ImplementsPool, Pool!Spec

-----------------------------------------------------------------------------
(* The subnets of the slots. *)

Net == INSTANCE Subnets

\* "each receives a distinct `base_index` and non-overlapping `/24` subnet
\* quintuples", of the instances whose slots are in use.
NetworksDisjoint ==
  \A i, j \in Instances :
    (i # j /\ granted[i] # NoSlot /\ granted[j] # NoSlot) =>
      \A m, n \in Net!Nets : Net!Subnet(granted[i], m) # Net!Subnet(granted[j], n)

\* The two octets of a network determine its number, and that its slot.
LEMMA SubnetOfOneSlot ==
  ASSUME NEW b \in Nat, NEW c \in Nat, NEW m \in Net!Nets, NEW n \in Net!Nets,
         Net!Subnet(b, m) = Net!Subnet(c, n)
  PROVE  b = c
<1>1. m \in 0..4 /\ n \in 0..4
  BY DEF Net!Nets
<1>2. PICK x \in Nat, y \in Nat : x = b * 5 + m /\ y = c * 5 + n
  BY <1>1
<1>3. x \div 256 = y \div 256 /\ x % 256 = y % 256
  BY <1>2 DEF Net!Subnet
<1>4. x = y
  BY <1>3
<1> QED
  BY <1>1, <1>2, <1>4

\* Until a rewrite is cut short, no two instances in use share a subnet, whoever
\* dies elsewhere (allocate and derive_subnets together).
THEOREM NetworksInUseDisjoint == Spec => [](~cut => NetworksDisjoint)
<1>1. TypeOK /\ GrantedDistinctUntilCut => (~cut => NetworksDisjoint)
  <2> SUFFICES ASSUME TypeOK, GrantedDistinctUntilCut, ~cut,
                      NEW i \in Instances, NEW j \in Instances,
                      i # j, granted[i] # NoSlot, granted[j] # NoSlot,
                      NEW m \in Net!Nets, NEW n \in Net!Nets,
                      Net!Subnet(granted[i], m) = Net!Subnet(granted[j], n)
               PROVE  FALSE
    BY DEF NetworksDisjoint
  <2>1. granted[i] \in Nat /\ granted[j] \in Nat
    BY IpamAssumption DEF TypeOK, Maps, Slots
  <2>2. granted[i] = granted[j]
    BY <2>1, SubnetOfOneSlot
  <2> QED
    BY <2>2 DEF GrantedDistinctUntilCut, GrantedDistinct, Injective
<1>2. Inv => TypeOK
  BY DEF Inv
<1> QED
  BY Invariance, SlotsInUseDistinct, <1>1, <1>2, PTL
=============================================================================
