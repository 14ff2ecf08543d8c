---------------------------- MODULE RegistryProofs ----------------------------
(***************************************************************************)
(* Proofs about Registry for any processes, names and number of deaths.    *)
(*                                                                         *)
(* Inv (types, and the flock follows the control points) is inductive on   *)
(* its own.  What the file holds relates to `known` differently at every   *)
(* control point of the lock's holder: Exact says how, and is inductive on *)
(* top of Inv until a process dies in a call.  The refinement of NameTable *)
(* speaks of the table, not of `known`, and needs only Copies, which deaths *)
(* do not disturb.                                                         *)
(***************************************************************************)
EXTENDS Registry, TLAPS

\* The process with the flock is the one between flock and unlock.
LockMatchesControl == \A p \in Procs : pc[p] \in LockedPCs <=> lock = p

Inv == TypeOK /\ LockMatchesControl

\* What a reader loads is a map.
LEMMA LoadedOK == ASSUME TypeOK PROVE Loaded(file, EmptyMap) \in Maps
  BY DEF TypeOK, Files, Loaded, EmptyMap, Maps

\* Registering or removing one name makes a map of a map.
LEMMA UpdateOK ==
  ASSUME NEW m \in Maps, NEW n \in Names, NEW v \in Procs \cup {NoProc}
  PROVE  [m EXCEPT ![n] = v] \in Maps
  BY DEF Maps

\* No file, nothing known, nobody in a call.
LEMMA InitInv == Init => Inv
<1> SUFFICES ASSUME Init PROVE Inv
  OBVIOUS
<1>1. EmptyMap \in Maps
  BY DEF EmptyMap, Maps
<1>2. (CHOOSE n \in Names : TRUE) \in Names
  BY RegistryAssumption
<1>3. TypeOK
  BY <1>1, <1>2, RegistryAssumption DEF Init, TypeOK, Absent, Files, PCs, LockedPCs, Results
<1>4. LockMatchesControl
  BY RegistryAssumption DEF Init, LockMatchesControl, LockedPCs
<1> QED
  BY <1>3, <1>4 DEF Inv

\* Every step of every call, and every death, keeps the types.
LEMMA TypeStep == TypeOK /\ [Next]_vars => TypeOK'
<1> SUFFICES ASSUME TypeOK, [Next]_vars PROVE TypeOK'
  OBVIOUS
<1>0. EmptyMap \in Maps
  BY DEF EmptyMap, Maps
<1>l. Loaded(file, EmptyMap) \in Maps
  BY LoadedOK
<1> USE RegistryAssumption DEF TypeOK, Goto, PCs, LockedPCs, Results
<1>1. CASE UNCHANGED vars
  BY <1>1 DEF vars
<1>2. ASSUME NEW p \in Procs, NEW n \in Names, NEW o \in BOOLEAN,
             RegisterCall(p, n, o) \/ RemoveCall(p, n)
      PROVE TypeOK'
  BY <1>2 DEF RegisterCall, RemoveCall
<1>3. ASSUME NEW p \in Procs, NEW n \in Names, Get(p, n) PROVE TypeOK'
  BY <1>3 DEF Get
<1>4. ASSUME NEW p \in Procs, Flock(p) PROVE TypeOK'
  BY <1>4, UpdateOK DEF Flock, RegisterFlock, RemoveFlock
<1>5. ASSUME NEW p \in Procs, RegisterLoad(p) PROVE TypeOK'
  <2>1. [Loaded(file, EmptyMap) EXCEPT ![name[p]] = p] \in Maps
    BY <1>l, UpdateOK
  <2> QED
    BY <1>5, <2>1 DEF RegisterLoad
<1>6. ASSUME NEW p \in Procs,
             \/ RegisterTruncate(p) \/ RegisterWrite(p) \/ RemoveTruncate(p) \/ RemoveWrite(p)
      PROVE TypeOK'
  BY <1>0, <1>6 DEF RegisterTruncate, RegisterWrite, RemoveTruncate, RemoveWrite,
                    Truncate, Write, Torn, Whole, Files
<1>7. ASSUME NEW p \in Procs, RegisterReturn(p) PROVE TypeOK'
  BY <1>0, <1>7, UpdateOK DEF RegisterReturn, Return
<1>8. ASSUME NEW p \in Procs, RemoveLoad(p) PROVE TypeOK'
  <2>1. [Loaded(file, EmptyMap) EXCEPT ![name[p]] = NoProc] \in Maps
    BY <1>l, UpdateOK
  <2> QED
    BY <1>8, <2>1 DEF RemoveLoad
<1>9. ASSUME NEW p \in Procs, RegisterRaise(p) \/ RemoveReturn(p) \/ Crash(p) PROVE TypeOK'
  BY <1>0, <1>9 DEF RegisterRaise, RemoveReturn, Return, Crash
<1> QED
  BY <1>1, <1>2, <1>3, <1>4, <1>5, <1>6, <1>7, <1>8, <1>9 DEF Next, Call, Locked

\* The flock follows the control points.
LEMMA LockStep == Inv /\ [Next]_vars => LockMatchesControl'
<1> SUFFICES ASSUME Inv, [Next]_vars PROVE LockMatchesControl'
  OBVIOUS
<1> USE RegistryAssumption DEF Inv, TypeOK, LockMatchesControl, Goto, LockedPCs
<1>1. CASE UNCHANGED vars
  BY <1>1 DEF vars
<1>2. ASSUME NEW p \in Procs, Call(p) PROVE LockMatchesControl'
  BY <1>2 DEF Call, RegisterCall, RemoveCall, Get
<1>3. ASSUME NEW p \in Procs, Flock(p) PROVE LockMatchesControl'
  BY <1>3 DEF Flock, RegisterFlock, RemoveFlock
<1>4. ASSUME NEW p \in Procs, RegisterLoad(p) PROVE LockMatchesControl'
  <2>1. /\ lock' = lock /\ pc[p] = "reg_load"
        /\ \E to \in {"in_use", "reg_truncate"} : pc' = [pc EXCEPT ![p] = to]
    BY <1>4 DEF RegisterLoad
  <2> QED
    BY <2>1
<1>5. ASSUME NEW p \in Procs,
             \/ RegisterTruncate(p) \/ RegisterWrite(p)
             \/ RemoveLoad(p) \/ RemoveTruncate(p) \/ RemoveWrite(p)
      PROVE LockMatchesControl'
  BY <1>5 DEF RegisterTruncate, RegisterWrite, RemoveLoad, RemoveTruncate, RemoveWrite,
              Truncate, Write
<1>6. ASSUME NEW p \in Procs, RegisterReturn(p) \/ RegisterRaise(p) \/ RemoveReturn(p)
      PROVE LockMatchesControl'
  BY <1>6 DEF RegisterReturn, RegisterRaise, RemoveReturn, Return
<1>7. ASSUME NEW p \in Procs, Crash(p) PROVE LockMatchesControl'
  BY <1>7 DEF Crash, PCs
<1> QED
  BY <1>1, <1>2, <1>3, <1>4, <1>5, <1>6, <1>7 DEF Next, Locked

\* Whatever dies, files, copies and arguments keep their types and one process
\* at a time is between flock and unlock.
THEOREM Invariance == Spec => []Inv
<1>1. Inv /\ [Next]_vars => Inv'
  BY TypeStep, LockStep DEF Inv
<1> QED
  BY InitInv, <1>1, PTL DEF Spec

-----------------------------------------------------------------------------
(* Before the first death: crashes = 0. *)

\* The copy of a register differs from the known entries by the new one, and
\* the name was free or may be overwritten.
NewEntry(p) == /\ data[p] = [known EXCEPT ![name[p]] = p]
               /\ known[name[p]] = NoProc \/ over[p]

\* What file and copy hold, by the control point of the lock's holder.  A name
\* counts as removed from the flock on, and as registered from the return on.
Exact ==
  LET l == Loaded(file, EmptyMap) IN
  /\ lock = NoProc => l = known
  /\ \A p \in Procs :
       /\ pc[p] \in {"reg_load", "in_use", "reg_truncate", "rem_return"} => l = known
       /\ pc[p] \in {"reg_truncate", "reg_write", "reg_return"} => NewEntry(p)
       /\ pc[p] = "reg_return" => l = data[p]
       /\ pc[p] \in {"rem_load", "rem_truncate"} => [l EXCEPT ![name[p]] = NoProc] = known
       /\ pc[p] \in {"rem_truncate", "rem_write"} => data[p] = known
       /\ pc[p] \in {"reg_write", "rem_write"} => file.state = "torn"

ExactUntilDeath == crashes = 0 => Exact

\* Only a death counts as one.
LEMMA CrashesStep ==
  ASSUME [Next]_vars
  PROVE  crashes' = crashes \/ \E p \in Procs : Crash(p) /\ crashes' = crashes + 1
<1>1. CASE UNCHANGED vars
  BY <1>1 DEF vars
<1>2. ASSUME NEW p \in Procs, Call(p) \/ Flock(p) PROVE crashes' = crashes
  BY <1>2, Zenon DEF Call, RegisterCall, RemoveCall, Get, Flock, RegisterFlock, RemoveFlock
<1>3. ASSUME NEW p \in Procs, Locked(p) PROVE crashes' = crashes
  BY <1>3, Zenon DEF Locked, RegisterLoad, RegisterTruncate, RegisterWrite, RegisterReturn,
     RegisterRaise, RemoveLoad, RemoveTruncate, RemoveWrite, RemoveReturn, Truncate, Write
<1>4. ASSUME NEW p \in Procs, Crash(p) PROVE crashes' = crashes + 1
  BY <1>4 DEF Crash
<1> QED
  BY <1>1, <1>2, <1>3, <1>4 DEF Next

\* The lock's holder takes the step that its control point names, and nobody
\* else touches the file.
LEMMA ExactStep ==
  ASSUME Inv, Exact, crashes' = 0, [Next]_vars
  PROVE  Exact'
<1> DEFINE l == Loaded(file, EmptyMap)
<1>l. l \in Maps
  BY LoadedOK DEF Inv
<1>c. \A p \in Procs : ~ Crash(p)
  BY DEF Crash, Inv, TypeOK
<1>x. \A p, q \in Procs : pc[p] \in LockedPCs /\ pc[q] \in LockedPCs => p = q
  BY DEF Inv, LockMatchesControl
<1>i. \A p \in Procs : lock = NoProc => pc[p] \notin LockedPCs
  BY RegistryAssumption DEF Inv, LockMatchesControl
<1> USE DEF Inv, TypeOK
<1> HIDE DEF l
<1>1. CASE UNCHANGED vars
  BY <1>1 DEF vars, Exact, NewEntry
<1>2. ASSUME NEW p \in Procs, Call(p) PROVE Exact'
  <2>1. UNCHANGED <<file, lock, data, known>>
    BY <1>2, Zenon DEF Call, RegisterCall, RemoveCall, Get
  <2>2. /\ pc[p] = "idle" /\ pc'[p] \in {"idle", "reg_wait", "rem_wait"}
        /\ \A q \in Procs \ {p} : pc'[q] = pc[q] /\ name'[q] = name[q] /\ over'[q] = over[q]
    BY <1>2 DEF Call, RegisterCall, RemoveCall, Get, Goto
  <2> QED
    BY <2>1, <2>2 DEF Exact, NewEntry
<1>3. ASSUME NEW p \in Procs, RegisterFlock(p) PROVE Exact'
  BY <1>3, <1>i, RegistryAssumption DEF RegisterFlock, Exact, Goto, LockedPCs
<1>4. ASSUME NEW p \in Procs, RemoveFlock(p) PROVE Exact'
  BY <1>4, <1>i, RegistryAssumption DEF RemoveFlock, Exact, Goto, LockedPCs
<1>5. ASSUME NEW p \in Procs, RegisterLoad(p) PROVE Exact'
  <2>1. l = known
    BY <1>5 DEF RegisterLoad, Exact, Goto, l
  <2>2. UNCHANGED <<file, lock, name, over, known>> /\ lock = p
    BY <1>5 DEF RegisterLoad, Goto, LockMatchesControl, LockedPCs
  <2>3. \A q \in Procs \ {p} : pc'[q] \notin LockedPCs
    BY <1>5, <1>x DEF RegisterLoad, Goto, LockedPCs
  <2>4. \/ pc'[p] = "in_use"
        \/ /\ pc'[p] = "reg_truncate" /\ data'[p] = [l EXCEPT ![name[p]] = p]
           /\ l[name[p]] = NoProc \/ over[p]
    BY <1>5 DEF RegisterLoad, Goto, l
  <2> QED
    BY <2>1, <2>2, <2>3, <2>4, RegistryAssumption DEF Exact, NewEntry, LockedPCs, l
<1>6. ASSUME NEW p \in Procs, RegisterTruncate(p) PROVE Exact'
  BY <1>6, <1>x, RegistryAssumption
  DEF RegisterTruncate, Truncate, Torn, Exact, NewEntry, Goto, LockedPCs, LockMatchesControl
<1>7. ASSUME NEW p \in Procs, RegisterWrite(p) PROVE Exact'
  BY <1>7, <1>x, RegistryAssumption
  DEF RegisterWrite, Write, Whole, Loaded, Exact, NewEntry, Goto, LockedPCs, LockMatchesControl
<1>8. ASSUME NEW p \in Procs, RegisterReturn(p) PROVE Exact'
  <2>1. l = known'
    BY <1>8 DEF RegisterReturn, Return, Exact, NewEntry, Goto, l
  <2>2. l' = l
    BY <1>8 DEF RegisterReturn, l
  <2>3. \A q \in Procs : pc'[q] \notin LockedPCs
    BY <1>8, <1>x DEF RegisterReturn, Return, Goto, LockedPCs
  <2> QED
    BY <2>1, <2>2, <2>3 DEF Exact, LockedPCs, l
<1>9. ASSUME NEW p \in Procs, RegisterRaise(p) \/ RemoveReturn(p) PROVE Exact'
  <2>1. l = known /\ UNCHANGED <<file, known>>
    BY <1>9 DEF RegisterRaise, RemoveReturn, Return, Exact, Goto, l
  <2>2. \A q \in Procs : pc'[q] \notin LockedPCs
    BY <1>9, <1>x DEF RegisterRaise, RemoveReturn, Return, Goto, LockedPCs
  <2> QED
    BY <2>1, <2>2 DEF Exact, LockedPCs, l
<1>10. ASSUME NEW p \in Procs, RemoveLoad(p) PROVE Exact'
  BY <1>10, <1>x, RegistryAssumption
  DEF RemoveLoad, Exact, Goto, LockedPCs, LockMatchesControl
<1>11. ASSUME NEW p \in Procs, RemoveTruncate(p) PROVE Exact'
  BY <1>11, <1>x, RegistryAssumption
  DEF RemoveTruncate, Truncate, Torn, Exact, Goto, LockedPCs, LockMatchesControl
<1>12. ASSUME NEW p \in Procs, RemoveWrite(p) PROVE Exact'
  BY <1>12, <1>x, RegistryAssumption
  DEF RemoveWrite, Write, Whole, Loaded, Exact, Goto, LockedPCs, LockMatchesControl
<1> QED
  BY <1>1, <1>2, <1>3, <1>4, <1>5, <1>6, <1>7, <1>8, <1>9, <1>10, <1>11, <1>12, <1>c
  DEF Next, Flock, Locked

\* Until a process dies in a call, file and copies are exact at every control point.
LEMMA ExactInvariance == Spec => []ExactUntilDeath
<1>1. Init => ExactUntilDeath
  BY DEF Init, ExactUntilDeath, Exact, Loaded, Absent
<1>2. Inv /\ ExactUntilDeath /\ [Next]_vars => ExactUntilDeath'
  <2> SUFFICES ASSUME Inv, ExactUntilDeath, [Next]_vars, crashes' = 0 PROVE Exact'
    BY DEF ExactUntilDeath
  <2>1. crashes = 0
    BY CrashesStep DEF Inv, TypeOK
  <2> QED
    BY <2>1, ExactStep DEF ExactUntilDeath
<1> QED
  BY Invariance, <1>1, <1>2, PTL DEF Spec

\* Until a process dies in a call, a free registry holds exactly what was
\* registered and not removed.
THEOREM NothingLost == Spec => []NoLostUpdate
<1>1. ExactUntilDeath => NoLostUpdate
  BY DEF ExactUntilDeath, Exact, NoLostUpdate
<1> QED
  BY ExactInvariance, <1>1, PTL

\* Until a process dies in a call, a register takes a name that is in use only
\* when it was asked to overwrite: the check under the lock still holds at the return.
THEOREM NobodyShadowed == Spec => NoShadowing
<1> DEFINE Taken(n) == crashes = 0 /\ known[n] # NoProc /\ known'[n] \notin {NoProc, known[n]}
           Kept == \A n \in Names : Taken(n) => over[known'[n]]
<1>1. Inv /\ ExactUntilDeath /\ [Next]_vars => Kept
  <2> SUFFICES ASSUME Inv, ExactUntilDeath, [Next]_vars, NEW n \in Names, Taken(n)
               PROVE  over[known'[n]]
    OBVIOUS
  <2>1. ASSUME NEW p \in Procs, RegisterReturn(p) PROVE over[known'[n]]
    <3>1. pc[p] = "reg_return" /\ known' = [known EXCEPT ![name[p]] = p]
      BY <2>1 DEF RegisterReturn, Return, Goto
    <3>2. NewEntry(p)
      BY <3>1 DEF ExactUntilDeath, Exact
    <3> QED
      BY <3>1, <3>2 DEF NewEntry, Inv, TypeOK, Maps
  <2>2. ASSUME NEW p \in Procs, RemoveFlock(p) PROVE FALSE
    BY <2>2 DEF RemoveFlock, Inv, TypeOK, Maps
  <2>3. ASSUME NEW p \in Procs, Call(p) \/ RegisterFlock(p) \/ Crash(p) PROVE known' = known
    BY <2>3, Zenon DEF Call, RegisterCall, RemoveCall, Get, RegisterFlock, Crash
  <2>4. ASSUME NEW p \in Procs, Locked(p) PROVE RegisterReturn(p) \/ known' = known
    BY <2>4, Zenon DEF Locked, RegisterLoad, RegisterTruncate, RegisterWrite,
       RegisterRaise, RemoveLoad, RemoveTruncate, RemoveWrite, RemoveReturn, Truncate, Write
  <2>5. CASE UNCHANGED vars
    BY <2>5 DEF vars
  <2> QED
    BY <2>1, <2>2, <2>3, <2>4, <2>5 DEF Next, Flock
<1>2. Inv /\ ExactUntilDeath /\ [Next]_vars => [Kept]_vars
  BY <1>1
<1> QED
  BY Invariance, ExactInvariance, <1>2, PTL DEF Spec, NoShadowing

\* Until a process dies in a call, a get without the lock finds every registered
\* name in a file that is not torn, wherever the lock's holder is.
THEOREM GetFinds == Spec => GetFindsRegistered
<1> DEFINE Finds == \A p \in Procs, n \in Names :
                      Get(p, n) /\ crashes = 0 /\ known[n] # NoProc /\ file.state # "torn"
                      => result'[p] = "found"
<1>1. Inv /\ ExactUntilDeath => Finds
  <2> SUFFICES ASSUME Inv, ExactUntilDeath, NEW p \in Procs, NEW n \in Names, Get(p, n),
                      crashes = 0, known[n] # NoProc, file.state # "torn"
               PROVE  result'[p] = "found"
    OBVIOUS
  <2> DEFINE l == Loaded(file, EmptyMap)
  <2>0. Exact /\ l \in Maps /\ known \in Maps
    BY LoadedOK DEF ExactUntilDeath, Inv, TypeOK
  <2>1. l[n] # NoProc
    <3>1. CASE lock = NoProc
      BY <2>0, <3>1 DEF Exact
    <3>2. ASSUME NEW q \in Procs, lock = q PROVE l[n] # NoProc
      <4>1. pc[q] \in LockedPCs /\ name[q] \in Names /\ q # NoProc
        BY <3>2, RegistryAssumption DEF Inv, LockMatchesControl, TypeOK
      <4>2. CASE pc[q] \in {"reg_load", "in_use", "reg_truncate", "rem_return"}
        BY <2>0, <4>2 DEF Exact
      <4>3. CASE pc[q] \in {"reg_write", "rem_write"}
        BY <2>0, <4>3 DEF Exact
      <4>4. CASE pc[q] = "reg_return"
        <5>1. l = [known EXCEPT ![name[q]] = q]
          BY <2>0, <4>4 DEF Exact, NewEntry
        <5> HIDE DEF l
        <5> QED
          BY <5>1, <2>0, <4>1 DEF Maps
      <4>5. CASE pc[q] \in {"rem_load", "rem_truncate"}
        <5>1. known = [l EXCEPT ![name[q]] = NoProc]
          BY <2>0, <4>5 DEF Exact
        <5> HIDE DEF l
        <5> QED
          BY <5>1, <2>0, <4>1 DEF Maps
      <4> QED
        BY <4>1, <4>2, <4>3, <4>4, <4>5 DEF LockedPCs
    <3> QED
      BY <3>1, <3>2 DEF Inv, TypeOK
  <2> QED
    BY <2>1 DEF Get, Inv, TypeOK
<1>2. Inv /\ ExactUntilDeath => [Finds]_vars
  BY <1>1
<1> QED
  BY Invariance, ExactInvariance, <1>2, PTL DEF GetFindsRegistered

-----------------------------------------------------------------------------
(* The refinement of NameTable, whoever dies where. *)

\* What the copy of the lock's holder has to do with the file it was made of,
\* and that a file in the gap holds nothing.
Copies ==
  LET l == Loaded(file, EmptyMap) IN
  \A p \in Procs :
    /\ pc[p] = "reg_truncate" => /\ data[p] = [l EXCEPT ![name[p]] = p]
                                 /\ l[name[p]] = NoProc \/ over[p]
    /\ pc[p] = "rem_truncate" => data[p] = [l EXCEPT ![name[p]] = NoProc]
    /\ pc[p] \in {"reg_write", "rem_write"} => l = EmptyMap

\* Only the lock's holder changes the file, and it does so after its copy is made.
LEMMA CopiesStep == Inv /\ Copies /\ [Next]_vars => Copies'
<1> SUFFICES ASSUME Inv, Copies, [Next]_vars PROVE Copies'
  OBVIOUS
<1> DEFINE l == Loaded(file, EmptyMap)
<1>x. \A p, q \in Procs : pc[p] \in LockedPCs /\ pc[q] \in LockedPCs => p = q
  BY DEF Inv, LockMatchesControl
<1> USE DEF Inv, TypeOK
<1>k. ASSUME NEW p \in Procs, UNCHANGED <<file, data>>,
             pc'[p] \notin {"reg_truncate", "rem_truncate", "reg_write", "rem_write"},
             \A q \in Procs \ {p} : pc'[q] = pc[q] /\ name'[q] = name[q] /\ over'[q] = over[q]
      PROVE Copies'
  BY <1>k DEF Copies
<1>1. CASE UNCHANGED vars
  BY <1>1 DEF vars, Copies
<1>2. ASSUME NEW p \in Procs, Call(p) \/ Flock(p) PROVE Copies'
  <2>1. UNCHANGED <<file, data>>
    BY <1>2, Zenon DEF Call, RegisterCall, RemoveCall, Get, Flock, RegisterFlock, RemoveFlock
  <2>2. /\ pc'[p] \in {"idle", "reg_wait", "rem_wait", "reg_load", "rem_load"}
        /\ \A q \in Procs \ {p} : pc'[q] = pc[q] /\ name'[q] = name[q] /\ over'[q] = over[q]
    BY <1>2 DEF Call, RegisterCall, RemoveCall, Get, Flock, RegisterFlock, RemoveFlock, Goto
  <2> QED
    BY <2>1, <2>2, <1>k
<1>3. ASSUME NEW p \in Procs, RegisterLoad(p) PROVE Copies'
  <2>1. UNCHANGED <<file, name, over>> /\ pc[p] = "reg_load"
    BY <1>3 DEF RegisterLoad, Goto
  <2>2. \A q \in Procs \ {p} : pc'[q] \notin LockedPCs
    BY <1>3, <1>x DEF RegisterLoad, Goto, LockedPCs
  <2>3. \/ pc'[p] = "in_use"
        \/ /\ pc'[p] = "reg_truncate" /\ data'[p] = [l EXCEPT ![name[p]] = p]
           /\ l[name[p]] = NoProc \/ over[p]
    BY <1>3 DEF RegisterLoad, Goto
  <2> QED
    BY <2>1, <2>2, <2>3 DEF Copies, LockedPCs
<1>4. ASSUME NEW p \in Procs, RemoveLoad(p) PROVE Copies'
  BY <1>4, <1>x DEF RemoveLoad, Copies, Goto, LockedPCs
<1>5. ASSUME NEW p \in Procs, RegisterTruncate(p) \/ RemoveTruncate(p) PROVE Copies'
  BY <1>5, <1>x DEF RegisterTruncate, RemoveTruncate, Truncate, Torn, Loaded, Copies, Goto, LockedPCs
<1>6. ASSUME NEW p \in Procs, RegisterWrite(p) \/ RemoveWrite(p) PROVE Copies'
  BY <1>6, <1>x DEF RegisterWrite, RemoveWrite, Write, Copies, Goto, LockedPCs
<1>7. ASSUME NEW p \in Procs, RegisterReturn(p) \/ RegisterRaise(p) \/ RemoveReturn(p) \/ Crash(p)
      PROVE Copies'
  <2>1. /\ UNCHANGED <<file, name, over>> /\ pc'[p] = "idle"
        /\ \A q \in Procs \ {p} : pc'[q] = pc[q] /\ data'[q] = data[q]
    BY <1>7 DEF RegisterReturn, RegisterRaise, RemoveReturn, Return, Crash, Goto
  <2> QED
    BY <2>1 DEF Copies
<1> QED
  BY <1>1, <1>2, <1>3, <1>4, <1>5, <1>6, <1>7 DEF Next, Locked

\* The writer is the process between truncation and write.
LEMMA WriterIs ==
  ASSUME Inv
  PROVE  /\ \A p \in Procs : Writer = p <=> pc[p] \in {"reg_write", "rem_write"}
         /\ Writer \in Procs \cup {NoProc}
  BY RegistryAssumption DEF Inv, TypeOK, LockMatchesControl, LockedPCs, Writer

\* Every step of the registry is a step of the table, or changes nothing of it.
LEMMA TableStep ==
  ASSUME Inv, Inv', Copies, [Next]_vars
  PROVE  Table!Next \/ UNCHANGED <<TableNow, Stages, name, over, result, Writer>>
<1> DEFINE W == {"reg_write", "rem_write"}
           l == Loaded(file, EmptyMap)
<1> USE DEF Inv, TypeOK
<1>l. l \in Maps
  BY LoadedOK
<1>w. /\ \A q \in Procs : Writer' = q <=> pc'[q] \in W
      /\ Writer' \in Procs \cup {NoProc}
  BY RegistryAssumption DEF LockMatchesControl, LockedPCs, Writer
<1>u. ASSUME \A q \in Procs : pc'[q] \in W <=> pc[q] \in W,
             \A q \in Procs : pc[q] \in W => data'[q] = data[q], UNCHANGED file
      PROVE  UNCHANGED <<TableNow, Writer>>
  <2>1. Writer' = Writer
    BY <1>u, <1>w, WriterIs, RegistryAssumption
  <2> QED
    BY <1>u, <2>1, WriterIs DEF TableNow
<1>m. ASSUME NEW p \in Procs, NEW c, pc' = [pc EXCEPT ![p] = c]
      PROVE  /\ Stages' = [Stages EXCEPT ![p] = StageOf(c)]
             /\ Stages[p] = StageOf(pc[p])
  BY <1>m DEF Stages
<1>s. ASSUME NEW p \in Procs, NEW c, pc' = [pc EXCEPT ![p] = c], StageOf(c) = StageOf(pc[p])
      PROVE  Stages' = Stages
  <2>1. \A q \in Procs : StageOf(pc'[q]) = StageOf(pc[q])
    BY <1>s
  <2> QED
    BY <2>1, Zenon DEF Stages
<1>f. ASSUME NEW p \in Procs, pc[p] \in LockedPCs \ W
      PROVE  Writer = NoProc /\ TableNow = l
  <2>1. lock = p
    BY <1>f DEF LockMatchesControl
  <2> QED
    BY <1>f, <2>1 DEF Writer, TableNow
<1>1. CASE UNCHANGED vars
  <2>1. UNCHANGED <<TableNow, Writer>>
    BY <1>1, <1>u DEF vars
  <2> QED
    BY <1>1, <2>1 DEF vars, Stages
<1>2. ASSUME NEW p \in Procs, NEW n \in Names, NEW o \in BOOLEAN, RegisterCall(p, n, o)
      PROVE  Table!Ask(p, n, "register", o)
  <2>1. Stages[p] = "idle" /\ Stages' = [Stages EXCEPT ![p] = "register"]
    BY <1>2, <1>m DEF RegisterCall, Goto, StageOf
  <2>2. UNCHANGED <<TableNow, Writer>>
    BY <1>2, <1>u DEF RegisterCall, Goto
  <2> QED
    BY <1>2, <2>1, <2>2 DEF RegisterCall, Table!Ask, Table!Moves
<1>3. ASSUME NEW p \in Procs, NEW n \in Names, RemoveCall(p, n)
      PROVE  Table!Ask(p, n, "remove", over[p])
  <2>1. Stages[p] = "idle" /\ Stages' = [Stages EXCEPT ![p] = "remove"]
    BY <1>3, <1>m DEF RemoveCall, Goto, StageOf
  <2>2. UNCHANGED <<TableNow, Writer>>
    BY <1>3, <1>u DEF RemoveCall, Goto
  <2>3. over' = [over EXCEPT ![p] = over[p]]
    BY <1>3 DEF RemoveCall
  <2> QED
    BY <1>3, <2>1, <2>2, <2>3 DEF RemoveCall, Table!Ask, Table!Moves
<1>4. ASSUME NEW p \in Procs, NEW n \in Names, Get(p, n) PROVE Table!Look(p, n)
  <2>1. UNCHANGED <<TableNow, Writer, Stages>> /\ Stages[p] = "idle"
    BY <1>4, <1>u DEF Get, Stages, StageOf
  <2>2. l[n] # NoProc <=> Writer = NoProc /\ TableNow[n] # NoProc
    <3>1. CASE Writer = NoProc
      BY <3>1 DEF TableNow
    <3>2. CASE Writer # NoProc
      <4>1. l = EmptyMap
        BY <3>2, WriterIs DEF Copies
      <4> QED
        BY <3>2, <4>1 DEF EmptyMap
    <3> QED
      BY <3>1, <3>2
  <2> QED
    BY <1>4, <2>1, <2>2 DEF Get, Table!Look
<1>5. ASSUME NEW p \in Procs, Flock(p)
      PROVE  UNCHANGED <<TableNow, Stages, name, over, result, Writer>>
  <2>1. UNCHANGED <<TableNow, Writer>>
    BY <1>5, <1>u DEF Flock, RegisterFlock, RemoveFlock, Goto
  <2>2. Stages' = Stages
    BY <1>5, <1>s DEF Flock, RegisterFlock, RemoveFlock, Goto, StageOf
  <2> QED
    BY <1>5, <2>1, <2>2 DEF Flock, RegisterFlock, RemoveFlock
<1>6. ASSUME NEW p \in Procs, RegisterLoad(p)
      PROVE  \/ Table!Refuse(p)
             \/ UNCHANGED <<TableNow, Stages, name, over, result, Writer>>
  <2>1. /\ UNCHANGED <<file, name, over, result>> /\ pc[p] = "reg_load"
        /\ \A q \in Procs \ {p} : data'[q] = data[q]
    BY <1>6 DEF RegisterLoad, Goto
  <2>2. \/ pc' = [pc EXCEPT ![p] = "reg_truncate"]
        \/ pc' = [pc EXCEPT ![p] = "in_use"] /\ l[name[p]] # NoProc /\ ~over[p]
    BY <1>6 DEF RegisterLoad, Goto
  <2>3. UNCHANGED <<TableNow, Writer>>
    BY <2>1, <2>2, <1>u
  <2>4. Writer = NoProc /\ TableNow = l
    BY <2>1, <1>f DEF LockedPCs
  <2>5. CASE pc' = [pc EXCEPT ![p] = "reg_truncate"]
    <3>1. Stages' = Stages
      BY <2>1, <2>5, <1>s DEF StageOf
    <3> QED
      BY <2>1, <2>3, <3>1
  <2>6. CASE pc' = [pc EXCEPT ![p] = "in_use"] /\ l[name[p]] # NoProc /\ ~over[p]
    <3>1. Stages[p] = "register" /\ Stages' = [Stages EXCEPT ![p] = "name_in_use"]
      BY <2>1, <2>6, <1>m DEF StageOf
    <3> QED
      BY <2>1, <2>3, <2>4, <2>6, <3>1 DEF Table!Refuse, Table!Moves
  <2> QED
    BY <2>2, <2>5, <2>6
<1>7. ASSUME NEW p \in Procs, RemoveLoad(p)
      PROVE  UNCHANGED <<TableNow, Stages, name, over, result, Writer>>
  <2>1. UNCHANGED <<TableNow, Writer>>
    BY <1>7, <1>u DEF RemoveLoad, Goto
  <2>2. Stages' = Stages
    BY <1>7, <1>s DEF RemoveLoad, Goto, StageOf
  <2> QED
    BY <1>7, <2>1, <2>2 DEF RemoveLoad
<1>8. ASSUME NEW p \in Procs, RegisterTruncate(p) PROVE Table!Register(p)
  <2>1. pc[p] = "reg_truncate" /\ pc' = [pc EXCEPT ![p] = "reg_write"] /\ UNCHANGED <<name, over, result, data>>
    BY <1>8 DEF RegisterTruncate, Truncate, Goto
  <2>2. Writer = NoProc /\ TableNow = l
    BY <2>1, <1>f DEF LockedPCs
  <2>3. Writer' = p
    BY <2>1, <1>w
  <2>4. TableNow' = data[p]
    BY <2>1, <2>3, RegistryAssumption DEF TableNow
  <2>5. data[p] = [l EXCEPT ![name[p]] = p] /\ (l[name[p]] = NoProc \/ over[p])
    BY <2>1 DEF Copies
  <2>6. Stages[p] = "register" /\ Stages' = [Stages EXCEPT ![p] = "registered"]
    BY <2>1, <1>m DEF StageOf
  <2> QED
    BY <2>1, <2>2, <2>3, <2>4, <2>5, <2>6 DEF Table!Register, Table!Change, Table!Moves
<1>9. ASSUME NEW p \in Procs, RemoveTruncate(p) PROVE Table!Remove(p)
  <2>1. pc[p] = "rem_truncate" /\ pc' = [pc EXCEPT ![p] = "rem_write"] /\ UNCHANGED <<name, over, result, data>>
    BY <1>9 DEF RemoveTruncate, Truncate, Goto
  <2>2. Writer = NoProc /\ TableNow = l
    BY <2>1, <1>f DEF LockedPCs
  <2>3. Writer' = p
    BY <2>1, <1>w
  <2>4. TableNow' = data[p]
    BY <2>1, <2>3, RegistryAssumption DEF TableNow
  <2>5. data[p] = [l EXCEPT ![name[p]] = NoProc]
    BY <2>1 DEF Copies
  <2>6. Stages[p] = "remove" /\ Stages' = [Stages EXCEPT ![p] = "removed"]
    BY <2>1, <1>m DEF StageOf
  <2> QED
    BY <2>1, <2>2, <2>3, <2>4, <2>5, <2>6 DEF Table!Remove, Table!Change, Table!Moves
<1>10. ASSUME NEW p \in Procs, RegisterWrite(p) \/ RemoveWrite(p) PROVE Table!Written(p)
  <2>1. /\ pc[p] \in W /\ file' = Whole(data[p]) /\ UNCHANGED <<name, over, result>>
        /\ \E c \in {"reg_return", "rem_return"} :
             pc' = [pc EXCEPT ![p] = c] /\ StageOf(c) = StageOf(pc[p])
    BY <1>10 DEF RegisterWrite, RemoveWrite, Write, Goto, StageOf
  <2>2. Writer = p /\ TableNow = data[p]
    BY <2>1, WriterIs, RegistryAssumption DEF TableNow
  <2>3. \A q \in Procs : pc'[q] \notin W
    BY <2>1, <2>2, WriterIs
  <2>4. Writer' = NoProc
    BY <2>3, <1>w
  <2>5. TableNow' = data[p]
    BY <2>1, <2>4 DEF TableNow, Whole, Loaded
  <2>6. Stages' = Stages
    BY <2>1 DEF Stages
  <2> QED
    BY <2>1, <2>2, <2>4, <2>5, <2>6 DEF Table!Written
<1>11. ASSUME NEW p \in Procs, RegisterReturn(p) \/ RegisterRaise(p) \/ RemoveReturn(p)
       PROVE  Table!Return(p)
  <2>1. /\ pc[p] \in {"reg_return", "in_use", "rem_return"}
        /\ pc' = [pc EXCEPT ![p] = "idle"]
        /\ result' = [result EXCEPT ![p] = StageOf(pc[p])]
        /\ UNCHANGED <<file, name, over>>
        /\ \A q \in Procs \ {p} : data'[q] = data[q]
    BY <1>11 DEF RegisterReturn, RegisterRaise, RemoveReturn, Return, Goto, StageOf
  <2>2. UNCHANGED <<TableNow, Writer>>
    BY <2>1, <1>u
  <2>3. Writer = NoProc
    BY <2>1, <1>f DEF LockedPCs
  <2>4. /\ Stages' = [Stages EXCEPT ![p] = "idle"]
        /\ Stages[p] = StageOf(pc[p])
        /\ StageOf(pc[p]) \in {"registered", "name_in_use", "removed"}
    BY <2>1, <1>m DEF StageOf
  <2> QED
    BY <2>1, <2>2, <2>3, <2>4 DEF Table!Return, Table!Moves
<1>12. ASSUME NEW p \in Procs, Crash(p) PROVE Table!Die(p)
  <2>1. /\ pc[p] # "idle" /\ pc' = [pc EXCEPT ![p] = "idle"]
        /\ UNCHANGED <<file, name, over, result>>
        /\ \A q \in Procs \ {p} : data'[q] = data[q]
    BY <1>12 DEF Crash
  <2>2. Stages[p] # "idle" /\ Stages' = [Stages EXCEPT ![p] = "idle"]
    BY <2>1, <1>m DEF StageOf, PCs, LockedPCs
  <2>3. CASE pc[p] \in W
    <3>1. Writer = p /\ \A q \in Procs : pc'[q] \notin W
      BY <2>1, <2>3, WriterIs
    <3>2. Writer' = NoProc
      BY <3>1, <1>w
    <3>3. TableNow' = EmptyMap
      BY <2>1, <2>3, <3>2 DEF TableNow, Copies
    <3> QED
      BY <2>1, <2>2, <3>1, <3>2, <3>3 DEF Table!Die, Table!EmptyTable, EmptyMap
  <2>4. CASE pc[p] \notin W
    <3>1. UNCHANGED <<TableNow, Writer>> /\ Writer # p
      BY <2>1, <2>4, <1>u, WriterIs
    <3> QED
      BY <2>1, <2>2, <3>1 DEF Table!Die
  <2> QED
    BY <2>3, <2>4
<1> QED
  BY <1>1, <1>2, <1>3, <1>4, <1>5, <1>6, <1>7, <1>8, <1>9, <1>10, <1>11, <1>12
  DEF Next, Call, Locked, Table!Next

\* The registry is one table of names with atomic register, remove and get, for
\* any number of processes and deaths: the effect of every call falls between its
\* call and its return, and only a death between truncation and write loses entries.
THEOREM Refinement == Spec => ImplementsTable
<1>1. Init => Table!Init
  <2> SUFFICES ASSUME Init PROVE Table!Init
    OBVIOUS
  <2>1. Inv
    BY InitInv
  <2>2. Writer = NoProc /\ TableNow = EmptyMap
    BY DEF Init, Writer, TableNow, Loaded, Absent
  <2>3. Stages = [p \in Procs |-> "idle"]
    BY DEF Init, Stages, StageOf
  <2> QED
    BY <2>1, <2>2, <2>3 DEF Init, Inv, TypeOK, Table!Init, Table!EmptyTable, EmptyMap
<1>2. Init => Copies
  BY DEF Init, Copies
<1>3. Inv /\ Inv' /\ Copies /\ [Next]_vars
        => [Table!Next]_<<TableNow, Stages, name, over, result, Writer>>
  BY TableStep
<1> QED
  BY Invariance, CopiesStep, <1>1, <1>2, <1>3, PTL DEF Spec, ImplementsTable, Table!Spec

-----------------------------------------------------------------------------
(* The lock is held for a bounded time: the half of CallsEnd that is a safety property *)

\* An upper bound on the steps to the unlock, or to the end of a call.
StepsLeft(c) == CASE c = "idle" -> 0
                  [] c \in {"reg_return", "rem_return", "in_use"} -> 1
                  [] c \in {"reg_write", "rem_write"} -> 2
                  [] c \in {"reg_truncate", "rem_truncate"} -> 3
                  [] c \in {"reg_load", "rem_load"} -> 4
                  [] c \in {"reg_wait", "rem_wait"} -> 5

\* Once in a call a process only gets closer to its end, and while one has the lock
\* nobody takes a step under it but that process.
NeverBack == [][\A p \in Procs :
                  pc[p] # "idle" /\ pc'[p] # pc[p] =>
                    /\ StepsLeft(pc'[p]) < StepsLeft(pc[p])
                    /\ pc[p] \in LockedPCs => lock = p]_vars

\* Neither register nor remove goes back to the blocking flock: the path that raises
\* InstanceNameInUseError ends the call too, so that the lock is free again after at
\* most four steps of its holder.
THEOREM LockIsFreedSoon == Spec => NeverBack
<1> DEFINE Closer == \A p \in Procs : pc[p] # "idle" /\ pc'[p] # pc[p] =>
                       /\ StepsLeft(pc'[p]) < StepsLeft(pc[p])
                       /\ pc[p] \in LockedPCs => lock = p
<1>1. ASSUME Inv, [Next]_vars PROVE Closer
  <2> USE <1>1 DEF Inv, TypeOK, LockMatchesControl, Goto, StepsLeft, Return
  <2>1. CASE UNCHANGED vars
    BY <2>1 DEF vars
  <2>2. ASSUME NEW p \in Procs, Call(p) PROVE Closer
    BY <2>2 DEF Call, RegisterCall, RemoveCall, Get
  <2>3. ASSUME NEW p \in Procs, Flock(p) PROVE Closer
    BY <2>3 DEF Flock, RegisterFlock, RemoveFlock, LockedPCs
  <2>4. ASSUME NEW p \in Procs, RegisterLoad(p) PROVE Closer
    BY <2>4 DEF RegisterLoad
  <2>5. ASSUME NEW p \in Procs,
               \/ RegisterTruncate(p) \/ RegisterWrite(p)
               \/ RemoveLoad(p) \/ RemoveTruncate(p) \/ RemoveWrite(p)
        PROVE  Closer
    BY <2>5 DEF RegisterTruncate, RegisterWrite, RemoveLoad, RemoveTruncate, RemoveWrite,
                Truncate, Write
  <2>6. ASSUME NEW p \in Procs, RegisterReturn(p) \/ RegisterRaise(p) \/ RemoveReturn(p)
        PROVE  Closer
    BY <2>6 DEF RegisterReturn, RegisterRaise, RemoveReturn
  <2>7. ASSUME NEW p \in Procs, Crash(p) PROVE Closer
    BY <2>7 DEF Crash, PCs, LockedPCs
  <2> QED
    BY <2>1, <2>2, <2>3, <2>4, <2>5, <2>6, <2>7 DEF Next, Locked
<1>2. Inv /\ [Next]_vars => [Closer]_vars
  BY <1>1
<1> QED
  BY Invariance, <1>2, PTL DEF Spec, NeverBack
=============================================================================
