--------------------------------- MODULE Ipam ---------------------------------
(***************************************************************************)
(* IPAMLedger of core/ipam.py: allocate and release under ipam.json.lock,  *)
(* peek_next_slot without it.  A mutation loads the ledger, changes it in  *)
(* memory and rewrites the file in two visible steps: the truncation by    *)
(* open(path, "w"), and the data reaching the file.                        *)
(*                                                                         *)
(* granted is what the callers rely on: the slot allocate last returned    *)
(* for an instance and nobody has released since, which is the slot whose  *)
(* subnets the instance's containers use.                                  *)
(***************************************************************************)
EXTENDS Integers, FiniteSets, LedgerFile

CONSTANTS Procs,      \* processes calling the ledger
          NoProc,     \* nobody has ipam.json.lock
          Instances,  \* instance names
          MaxSlots,   \* MAX_SLOTS
          MaxCrashes  \* bound on deaths and failed writes

ASSUME IpamAssumption == /\ NoProc \notin Procs
                         /\ Instances # {}
                         /\ MaxSlots \in Nat
                         /\ MaxCrashes \in Nat

VARIABLES
  file,     \* ipam.json
  lock,     \* the process with the flock on ipam.json.lock, or NoProc
  pc,       \* where each process is in its call
  inst,     \* the instance_id argument of the call
  data,     \* the ledger as loaded, and then changed, by the process
  peeked,   \* what the last peek_next_slot of the process returned
  granted,  \* slot in use by each instance, NoSlot for none
  crashes,  \* deaths and failed writes so far
  cut       \* history: one of them was between truncation and write

deaths == <<crashes, cut>>
vars == <<file, lock, pc, inst, data, peeked, granted, deaths>>

NoSlot == -1
Slots == 0..(MaxSlots - 1)
Maps == [Instances -> Slots \cup {NoSlot}]
EmptyMap == [i \in Instances |-> NoSlot]

\* alloc_* and release_* are the steps of allocate and release after the flock.
LockedPCs == {"alloc_load", "alloc_truncate", "alloc_write", "alloc_return", "exhausted",
              "release_load", "release_truncate", "release_write", "release_return"}
PCs == LockedPCs \cup {"idle"}

\* The file is truncated and not yet written.
InTheGap == {"alloc_write", "release_write"}

Goto(p, from, to) == pc[p] = from /\ pc' = [pc EXCEPT ![p] = to]

UsedIndices(m) == {m[i] : i \in Instances} \ {NoSlot}

\* Mutant: the next slot is len(data).
BugSizeAsSlot(m) == {Cardinality({i \in Instances : m[i] # NoSlot})} \cap Slots

\* The candidate the scan over range(MAX_SLOTS) stops at; none when it runs out.
LowestFree(m) ==
  {s \in Slots \ UsedIndices(m) : \A t \in 0..(s - 1) : t \in UsedIndices(m)}

-----------------------------------------------------------------------------
(* allocate *)

\* Mutant: the flock is shared, so a second caller gets it as well.
BugSharedLock(p, i) ==
  /\ Goto(p, "idle", "alloc_load")
  /\ lock' = p
  /\ inst' = [inst EXCEPT ![p] = i]
  /\ UNCHANGED <<file, data, peeked, granted, deaths>>

\* _acquire_lock; a contended call raises IPAMLockException, which changes nothing.
AllocLock(p, i) ==
  /\ lock = NoProc
  /\ Goto(p, "idle", "alloc_load")
  /\ lock' = p
  /\ inst' = [inst EXCEPT ![p] = i]
  /\ UNCHANGED <<file, data, peeked, granted, deaths>>

\* Mutant: an instance that has a slot is given another one.
BugNotIdempotent(p) ==
  LET loaded == Loaded(file, EmptyMap) IN
  /\ \E s \in LowestFree(loaded) :
       data' = [data EXCEPT ![p] = [loaded EXCEPT ![inst[p]] = s]]
  /\ Goto(p, "alloc_load", "alloc_truncate")
  /\ UNCHANGED <<file, lock, inst, peeked, granted, deaths>>

\* _load, then: the existing slot, or the lowest free one, or IPAMExhaustedError.
AllocLoad(p) ==
  LET loaded == Loaded(file, EmptyMap) IN
  /\ \/ /\ loaded[inst[p]] # NoSlot
        /\ data' = [data EXCEPT ![p] = loaded]
        /\ Goto(p, "alloc_load", "alloc_return")
     \/ /\ loaded[inst[p]] = NoSlot
        /\ \E s \in LowestFree(loaded) :
             data' = [data EXCEPT ![p] = [loaded EXCEPT ![inst[p]] = s]]
        /\ Goto(p, "alloc_load", "alloc_truncate")
     \/ /\ loaded[inst[p]] = NoSlot
        /\ LowestFree(loaded) = {}
        /\ data' = [data EXCEPT ![p] = loaded]
        /\ Goto(p, "alloc_load", "exhausted")
  /\ UNCHANGED <<file, lock, inst, peeked, granted, deaths>>

\* _save: open(path, "w") truncates ...
Truncate(p, from, to) ==
  /\ Goto(p, from, to)
  /\ file' = Torn(EmptyMap)
  /\ UNCHANGED <<lock, inst, data, peeked, granted, deaths>>

\* ... and the dump is complete once the file is closed.
Write(p, from, to) ==
  /\ Goto(p, from, to)
  /\ file' = Whole(data[p])
  /\ UNCHANGED <<lock, inst, data, peeked, granted, deaths>>

AllocTruncate(p) == Truncate(p, "alloc_truncate", "alloc_write")
AllocWrite(p) == Write(p, "alloc_write", "alloc_return")

\* The finally clause unlocks, and the caller gets its slot.
AllocReturn(p) ==
  /\ Goto(p, "alloc_return", "idle")
  /\ lock' = NoProc
  /\ granted' = [granted EXCEPT ![inst[p]] = data[p][inst[p]]]
  /\ data' = [data EXCEPT ![p] = EmptyMap]
  /\ UNCHANGED <<file, inst, peeked, deaths>>

AllocExhausted(p) ==
  /\ Goto(p, "exhausted", "idle")
  /\ lock' = NoProc
  /\ data' = [data EXCEPT ![p] = EmptyMap]
  /\ UNCHANGED <<file, inst, peeked, granted, deaths>>

-----------------------------------------------------------------------------
(* release; destroy calls it once the instance's containers are gone. *)

ReleaseLock(p, i) ==
  /\ lock = NoProc
  /\ Goto(p, "idle", "release_load")
  /\ lock' = p
  /\ inst' = [inst EXCEPT ![p] = i]
  /\ granted' = [granted EXCEPT ![i] = NoSlot]
  /\ UNCHANGED <<file, data, peeked, deaths>>

\* data.pop(instance_id, None): the file is rewritten even when nothing was popped.
ReleaseLoad(p) ==
  /\ Goto(p, "release_load", "release_truncate")
  /\ data' = [data EXCEPT ![p] = [Loaded(file, EmptyMap) EXCEPT ![inst[p]] = NoSlot]]
  /\ UNCHANGED <<file, lock, inst, peeked, granted, deaths>>

ReleaseTruncate(p) == Truncate(p, "release_truncate", "release_write")
ReleaseWrite(p) == Write(p, "release_write", "release_return")

ReleaseReturn(p) ==
  /\ Goto(p, "release_return", "idle")
  /\ lock' = NoProc
  /\ data' = [data EXCEPT ![p] = EmptyMap]
  /\ UNCHANGED <<file, inst, peeked, granted, deaths>>

-----------------------------------------------------------------------------
(* peek_next_slot takes no lock and reads whatever the file holds. *)

NoPeek == [inst |-> "none"]
Peeks == [inst : Instances, slot : Slots, existing : BOOLEAN]

\* Mutant: the instance's own entry is not looked up first.
BugPeekSkipsExisting(p, i) ==
  /\ pc[p] = "idle"
  /\ \E s \in LowestFree(Loaded(file, EmptyMap)) :
       peeked' = [peeked EXCEPT ![p] = [inst |-> i, slot |-> s, existing |-> FALSE]]
  /\ UNCHANGED <<file, lock, pc, inst, data, granted, deaths>>

Peek(p, i) ==
  LET loaded == Loaded(file, EmptyMap) IN
  /\ pc[p] = "idle"
  /\ \/ /\ loaded[i] # NoSlot
        /\ peeked' = [peeked EXCEPT ![p] = [inst |-> i, slot |-> loaded[i], existing |-> TRUE]]
     \/ /\ loaded[i] = NoSlot
        /\ \E s \in LowestFree(loaded) :
             peeked' = [peeked EXCEPT ![p] = [inst |-> i, slot |-> s, existing |-> FALSE]]
  /\ UNCHANGED <<file, lock, pc, inst, data, granted, deaths>>

-----------------------------------------------------------------------------
(* The process dies, or its write raises OSError: the flock goes either way. *)

Crash(p) ==
  /\ crashes < MaxCrashes
  /\ pc[p] # "idle"
  /\ pc' = [pc EXCEPT ![p] = "idle"]
  /\ lock' = NoProc
  /\ data' = [data EXCEPT ![p] = EmptyMap]
  /\ crashes' = crashes + 1
  /\ cut' = (cut \/ pc[p] \in InTheGap)
  /\ UNCHANGED <<file, inst, peeked, granted>>

-----------------------------------------------------------------------------
Init == /\ file = Absent(EmptyMap)
        /\ lock = NoProc
        /\ pc = [p \in Procs |-> "idle"]
        /\ inst = [p \in Procs |-> CHOOSE i \in Instances : TRUE]
        /\ data = [p \in Procs |-> EmptyMap]
        /\ peeked = [p \in Procs |-> NoPeek]
        /\ granted = EmptyMap
        /\ crashes = 0 /\ cut = FALSE

Call(p) == \E i \in Instances : AllocLock(p, i) \/ ReleaseLock(p, i) \/ Peek(p, i)

Allocating(p) == \/ AllocLoad(p) \/ AllocTruncate(p) \/ AllocWrite(p)
                 \/ AllocReturn(p) \/ AllocExhausted(p)
Releasing(p) == \/ ReleaseLoad(p) \/ ReleaseTruncate(p)
                \/ ReleaseWrite(p) \/ ReleaseReturn(p)

Next == \E p \in Procs : Call(p) \/ Allocating(p) \/ Releasing(p) \/ Crash(p)

Spec == Init /\ [][Next]_vars

-----------------------------------------------------------------------------
(* Properties. *)

\* Files, copies and grants map instances to slots of the address space or none.
TypeOK == /\ file \in Files(Maps)
          /\ lock \in Procs \cup {NoProc}
          /\ pc \in [Procs -> PCs]
          /\ inst \in [Procs -> Instances]
          /\ data \in [Procs -> Maps]
          /\ peeked \in [Procs -> Peeks \cup {NoPeek}]
          /\ granted \in Maps
          /\ crashes \in Nat /\ cut \in BOOLEAN

\* The flock is exactly with the process inside the try block of its call.
LockMatchesControl == \A p \in Procs : pc[p] \in LockedPCs <=> lock = p

Injective(m) == \A i, j \in Instances : m[i] = m[j] /\ m[i] # NoSlot => i = j

\* Neither ipam.json nor a copy about to be written to it ever gives one slot
\* to two instances, crashes and failed writes included.
LedgerInjective ==
  /\ Injective(file.map)
  /\ \A p \in Procs : pc[p] \in LockedPCs \ {"alloc_load", "release_load"}
                         => Injective(data[p])

\* "each receives a distinct base_index": slots in use are distinct, hence
\* the subnets are disjoint.
GrantedDistinct == Injective(granted)

\* As long as no rewrite is cut short, slots in use are distinct, whoever dies
\* elsewhere in a call.
GrantedDistinctUntilCut == ~cut => GrantedDistinct

\* p is about to write, or has written, the lowest free slot for its instance.
NewGrant(p) ==
  /\ granted[inst[p]] = NoSlot
  /\ \E s \in LowestFree(granted) : data[p] = [granted EXCEPT ![inst[p]] = s]

\* The ledger a reader would load, the copy in the memory of the lock's holder
\* and the slots in use agree at every step of allocate and release.
Tracks ==
  LET loaded == Loaded(file, EmptyMap) IN
  /\ lock = NoProc => loaded = granted
  /\ \A p \in Procs :
       /\ pc[p] \in {"alloc_load", "exhausted", "release_return"} => loaded = granted
       /\ pc[p] \in {"alloc_truncate", "alloc_write"} => NewGrant(p)
       /\ pc[p] = "alloc_return" => loaded = data[p] /\ (data[p] = granted \/ NewGrant(p))
       /\ pc[p] = "release_load" => [loaded EXCEPT ![inst[p]] = NoSlot] = granted
       /\ pc[p] \in {"release_truncate", "release_write"} => data[p] = granted

\* As long as no process dies in a call, no slot leaks and none is forgotten.
LedgerTracksGrants == crashes = 0 => Tracks

\* resolve_fwd_state relies on peek_next_slot being read-only: a peek for an
\* allocated instance finds its slot, unless it reads the file between the
\* truncation and the write of another call, or after a write was cut short.
PeekFindsAllocated ==
  [][\A p \in Procs, i \in Instances :
       Peek(p, i) /\ ~cut /\ granted[i] # NoSlot /\ file.state # "torn"
       => peeked'[p] = [inst |-> i, slot |-> granted[i], existing |-> TRUE]]_vars

\* The copy of a process in the gap is the ledger already; otherwise the file is.
Booked == IF lock # NoProc /\ pc[lock] \in InTheGap THEN data[lock] ELSE Loaded(file, EmptyMap)

\* What a control point of the lock's holder means to the caller: a booking is
\* made or dropped with the truncation.
StageOf(c) == CASE c \in {"alloc_load", "alloc_truncate"} -> "allocate"
                [] c = "alloc_write" -> "booking"
                [] c = "alloc_return" -> "granting"
                [] c = "exhausted" -> "exhausted"
                [] c \in {"release_load", "release_truncate"} -> "release"
                [] c = "release_write" -> "dropping"
                [] c = "release_return" -> "released"

Stage == IF lock = NoProc THEN "idle" ELSE StageOf(pc[lock])

Pool == INSTANCE SlotPool WITH booked <- Booked, caller <- lock, stage <- Stage

\* allocate, release and peek_next_slot are atomic operations on one pool of
\* slots, whoever dies where.  The rewrite in two steps shows in two ways only,
\* which the pool names: a peek in the gap finds it empty, and a death in it
\* empties it.
ImplementsPool == Pool!Spec
=============================================================================
