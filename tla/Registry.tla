------------------------------- MODULE Registry -------------------------------
(***************************************************************************)
(* InstanceRegistry of core/registry.py: register and remove under a       *)
(* blocking flock on instances.json.lock, get without it.  As in Ipam, a   *)
(* mutation loads the file, changes the copy and rewrites the file in two  *)
(* visible steps.  An entry is identified by the call that registered it.  *)
(***************************************************************************)
EXTENDS Integers, LedgerFile

CONSTANTS Procs,      \* processes calling the registry
          NoProc,     \* no process: lock free, name unregistered
          Names,      \* instance names
          MaxCrashes  \* bound on deaths and failed writes

ASSUME RegistryAssumption == /\ NoProc \notin Procs
                             /\ Names # {}
                             /\ MaxCrashes \in Nat

VARIABLES
  file,     \* instances.json
  lock,     \* the process with the flock on instances.json.lock, or NoProc
  pc,       \* where each process is in its call
  name,     \* the name argument of the call
  over,     \* the allow_overwrite argument of register
  data,     \* the registry as loaded, and then changed, by the process
  result,   \* how the last call of the process ended
  known,    \* name -> the process whose register of it returned last, or NoProc
  crashes   \* deaths and failed writes so far

vars == <<file, lock, pc, name, over, data, result, known, crashes>>

Maps == [Names -> Procs \cup {NoProc}]
EmptyMap == [n \in Names |-> NoProc]

LockedPCs == {"reg_load", "reg_truncate", "reg_write", "reg_return", "in_use",
              "rem_load", "rem_truncate", "rem_write", "rem_return"}
PCs == LockedPCs \cup {"idle", "reg_wait", "rem_wait"}

Results == {"none", "registered", "name_in_use", "removed", "found", "not_found"}

Goto(p, from, to) == pc[p] = from /\ pc' = [pc EXCEPT ![p] = to]

\* The finally clause: unlock, close, and the call's locals are gone.
Return(p, from, r) ==
  /\ Goto(p, from, "idle")
  /\ lock' = NoProc
  /\ data' = [data EXCEPT ![p] = EmptyMap]
  /\ result' = [result EXCEPT ![p] = r]

-----------------------------------------------------------------------------
(* register *)

\* _open_lock, up to the blocking flock.
RegisterCall(p, n, allow_overwrite) ==
  /\ Goto(p, "idle", "reg_wait")
  /\ name' = [name EXCEPT ![p] = n]
  /\ over' = [over EXCEPT ![p] = allow_overwrite]
  /\ result' = [result EXCEPT ![p] = "none"]
  /\ UNCHANGED <<file, lock, data, known, crashes>>

\* flock(LOCK_EX) waits until the lock is free.
RegisterFlock(p) ==
  /\ lock = NoProc
  /\ Goto(p, "reg_wait", "reg_load")
  /\ lock' = p
  /\ UNCHANGED <<file, name, over, data, result, known, crashes>>

\* Mutant: the name is not checked again under the lock.
BugNoRecheck(p) ==
  /\ Goto(p, "reg_load", "reg_truncate")
  /\ data' = [data EXCEPT ![p] = [Loaded(file, EmptyMap) EXCEPT ![name[p]] = p]]
  /\ UNCHANGED <<file, lock, name, over, result, known, crashes>>

\* _load_raw; a name that is present raises InstanceNameInUseError.
RegisterLoad(p) ==
  LET loaded == Loaded(file, EmptyMap) IN
  /\ IF loaded[name[p]] # NoProc /\ ~over[p]
     THEN Goto(p, "reg_load", "in_use") /\ UNCHANGED data
     ELSE /\ Goto(p, "reg_load", "reg_truncate")
          /\ data' = [data EXCEPT ![p] = [loaded EXCEPT ![name[p]] = p]]
  /\ UNCHANGED <<file, lock, name, over, result, known, crashes>>

\* _write_locked: open(path, "w") truncates, then the dump reaches the file.
Truncate(p, from, to) ==
  /\ Goto(p, from, to)
  /\ file' = Torn(EmptyMap)
  /\ UNCHANGED <<lock, name, over, data, result, known, crashes>>

Write(p, from, to) ==
  /\ Goto(p, from, to)
  /\ file' = Whole(data[p])
  /\ UNCHANGED <<lock, name, over, data, result, known, crashes>>

RegisterTruncate(p) == Truncate(p, "reg_truncate", "reg_write")
RegisterWrite(p) == Write(p, "reg_write", "reg_return")

RegisterReturn(p) ==
  /\ Return(p, "reg_return", "registered")
  /\ known' = [known EXCEPT ![name[p]] = p]
  /\ UNCHANGED <<file, name, over, crashes>>

\* Mutant: a name in use is tried again instead of refused.
BugTriesAgain(p) ==
  /\ Goto(p, "in_use", "reg_wait")
  /\ lock' = NoProc
  /\ UNCHANGED <<file, name, over, data, result, known, crashes>>

RegisterRaise(p) ==
  /\ Return(p, "in_use", "name_in_use")
  /\ UNCHANGED <<file, name, over, known, crashes>>

-----------------------------------------------------------------------------
(* remove *)

RemoveCall(p, n) ==
  /\ Goto(p, "idle", "rem_wait")
  /\ name' = [name EXCEPT ![p] = n]
  /\ result' = [result EXCEPT ![p] = "none"]
  /\ UNCHANGED <<file, lock, over, data, known, crashes>>

\* From here on the instance counts as unregistered.
RemoveFlock(p) ==
  /\ lock = NoProc
  /\ Goto(p, "rem_wait", "rem_load")
  /\ lock' = p
  /\ known' = [known EXCEPT ![name[p]] = NoProc]
  /\ UNCHANGED <<file, name, over, data, result, crashes>>

\* Mutant: the copy to write is not the one loaded under the lock.
BugRemoveWritesStale(p) ==
  /\ Goto(p, "rem_load", "rem_truncate")
  /\ UNCHANGED <<file, lock, name, over, data, result, known, crashes>>

RemoveLoad(p) ==
  /\ Goto(p, "rem_load", "rem_truncate")
  /\ data' = [data EXCEPT ![p] = [Loaded(file, EmptyMap) EXCEPT ![name[p]] = NoProc]]
  /\ UNCHANGED <<file, lock, name, over, result, known, crashes>>

RemoveTruncate(p) == Truncate(p, "rem_truncate", "rem_write")
RemoveWrite(p) == Write(p, "rem_write", "rem_return")

RemoveReturn(p) ==
  /\ Return(p, "rem_return", "removed")
  /\ UNCHANGED <<file, name, over, known, crashes>>

-----------------------------------------------------------------------------
(* get, and all, read whatever the file holds. *)

Get(p, n) ==
  /\ pc[p] = "idle"
  /\ name' = [name EXCEPT ![p] = n]
  /\ result' = [result EXCEPT ![p] = IF Loaded(file, EmptyMap)[n] # NoProc
                                     THEN "found" ELSE "not_found"]
  /\ UNCHANGED <<file, lock, pc, over, data, known, crashes>>

\* The process dies, or its write raises OSError.
Crash(p) ==
  /\ crashes < MaxCrashes
  /\ pc[p] # "idle"
  /\ pc' = [pc EXCEPT ![p] = "idle"]
  /\ lock' = IF lock = p THEN NoProc ELSE lock
  /\ data' = [data EXCEPT ![p] = EmptyMap]
  /\ crashes' = crashes + 1
  /\ UNCHANGED <<file, name, over, result, known>>

-----------------------------------------------------------------------------
Init == /\ file = Absent(EmptyMap)
        /\ lock = NoProc
        /\ pc = [p \in Procs |-> "idle"]
        /\ name = [p \in Procs |-> CHOOSE n \in Names : TRUE]
        /\ over = [p \in Procs |-> FALSE]
        /\ data = [p \in Procs |-> EmptyMap]
        /\ result = [p \in Procs |-> "none"]
        /\ known = EmptyMap
        /\ crashes = 0

Call(p) == \E n \in Names : \/ \E o \in BOOLEAN : RegisterCall(p, n, o)
                            \/ RemoveCall(p, n)
                            \/ Get(p, n)

Flock(p) == RegisterFlock(p) \/ RemoveFlock(p)

Locked(p) == \/ RegisterLoad(p) \/ RegisterTruncate(p) \/ RegisterWrite(p)
             \/ RegisterReturn(p) \/ RegisterRaise(p)
             \/ RemoveLoad(p) \/ RemoveTruncate(p) \/ RemoveWrite(p) \/ RemoveReturn(p)

Next == \E p \in Procs : Call(p) \/ Flock(p) \/ Locked(p) \/ Crash(p)

Spec == Init /\ [][Next]_vars

\* A process with the lock runs on; the kernel hands a lock that is released
\* again and again to every waiter in the end.
FairSpec == Spec /\ \A p \in Procs : WF_vars(Locked(p)) /\ SF_vars(Flock(p))

-----------------------------------------------------------------------------
(* Properties. *)

\* Files, copies and arguments have their types.
TypeOK == /\ file \in Files(Maps)
          /\ lock \in Procs \cup {NoProc}
          /\ pc \in [Procs -> PCs]
          /\ name \in [Procs -> Names]
          /\ over \in [Procs -> BOOLEAN]
          /\ data \in [Procs -> Maps]
          /\ result \in [Procs -> Results]
          /\ known \in Maps
          /\ crashes \in Nat

\* As long as no process dies in a call, the registry holds exactly the
\* entries whose register returned and that nobody removed: concurrent calls
\* for different names lose no update.
NoLostUpdate == (crashes = 0 /\ lock = NoProc) => Loaded(file, EmptyMap) = known

\* As long as no process dies in a call, a name that is in use changes hands
\* only through a removal, or through a register that asked to overwrite: of
\* two concurrent inits one loses.
NoShadowing ==
  [][\A n \in Names :
       crashes = 0 /\ known[n] # NoProc /\ known'[n] \notin {NoProc, known[n]}
       => over[known'[n]]]_vars

\* "Concurrent access is serialized": a get of a name that is registered, and
\* that nobody is removing, finds it, unless it reads the file, as it does
\* without the lock, between truncation and write of another call.
GetFindsRegistered ==
  [][\A p \in Procs, n \in Names :
       Get(p, n) /\ crashes = 0 /\ known[n] # NoProc /\ file.state # "torn"
       => result'[p] = "found"]_vars

\* The process that has truncated the file and not yet written it.
Writer == IF lock # NoProc /\ pc[lock] \in {"reg_write", "rem_write"} THEN lock ELSE NoProc

\* Its copy is the table already; otherwise the file is.
TableNow == IF Writer # NoProc THEN data[Writer] ELSE Loaded(file, EmptyMap)

\* What a control point means to the caller: a refusal takes effect with the
\* load, a change with the truncation.
StageOf(c) == CASE c = "idle" -> "idle"
                [] c \in {"reg_wait", "reg_load", "reg_truncate"} -> "register"
                [] c \in {"reg_write", "reg_return"} -> "registered"
                [] c = "in_use" -> "name_in_use"
                [] c \in {"rem_wait", "rem_load", "rem_truncate"} -> "remove"
                [] c \in {"rem_write", "rem_return"} -> "removed"

Stages == [p \in Procs |-> StageOf(pc[p])]

Table == INSTANCE NameTable WITH table <- TableNow, stage <- Stages, writer <- Writer

\* "Concurrent access is serialized": register, remove and get are atomic
\* operations on one table of names, whoever dies where.  The rewrite in two
\* steps shows in two ways only, which the table names: a get in the gap finds
\* nothing, and a death in it empties the registry.
ImplementsTable == Table!Spec

\* The blocking lock makes a caller wait for others but never for ever.
CallsEnd == \A p \in Procs : pc[p] # "idle" ~> pc[p] = "idle"
=============================================================================
