------------------------------ MODULE BackupLock ------------------------------
(***************************************************************************)
(* The per-instance backup lock of src/core/locks.py, for one instance.    *)
(*                                                                         *)
(* The lock file <home>/state/<inst>.backup.lock carries two things: the   *)
(* kernel's flock on it (holder) and the JSON metadata written into it     *)
(* (meta).  acquire_backup_lock takes the first and then writes the second *)
(* in separate system calls; is_backup_lock_held and the stale branch of   *)
(* acquire_backup_lock read the second before they try the first.  Every   *)
(* system call that another process can observe is an action here, and a   *)
(* process may die between any two of them.                                *)
(***************************************************************************)
EXTENDS Integers

CONSTANTS Procs,        \* processes that use or ask about the lock
          Backers,      \* those of them that may try to acquire it
          NoProc,       \* holder when nobody has the flock
          Grace,        \* STALE_GRACE_SECONDS
          MaxTime,      \* bound on the clock
          MaxCrashes    \* bound on process deaths

ASSUME LockAssumption == /\ NoProc \notin Procs
                         /\ Backers \subseteq Procs
                         /\ Grace \in Nat
                         /\ MaxTime \in Nat
                         /\ MaxCrashes \in Nat

VARIABLES
  now,       \* wall clock in seconds, the resolution of started_at_utc
  holder,    \* the process whose file descriptor has the flock, or NoProc
  meta,      \* what the lock file contains
  pc,        \* where each process is in locks.py
  outcome,   \* how its last call ended
  seen,      \* history: who was in the with-block during the whole of a query
  crashes    \* deaths so far

vars == <<now, holder, meta, pc, outcome, seen, crashes>>

-----------------------------------------------------------------------------
(* The lock file. *)

\* path.exists() is false, or the file is empty, or it holds {"pid", "started_at_utc"}.
Absent == [state |-> "absent", pid |-> NoProc, at |-> 0]
Empty == [state |-> "empty", pid |-> NoProc, at |-> 0]
Full(p, t) == [state |-> "full", pid |-> p, at |-> t]

Metas == [state : {"absent", "empty", "full"}, pid : Procs \cup {NoProc}, at : Nat]

\* is_lock_stale: unreadable and empty files count as stale.
IsLockStale == \/ meta.state # "full"
               \/ now - meta.at > Grace

\* os.ftruncate(fd, 0); every caller opened the file first, so it exists.
Truncate == meta' = Empty

-----------------------------------------------------------------------------
(* Control points. *)

\* Inside acquire_backup_lock, after os.open.
AcquirePCs == {"open", "contended", "takeover", "retry", "locked", "cleared"}

\* Inside the with-block, and its exit after the ftruncate.
InsidePCs == {"inside", "leaving"}

\* Inside is_backup_lock_held.
QueryPCs == {"exists", "fresh", "probing"}

PCs == {"idle"} \cup AcquirePCs \cup InsidePCs \cup QueryPCs

\* Points at which the process's descriptor has the flock.
HoldingPCs == {"locked", "cleared", "inside", "leaving", "probing"}

Outcomes == {"none", "held_error", "blocking_error", "entered", "left",
             "answered_true", "answered_false", "died"}

Goto(p, from, to) == pc[p] = from /\ pc' = [pc EXCEPT ![p] = to]

\* The call returns or raises, and every descriptor it opened is closed.
End(p, from, result) == /\ Goto(p, from, "idle")
                        /\ outcome' = [outcome EXCEPT ![p] = result]

\* The process whose with-block body is running, or NoProc.
Insider == IF \E p \in Procs : pc[p] = "inside"
           THEN CHOOSE p \in Procs : pc[p] = "inside"
           ELSE NoProc

\* When p leaves the with-block, no query under way has it inside throughout.
Unwitness(p) == seen' = [q \in Procs |-> IF seen[q] = p THEN NoProc ELSE seen[q]]

-----------------------------------------------------------------------------
(* acquire_backup_lock. *)

\* os.open(path, O_CREAT | O_RDWR)
AcquireOpen(p) ==
  /\ p \in Backers
  /\ Goto(p, "idle", "open")
  /\ meta' = IF meta.state = "absent" THEN Empty ELSE meta
  /\ outcome' = [outcome EXCEPT ![p] = "none"]
  /\ UNCHANGED <<now, holder, seen, crashes>>

\* The first flock(LOCK_EX | LOCK_NB) succeeds, or raises EWOULDBLOCK.
AcquireFlock(p) ==
  /\ IF holder = NoProc
     THEN Goto(p, "open", "locked") /\ holder' = p
     ELSE Goto(p, "open", "contended") /\ UNCHANGED holder
  /\ UNCHANGED <<now, meta, outcome, seen, crashes>>

\* Contended: read the metadata; fresh metadata means BackupLockHeldError.
AcquireJudge(p) ==
  /\ IF IsLockStale
     THEN Goto(p, "contended", "takeover") /\ UNCHANGED outcome
     ELSE End(p, "contended", "held_error")
  /\ UNCHANGED <<now, holder, meta, seen, crashes>>

\* Judged stale: truncate whatever the file holds by now.
AcquireTakeover(p) ==
  /\ Goto(p, "takeover", "retry")
  /\ Truncate
  /\ UNCHANGED <<now, holder, outcome, seen, crashes>>

\* Mutant: the retry trusts the staleness verdict instead of the flock.
BugRetryTrustsStale(p) ==
  /\ Goto(p, "retry", "locked")
  /\ holder' = p
  /\ UNCHANGED <<now, meta, outcome, seen, crashes>>

\* Mutant: the retry waits for the lock (no LOCK_NB).
BugRetryBlocks(p) ==
  /\ holder = NoProc
  /\ Goto(p, "retry", "locked")
  /\ holder' = p
  /\ UNCHANGED <<now, meta, outcome, seen, crashes>>

\* The second flock is not guarded: on contention its BlockingIOError escapes.
AcquireRetry(p) ==
  /\ \/ /\ holder = NoProc
        /\ Goto(p, "retry", "locked")
        /\ holder' = p
        /\ UNCHANGED outcome
     \/ /\ holder # NoProc
        /\ End(p, "retry", "blocking_error")
        /\ UNCHANGED holder
  /\ UNCHANGED <<now, meta, seen, crashes>>

\* Mutant: the previous contents are not truncated before the write.
BugClearNothing(p) ==
  /\ Goto(p, "locked", "cleared")
  /\ UNCHANGED <<now, holder, meta, outcome, seen, crashes>>

\* ftruncate of the previous contents, then one os.write of the new record.
AcquireClear(p) ==
  /\ Goto(p, "locked", "cleared")
  /\ Truncate
  /\ UNCHANGED <<now, holder, outcome, seen, crashes>>

AcquireWrite(p) ==
  /\ Goto(p, "cleared", "inside")
  /\ meta' = Full(p, now)
  /\ outcome' = [outcome EXCEPT ![p] = "entered"]
  /\ UNCHANGED <<now, holder, seen, crashes>>

\* Mutant: flock(LOCK_UN) before the body's cleanup, so the body still runs.
BugUnlockFirst(p) ==
  /\ pc[p] = "inside" /\ holder = p
  /\ holder' = NoProc
  /\ UNCHANGED <<now, meta, pc, outcome, seen, crashes>>

\* Leaving the with-block: ftruncate, then flock(LOCK_UN) and close.
ReleaseClear(p) ==
  /\ Goto(p, "inside", "leaving")
  /\ Truncate
  /\ Unwitness(p)
  /\ UNCHANGED <<now, holder, outcome, crashes>>

ReleaseUnlock(p) ==
  /\ End(p, "leaving", "left")
  /\ holder' = NoProc
  /\ UNCHANGED <<now, meta, seen, crashes>>

-----------------------------------------------------------------------------
(* is_backup_lock_held. *)

\* path.exists(); seen remembers who is inside the with-block as the query starts.
QueryExists(p) ==
  /\ IF meta.state = "absent"
     THEN End(p, "idle", "answered_false")
     ELSE /\ Goto(p, "idle", "exists")
          /\ outcome' = [outcome EXCEPT ![p] = "none"]
  /\ seen' = [seen EXCEPT ![p] = Insider]
  /\ UNCHANGED <<now, holder, meta, crashes>>

\* is_lock_stale(path): stale metadata answers False without trying the flock.
QueryStale(p) ==
  /\ IF IsLockStale
     THEN End(p, "exists", "answered_false")
     ELSE Goto(p, "exists", "fresh") /\ UNCHANGED outcome
  /\ UNCHANGED <<now, holder, meta, seen, crashes>>

\* Mutant: contention is not caught separately and answers False.
BugContentionIsFalse(p) ==
  /\ End(p, "fresh", "answered_false")
  /\ UNCHANGED <<now, holder, meta, seen, crashes>>

\* os.open + flock(LOCK_EX | LOCK_NB): contention answers True.
QueryFlock(p) ==
  /\ \/ /\ holder = NoProc
        /\ Goto(p, "fresh", "probing")
        /\ holder' = p
        /\ UNCHANGED outcome
     \/ /\ holder # NoProc
        /\ End(p, "fresh", "answered_true")
        /\ UNCHANGED holder
  /\ UNCHANGED <<now, meta, seen, crashes>>

\* The probe got the lock itself, so nobody held it: unlock, answer False.
QueryUnlock(p) ==
  /\ End(p, "probing", "answered_false")
  /\ holder' = NoProc
  /\ UNCHANGED <<now, meta, seen, crashes>>

-----------------------------------------------------------------------------
(* The environment. *)

\* A process dies anywhere: the kernel drops its flock, the file keeps its contents.
Crash(p) ==
  /\ crashes < MaxCrashes
  /\ pc[p] # "idle"
  /\ pc' = [pc EXCEPT ![p] = "idle"]
  /\ outcome' = [outcome EXCEPT ![p] = "died"]
  /\ holder' = IF holder = p THEN NoProc ELSE holder
  /\ Unwitness(p)
  /\ crashes' = crashes + 1
  /\ UNCHANGED <<now, meta>>

Tick == /\ now < MaxTime
        /\ now' = now + 1
        /\ UNCHANGED <<holder, meta, pc, outcome, seen, crashes>>

-----------------------------------------------------------------------------
Init == /\ now = 0
        /\ holder = NoProc
        /\ meta = Absent
        /\ pc = [p \in Procs |-> "idle"]
        /\ outcome = [p \in Procs |-> "none"]
        /\ seen = [p \in Procs |-> NoProc]
        /\ crashes = 0

\* The steps a process takes by itself once it has called into locks.py.
Acquiring(p) == \/ AcquireFlock(p) \/ AcquireJudge(p) \/ AcquireTakeover(p)
                \/ AcquireRetry(p) \/ AcquireClear(p) \/ AcquireWrite(p)
Querying(p) == QueryStale(p) \/ QueryFlock(p) \/ QueryUnlock(p)

ProcStep(p) == \/ AcquireOpen(p) \/ Acquiring(p)
               \/ ReleaseClear(p) \/ ReleaseUnlock(p)
               \/ QueryExists(p) \/ Querying(p)

Next == Tick \/ \E p \in Procs : ProcStep(p) \/ Crash(p)

Spec == Init /\ [][Next]_vars

\* A process inside locks.py keeps running; how long a backup takes is not promised.
FairSpec == Spec /\ \A p \in Procs : /\ WF_vars(Acquiring(p))
                                     /\ WF_vars(Querying(p))
                                     /\ WF_vars(ReleaseUnlock(p))

-----------------------------------------------------------------------------
(* Properties. *)

\* Clock, file contents, control points and histories have their types.
TypeOK == /\ now \in Nat
          /\ holder \in Procs \cup {NoProc}
          /\ meta \in Metas
          /\ pc \in [Procs -> PCs]
          /\ outcome \in [Procs -> Outcomes]
          /\ seen \in [Procs -> Procs \cup {NoProc}]
          /\ crashes \in Nat

\* A process is past a successful flock of locks.py exactly when the kernel
\* says so: no path enters the with-block without the flock, no exit keeps it.
FlockMatchesControl == \A p \in Procs : pc[p] \in HoldingPCs <=> holder = p

\* The bodies of two `with acquire_backup_lock(inst)` blocks never overlap,
\* whatever stale-lock takeovers, queries and deaths happen in between.
MutualExclusion ==
  \A p, q \in Procs : pc[p] \in InsidePCs /\ pc[q] \in InsidePCs => p = q

\* Whatever the lock file says while a backup runs, it says about that backup:
\* a late writer never leaves another process's pid and time in it, and an
\* entering or leaving process never leaves an earlier record behind.
MetadataIsTheInsiders ==
  \A p \in Procs :
    /\ pc[p] = "inside" /\ meta.state = "full" => meta.pid = p
    /\ pc[p] \in {"cleared", "leaving"} => meta.state = "empty"

\* is_backup_lock_held answers False while one process is inside the
\* with-block for the whole of the query only by its judgement of the record:
\* that backup has outlasted the grace, or a contender has cleared the record
\* of a live owner.  It never finds the flock free and never the file missing.
FalseOnlyByStaleRecord ==
  [][\A p \in Procs :
       /\ outcome[p] # "answered_false" /\ outcome'[p] = "answered_false"
       /\ seen'[p] # NoProc
       => /\ pc[p] = "exists"
          /\ \/ meta = Empty
             \/ meta.pid = seen[p] /\ now - meta.at > Grace]_vars

\* A call into locks.py ends or enters the with-block: LOCK_NB everywhere
\* means that no call waits for another process.
CallsEnd == \A p \in Procs :
  pc[p] \in AcquirePCs \cup QueryPCs ~> pc[p] \in {"idle", "inside"}

\* The lock file implements the mutex that BackupMutex promises its callers.
Mutex == INSTANCE BackupMutex WITH owner <- Insider
ImplementsMutex == Mutex!Spec
=============================================================================
