----------------------------- MODULE BackupMutex -----------------------------
(***************************************************************************)
(* What core/locks.py promises about one instance's backup lock: at most   *)
(* one process at a time is inside `with acquire_backup_lock(inst)`, an    *)
(* attempt that loses gives up without changing anything, and the exit or  *)
(* the death of the process inside frees the lock.  How the lock file and  *)
(* its metadata achieve that is BackupLock's business.                     *)
(***************************************************************************)
CONSTANTS Procs,   \* the processes of one user that use the lock
          NoProc   \* nobody

VARIABLE owner     \* the process inside the with-block, or NoProc

TypeOK == owner \in Procs \cup {NoProc}

Init == owner = NoProc

\* Entering the with-block is possible only while nobody is inside.
Enter(p) == owner = NoProc /\ owner' = p

\* Leaving it, normally or by dying, is the owner's own step.
Leave(p) == owner = p /\ owner' = NoProc

Next == \E p \in Procs : Enter(p) \/ Leave(p)

Spec == Init /\ [][Next]_owner
=============================================================================
