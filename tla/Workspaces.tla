------------------------------ MODULE Workspaces ------------------------------
(***************************************************************************)
(* Concurrent commands of cli/main.py on one instance: workspace add,      *)
(* remove, rename and restore, start, stop and destroy, with the per-user  *)
(* state.lock and the instance's backup.lock, both taken with LOCK_NB.     *)
(*                                                                         *)
(* Every command reads the registry and sandbox.toml before it has a lock  *)
(* and works with that copy to its end.  A workspace named w has its tree  *)
(* at <home>/workspaces/<inst>/w, so a name also stands for a path.  The   *)
(* phases of start and the ways they fail are in Provision; here start is  *)
(* the allocation and the rest.                                            *)
(***************************************************************************)
EXTENDS Integers, FiniteSets

CONSTANTS Procs,        \* operator processes
          NoProc,       \* no process: a lock is free
          Names,        \* workspace names
          Given,        \* the workspaces init made
          Cmds,         \* the commands the processes run
          LongBackups,  \* may a backup outlast the grace, or lose its metadata to a contender?
          Flaky,        \* docker calls that may fail: "probe" is compose-ps, "down" compose-down
          MaxDeaths     \* bound on deaths

AllCmds == {"add", "remove", "remove_backup", "rename", "restore", "start", "stop", "destroy"}

ASSUME WorkspacesAssumption == /\ NoProc \notin Procs
                               /\ Given \subseteq Names /\ Given # {}
                               /\ Cmds \subseteq AllCmds
                               /\ LongBackups \in BOOLEAN
                               /\ Flaky \subseteq {"probe", "down"}
                               /\ MaxDeaths \in Nat

VARIABLES
  dir,         \* instances/<inst>/ exists, with its sandbox.toml
  toml,        \* the names in [workspaces] of sandbox.toml; none if it does not load
  trees,       \* the workspaces whose tree exists
  backups,     \* the workspaces of which a complete backup exists
  registered,  \* the registry has the instance
  slot,        \* the IPAM ledger has a slot for it
  kept,        \* history: a destroy's release of the slot raised and left it booked
  up,          \* its containers run
  mounted,     \* the workspaces they have mounted
  stateLock,   \* holder of state.lock, or NoProc
  backupLock,  \* holder of <inst>.backup.lock, or NoProc
  pc,          \* where each process is
  cmd,         \* its command
  ws, new,     \* its arguments
  snap,        \* the workspaces of the config it loaded
  deaths       \* deaths so far

locals == <<cmd, ws, new, snap>>
disk == <<dir, toml, trees, backups>>
run == <<up, mounted>>
ledgers == <<registered, slot, kept>>
locks == <<stateLock, backupLock>>
vars == <<disk, ledgers, run, locks, pc, locals, deaths>>

PCs == {"idle", "stopped", "query", "backup", "rsync", "lock", "tree", "write", "dump",
        "release", "s_query", "s_ipam", "s_up", "t_down", "d_query", "d_acquire", "d_handover", "d_down",
        "d_backup", "d_lock", "d_teardown", "d_trees", "d_ipam", "d_registry"}

Goto(p, from, to) ==
  /\ pc[p] = from
  /\ pc' = [pc EXCEPT ![p] = to]
  /\ UNCHANGED locals

\* Stands for an argument that is not there.
AnyName == CHOOSE w \in Given : TRUE

\* The process is gone, and what it knew with it.
Gone(p) ==
  /\ pc' = [pc EXCEPT ![p] = "idle"]
  /\ cmd' = [cmd EXCEPT ![p] = "start"]
  /\ ws' = [ws EXCEPT ![p] = AnyName]
  /\ new' = [new EXCEPT ![p] = AnyName]
  /\ snap' = [snap EXCEPT ![p] = Given]

\* The command ends at once: an exit, or an exception nobody catches.
Exit(p, from) == pc[p] = from /\ Gone(p)

Edit == {"add", "remove", "remove_backup", "rename", "restore"}

-----------------------------------------------------------------------------
(* Before the locks *)

\* Mutant: the last workspace may be removed.
BugAccepts(c, w, v) ==
  CASE c = "add"     -> w \notin toml
    [] c \in {"remove", "remove_backup"} -> w \in toml
    [] c = "rename"  -> w \in toml /\ v \notin toml
    [] c = "restore" -> w \notin toml /\ w \in backups
    [] OTHER         -> TRUE

\* The checks of the arguments against the loaded config; remove refuses the
\* last workspace, restore needs a backup.
Accepts(c, w, v) ==
  CASE c = "add"     -> w \notin toml
    [] c \in {"remove", "remove_backup"} -> w \in toml /\ toml # {w}
    [] c = "rename"  -> w \in toml /\ v \notin toml
    [] c = "restore" -> w \notin toml /\ w \in backups
    [] OTHER         -> TRUE

\* _lookup_instance_or_exit, _load_config and the checks of the arguments.  A
\* call that is refused here changes nothing and is left out; an argument the
\* command does not have is AnyName.
Call(p, c, w, v) ==
  /\ registered /\ dir /\ toml # {}
  /\ c # "rename" => v = w
  /\ c \notin Edit => w = AnyName
  /\ Accepts(c, w, v)
  /\ pc[p] = "idle"
  /\ pc' = [pc EXCEPT ![p] = IF c = "destroy" THEN "lock" ELSE "stopped"]
  /\ cmd' = [cmd EXCEPT ![p] = c]
  /\ ws' = [ws EXCEPT ![p] = w]
  /\ new' = [new EXCEPT ![p] = v]
  /\ snap' = [snap EXCEPT ![p] = toml]
  /\ UNCHANGED <<disk, ledgers, run, locks, deaths>>

\* _warm_check; a probe that fails makes a running instance look stopped.
Warm == {up /\ dir} \cup (IF "probe" \in Flaky THEN {FALSE} ELSE {})

\* Mutant: the workspace commands do not ask whether the instance runs.
BugEditsRunning(p) ==
  /\ \E warm \in Warm :
        IF cmd[p] \in Edit \/ warm = (cmd[p] = "stop")
        THEN Goto(p, "stopped", CASE cmd[p] = "remove_backup" -> "backup"
                                  [] cmd[p] \in {"start", "stop"} -> "lock"
                                  [] OTHER -> "query")
        ELSE Exit(p, "stopped")
  /\ UNCHANGED <<disk, ledgers, run, locks, deaths>>

\* start and the workspace commands want the instance stopped, stop running.
CheckStopped(p) ==
  /\ \E warm \in Warm :
        IF warm = (cmd[p] = "stop")
        THEN Goto(p, "stopped", CASE cmd[p] = "remove_backup" -> "backup"
                                  [] cmd[p] \in {"start", "stop"} -> "lock"
                                  [] OTHER -> "query")
        ELSE Exit(p, "stopped")
  /\ UNCHANGED <<disk, ledgers, run, locks, deaths>>

\* is_backup_lock_held, as module BackupLock has it: it can only be wrong by
\* denying a lock whose metadata is older than the grace or was truncated.
Answers == {backupLock # NoProc} \cup (IF LongBackups THEN {FALSE} ELSE {})

\* _refuse_if_backup_in_progress.
CheckBackup(p) ==
  /\ \E held \in Answers :
        IF held THEN Exit(p, "query") ELSE Goto(p, "query", "lock")
  /\ UNCHANGED <<disk, ledgers, run, locks, deaths>>

\* create_backup of remove --backup, without state.lock: the source must be
\* there and backup.lock free.
BackupBegin(p) ==
  /\ IF ws[p] \in trees /\ backupLock = NoProc
     THEN /\ Goto(p, "backup", "rsync")
          /\ backupLock' = p
     ELSE Exit(p, "backup") /\ UNCHANGED backupLock
  /\ UNCHANGED <<disk, ledgers, run, stateLock, deaths>>

\* rsync, metadata and the rename of .partial, or a BackupRsyncError.
BackupEnd(p) ==
  /\ \/ Goto(p, "rsync", "lock") /\ backups' = backups \cup {ws[p]}
     \/ Exit(p, "rsync") /\ UNCHANGED backups
  /\ backupLock' = NoProc
  /\ UNCHANGED <<dir, toml, trees, ledgers, run, stateLock, deaths>>

\* _acquire_state_lock, LOCK_NB.
AcquireState(p) ==
  /\ IF stateLock = NoProc
     THEN /\ Goto(p, "lock", CASE cmd[p] \in {"start", "stop"} -> "s_query"
                               [] cmd[p] = "destroy" -> "d_query"
                               [] OTHER -> "tree")
          /\ stateLock' = p
     ELSE Exit(p, "lock") /\ UNCHANGED stateLock
  /\ UNCHANGED <<disk, ledgers, run, backupLock, deaths>>

-----------------------------------------------------------------------------
(* The workspace commands, under state.lock *)

\* The command changes the trees and goes on to sandbox.toml.
TreesBecome(p, cmds, after) ==
  /\ cmd[p] \in cmds
  /\ Goto(p, "tree", "write")
  /\ trees' = after
  /\ UNCHANGED <<dir, toml, backups, ledgers, run, locks, deaths>>

\* A path is missing or in the way: the call raises, the finally clause unlocks.
TreeRaises(p, cmds) ==
  /\ cmd[p] \in cmds
  /\ Goto(p, "tree", "release")
  /\ UNCHANGED <<disk, ledgers, run, locks, deaths>>

\* A copy fails when the directory is there already.
CopyFails(p, c) ==
  /\ cmd[p] = c
  /\ Goto(p, "tree", "release")
  /\ trees' = trees \cup {ws[p]}
  /\ UNCHANGED <<dir, toml, backups, ledgers, run, locks, deaths>>

\* makedirs(exist_ok=True), then copy_workspace.
AddTree(p) == TreesBecome(p, {"add"}, trees \cup {ws[p]}) \/ CopyFails(p, "add")

\* rmtree(ignore_errors=False); files of a container's subuid make it fail too.
RemoveTree(p) ==
  \/ ws[p] \in trees /\ TreesBecome(p, {"remove", "remove_backup"}, trees \ {ws[p]})
  \/ TreeRaises(p, {"remove", "remove_backup"})

\* R2: os.rename replaces an empty directory and raises on any other.
RenameTree(p) ==
  \/ /\ ws[p] \in trees
     /\ TreesBecome(p, {"rename"}, (trees \ {ws[p]}) \cup {new[p]})
  \/ /\ ws[p] \notin trees \/ new[p] \in trees
     /\ TreeRaises(p, {"rename"})

\* restore_backup: a path that exists is refused, else copytree.
RestoreTree(p) ==
  IF ws[p] \in trees
  THEN TreeRaises(p, {"restore"})
  ELSE TreesBecome(p, {"restore"}, trees \cup {ws[p]}) \/ CopyFails(p, "restore")

\* Mutant: rename adds the new entry and forgets to drop the old one.
BugRenameKeepsOld(p) ==
  CASE cmd[p] \in {"add", "restore"} -> snap[p] \cup {ws[p]}
    [] cmd[p] \in {"remove", "remove_backup"} -> snap[p] \ {ws[p]}
    [] cmd[p] = "rename" -> snap[p] \cup {new[p]}

\* The [workspaces] table a command writes, from the config it loaded.
Table(p) ==
  CASE cmd[p] \in {"add", "restore"} -> snap[p] \cup {ws[p]}
    [] cmd[p] \in {"remove", "remove_backup"} -> snap[p] \ {ws[p]}
    [] cmd[p] = "rename" -> (snap[p] \ {ws[p]}) \cup {new[p]}

\* mutate_workspaces reads the file again, for all but the table, and opens it
\* for writing, which empties it.  Without the file it raises; a file that was
\* empty gets a table and nothing else, and still does not load.
TruncateToml(p) ==
  /\ IF dir /\ toml # {}
     THEN Goto(p, "write", "dump") /\ toml' = {}
     ELSE Goto(p, "write", "release") /\ UNCHANGED toml
  /\ UNCHANGED <<dir, trees, backups, ledgers, run, locks, deaths>>

WriteToml(p) ==
  /\ Goto(p, "dump", "release")
  /\ toml' = Table(p)
  /\ UNCHANGED <<dir, trees, backups, ledgers, run, locks, deaths>>

\* _release_lock at the end of the command; destroy's backup.lock context
\* manager exits right after it.
Release(p) ==
  /\ Exit(p, "release")
  /\ stateLock' = NoProc
  /\ backupLock' = IF backupLock = p THEN NoProc ELSE backupLock
  /\ UNCHANGED <<disk, ledgers, run, deaths>>

-----------------------------------------------------------------------------
(* start and stop, under state.lock *)

\* Mutant: the backup lock is not asked for once state.lock is held.
BugNoQuery(p) ==
  /\ Goto(p, "s_query", IF cmd[p] = "start" THEN "s_ipam" ELSE "t_down")
  /\ UNCHANGED <<disk, ledgers, run, locks, deaths>>

QueryBackup(p) ==
  /\ \E held \in Answers :
        Goto(p, "s_query", IF held THEN "release"
                           ELSE IF cmd[p] = "start" THEN "s_ipam" ELSE "t_down")
  /\ UNCHANGED <<disk, ledgers, run, locks, deaths>>

StartIpam(p) ==
  /\ Goto(p, "s_ipam", "s_up")
  /\ slot' = TRUE
  /\ UNCHANGED <<disk, registered, kept, run, locks, deaths>>

\* Mutant: a workspace tree that is gone is only a warning.
BugMissingTreeIsWarning(p) ==
  /\ Goto(p, "s_up", "release")
  /\ up' = TRUE
  /\ mounted' = snap[p]
  /\ UNCHANGED <<disk, ledgers, locks, deaths>>

\* The other phases: the shared-group recipe fails on a tree that is gone, the
\* ACL grants on an instance directory that is gone; all may fail, compose up
\* also with containers that run.
StartUp(p) ==
  /\ Goto(p, "s_up", "release")
  /\ \/ /\ dir /\ snap[p] \subseteq trees
        /\ up' = TRUE
        /\ mounted' = snap[p]
     \/ UNCHANGED run
  /\ UNCHANGED <<disk, ledgers, locks, deaths>>

\* _compose_down
ContainersDown == up' = FALSE /\ mounted' = {}

\* A compose down that fails ends stop, and the locks go with the process.
StopDown(p) ==
  /\ Goto(p, "t_down", "release")
  /\ ContainersDown \/ ("down" \in Flaky /\ UNCHANGED run)
  /\ UNCHANGED <<disk, ledgers, locks, deaths>>

-----------------------------------------------------------------------------
(* destroy *)

\* D2: state.lock is the gate; backup.lock is taken before it is released.
DestroyQuery(p) ==
  /\ \E held \in Answers :
        Goto(p, "d_query", IF held THEN "release" ELSE "d_acquire")
  /\ UNCHANGED <<disk, ledgers, run, locks, deaths>>

\* Mutant: state.lock is released before backup.lock is taken.
BugReleaseThenAcquire(p) ==
  /\ Goto(p, "d_acquire", "d_handover")
  /\ stateLock' = NoProc
  /\ UNCHANGED <<disk, ledgers, run, backupLock, deaths>>

\* acquire_backup_lock; BackupLockHeldError ends the process and its state.lock.
DestroyAcquire(p) ==
  /\ IF backupLock = NoProc
     THEN /\ Goto(p, "d_acquire", "d_handover")
          /\ backupLock' = p
          /\ UNCHANGED stateLock
     ELSE /\ Exit(p, "d_acquire")
          /\ stateLock' = NoProc
          /\ UNCHANGED backupLock
  /\ UNCHANGED <<disk, ledgers, run, deaths>>

DestroyHandover(p) ==
  /\ Goto(p, "d_handover", "d_down")
  /\ stateLock' = NoProc
  /\ UNCHANGED <<disk, ledgers, run, backupLock, deaths>>

\* D3; a compose down that fails is a warning.
DestroyDown(p) ==
  /\ Goto(p, "d_down", "d_backup")
  /\ ContainersDown \/ ("down" \in Flaky /\ UNCHANGED run)
  /\ UNCHANGED <<disk, ledgers, locks, deaths>>

\* D4: the selected workspaces, all of them or up to one that fails.
DestroyBackup(p) ==
  /\ \E chosen \in SUBSET (snap[p] \cap trees) : backups' = backups \cup chosen
  /\ \/ Goto(p, "d_backup", "d_lock") /\ UNCHANGED backupLock
     \/ Exit(p, "d_backup") /\ backupLock' = NoProc
  /\ UNCHANGED <<dir, toml, trees, ledgers, run, stateLock, deaths>>

\* Mutant: flock without LOCK_NB.
BugLockBlocks(p) ==
  /\ stateLock = NoProc
  /\ Goto(p, "d_lock", "d_teardown")
  /\ stateLock' = p
  /\ UNCHANGED <<disk, ledgers, run, backupLock, deaths>>

\* D5: state.lock again, now inside backup.lock.
DestroyLock(p) ==
  /\ IF stateLock = NoProc
     THEN /\ Goto(p, "d_lock", "d_teardown")
          /\ stateLock' = p
          /\ UNCHANGED backupLock
     ELSE /\ Exit(p, "d_lock")
          /\ backupLock' = NoProc
          /\ UNCHANGED stateLock
  /\ UNCHANGED <<disk, ledgers, run, deaths>>

\* D5 to D7: _phase_stop_teardown, whose failure is a warning, and rmtree of
\* the instance directory, whose failure is not, with sandbox.toml gone or not.
DestroyTeardown(p) ==
  /\ ContainersDown \/ ("down" \in Flaky /\ UNCHANGED run)
  /\ \/ /\ Goto(p, "d_teardown", "d_trees")
        /\ dir' = FALSE
     \/ /\ Goto(p, "d_teardown", "release")
        /\ dir' = FALSE \/ UNCHANGED dir
  /\ UNCHANGED <<toml, trees, backups, ledgers, locks, deaths>>

\* D8 and D9: the trees of the workspaces in the config it loaded; one that
\* cannot be removed is a warning.
DestroyTrees(p) ==
  /\ Goto(p, "d_trees", "d_ipam")
  /\ \E left \in SUBSET (snap[p] \cap trees) : trees' = (trees \ snap[p]) \cup left
  /\ UNCHANGED <<dir, toml, backups, ledgers, run, locks, deaths>>

\* Mutant: only the registry entry is removed.
BugKeepsSlot(p) ==
  /\ Goto(p, "d_ipam", "d_registry")
  /\ UNCHANGED <<disk, ledgers, run, locks, deaths>>

\* D10: a release that raises is a warning, and the slot stays booked.
DestroyIpam(p) ==
  /\ Goto(p, "d_ipam", "d_registry")
  /\ \/ slot' = FALSE /\ UNCHANGED kept
     \/ slot /\ kept' = TRUE /\ UNCHANGED slot
  /\ UNCHANGED <<disk, registered, run, locks, deaths>>

\* A removal that raises is a warning too, and the entry stays.
DestroyRegistry(p) ==
  /\ Goto(p, "d_registry", "release")
  /\ registered' \in {FALSE, registered}
  /\ UNCHANGED <<disk, slot, kept, run, locks, deaths>>

-----------------------------------------------------------------------------

\* The kernel drops the locks of a process that dies, of a write that fails too.
Die(p) ==
  /\ deaths < MaxDeaths
  /\ pc[p] # "idle"
  /\ Gone(p)
  /\ stateLock' = IF stateLock = p THEN NoProc ELSE stateLock
  /\ backupLock' = IF backupLock = p THEN NoProc ELSE backupLock
  /\ deaths' = deaths + 1
  /\ UNCHANGED <<disk, ledgers, run>>

Init ==
  /\ dir = TRUE /\ toml = Given /\ trees = Given /\ backups = {}
  /\ registered = TRUE /\ slot = FALSE /\ kept = FALSE
  /\ up = FALSE /\ mounted = {}
  /\ stateLock = NoProc /\ backupLock = NoProc
  /\ pc = [p \in Procs |-> "idle"]
  /\ cmd = [p \in Procs |-> "start"]
  /\ ws = [p \in Procs |-> AnyName]
  /\ new = ws
  /\ snap = [p \in Procs |-> Given]
  /\ deaths = 0

Step(p) ==
  \/ CheckStopped(p) \/ CheckBackup(p) \/ BackupBegin(p) \/ BackupEnd(p) \/ AcquireState(p)
  \/ AddTree(p) \/ RemoveTree(p) \/ RenameTree(p) \/ RestoreTree(p)
  \/ TruncateToml(p) \/ WriteToml(p) \/ Release(p)
  \/ QueryBackup(p) \/ StartIpam(p) \/ StartUp(p) \/ StopDown(p)
  \/ DestroyQuery(p) \/ DestroyAcquire(p) \/ DestroyHandover(p) \/ DestroyDown(p)
  \/ DestroyBackup(p) \/ DestroyLock(p) \/ DestroyTeardown(p) \/ DestroyTrees(p)
  \/ DestroyIpam(p) \/ DestroyRegistry(p)

Next ==
  \E p \in Procs :
     \/ \E c \in Cmds, w, v \in Names : Call(p, c, w, v)
     \/ Step(p)
     \/ Die(p)

Spec == Init /\ [][Next]_vars

-----------------------------------------------------------------------------
(* Properties *)

StateLocked == {"tree", "write", "dump", "release", "s_query", "s_ipam", "s_up", "t_down",
                "d_query", "d_acquire", "d_handover", "d_teardown", "d_trees", "d_ipam", "d_registry"}
BackupLocked == {"rsync", "d_handover", "d_down", "d_backup", "d_lock",
                 "d_teardown", "d_trees", "d_ipam", "d_registry"}

\* Every variable has its type, and only running containers mount workspaces.
TypeOK ==
  /\ dir \in BOOLEAN /\ up \in BOOLEAN
  /\ registered \in BOOLEAN /\ slot \in BOOLEAN /\ kept \in BOOLEAN
  /\ toml \subseteq Names /\ trees \subseteq Names
  /\ backups \subseteq Names /\ mounted \subseteq Names
  /\ up \/ mounted = {}
  /\ stateLock \in Procs \cup {NoProc} /\ backupLock \in Procs \cup {NoProc}
  /\ pc \in [Procs -> PCs]
  /\ cmd \in [Procs -> AllCmds]
  /\ ws \in [Procs -> Names] /\ new \in [Procs -> Names]
  /\ snap \in [Procs -> SUBSET Names]
  /\ deaths \in 0..MaxDeaths

\* The two locks are held by exactly the processes whose code is between the
\* acquisition and the release, through the handover of destroy too.
LocksMatchControl ==
  /\ \A p \in Procs : pc[p] \in StateLocked => stateLock = p
  /\ \A p \in Procs : pc[p] \in BackupLocked => backupLock = p
  /\ stateLock # NoProc => pc[stateLock] \in StateLocked
  /\ backupLock # NoProc => pc[backupLock] \in BackupLocked \cup {"release"}

\* However the workspace commands overtake each other, each working on an old
\* config, sandbox.toml never loses its last workspace (min_length=1): it is empty
\* only while the holder of state.lock rewrites it, or when a process has died.
AtLeastOneWorkspace ==
  toml # {} \/ deaths > 0 \/ (stateLock # NoProc /\ pc[stateLock] = "dump")

\* When compose down works, a start that looked the instance up before a destroy
\* leaves no containers of an instance that is no longer registered or on disk.
RunningIsRegistered == up => registered /\ dir

\* As long as backups keep a fresh record in the lock file and compose down works,
\* destroy copies no workspace that containers may be writing to: a start cannot slip
\* in where destroy hands state.lock over to backup.lock.
BackupSeesStoppedInstance == \A p \in Procs : pc[p] = "d_backup" => ~up

\* Two commands never wait for each other.  "No code path may acquire `state.lock`
\* while holding any inner lock" (docs/locking.md:30) is to rule that out, but
\* destroy does not keep to it: it takes backup.lock under state.lock and, at D5,
\* state.lock under backup.lock.  What rules it out is LOCK_NB: whoever holds the
\* locks, a command that is under way can take its next step, if only to a refusal.
NobodyWaits == \A p \in Procs : pc[p] # "idle" => ENABLED Step(p)

AtRest == \A p \in Procs : pc[p] = "idle"

\* "all `sandbox` invocations under the same user serialize on this lock":
\* as long as none has died, every workspace in sandbox.toml has its tree between
\* commands.  This holds for commands that follow each other; a lost update breaks it.
ListedTreesExist == (AtRest /\ dir /\ deaths = 0) => toml \subseteq trees

\* "otherwise live bind-mounts disagree with sandbox.toml": when commands follow
\* each other, cut short or not, and the probe answers, running containers mount what is listed.
MountsAgree == (AtRest /\ dir /\ up) => mounted = toml

\* "permanently destroyed. IPAM slot freed for reuse": when commands follow each
\* other, cut short or not, an instance that is no longer registered holds a slot
\* only if the release of that slot raised, which destroy reports as a warning
\* before it prints this line.
DestroyFreesSlot == (AtRest /\ ~registered) => (slot => kept)
================================================================================
