---------------------------- MODULE WorkspacesProofs ----------------------------
(***************************************************************************)
(* Workspaces for any processes, names and commands: the locks agree with  *)
(* the control, sandbox.toml keeps a workspace, running containers belong  *)
(* to a registered instance, and a backup by destroy sees a stopped one.   *)
(* For commands that come one at a time: trees, mounts and slot agree with *)
(* sandbox.toml and the registry between them.  Every command is over      *)
(* after a bounded number of steps of its own.                             *)
(***************************************************************************)
EXTENDS Workspaces, TLAPS

\* Which commands can be at which place.
CommandsInPlace ==
  \A p \in Procs : /\ pc[p] \in {"query", "backup", "rsync", "tree", "write", "dump"} => cmd[p] \in Edit
                   /\ pc[p] = "stopped" => cmd[p] # "destroy"
                   /\ pc[p] \in {"s_query", "s_ipam", "s_up", "t_down"} => cmd[p] \in {"start", "stop"}

\* Every loaded config had a workspace, and one more than a remove takes away.
SnapshotsSuffice ==
  \A p \in Procs : /\ snap[p] # {}
                   /\ cmd[p] \in {"remove", "remove_backup"} => snap[p] # {ws[p]}

\* The order in which destroy gives things up.
GivenUpInOrder ==
  /\ ("down" \notin Flaky /\ up) => dir
  /\ dir => registered
  /\ \A p \in Procs : pc[p] \in {"d_trees", "d_ipam", "d_registry"} => ~dir

IInv == TypeOK /\ LocksMatchControl /\ CommandsInPlace /\ SnapshotsSuffice
        /\ AtLeastOneWorkspace /\ GivenUpInOrder

\* AnyName is one of the workspaces that init made.
LEMMA AnyNameGiven == AnyName \in Names
  BY WorkspacesAssumption DEF AnyName

\* The initial state satisfies the inductive invariant.
LEMMA InitInv == Init => IInv
<1> SUFFICES ASSUME Init PROVE IInv
  OBVIOUS
<1> USE WorkspacesAssumption, AnyNameGiven
<1>1. ws \in [Procs -> Names] /\ new \in [Procs -> Names]
  BY DEF Init
<1>2. deaths \in 0..MaxDeaths /\ snap \in [Procs -> SUBSET Names]
  BY DEF Init
<1>3. TypeOK
  BY <1>1, <1>2 DEF Init, TypeOK, PCs, AllCmds
<1> QED
  BY <1>3 DEF Init, IInv, LocksMatchControl, CommandsInPlace, SnapshotsSuffice,
          AtLeastOneWorkspace, GivenUpInOrder, StateLocked, BackupLocked

\* Every step preserves it.
LEMMA NextInv == IInv /\ [Next]_vars => IInv'
<1> SUFFICES ASSUME IInv, [Next]_vars PROVE IInv'
  OBVIOUS
<1> USE WorkspacesAssumption, AnyNameGiven
<1> USE DEF IInv, TypeOK, PCs, AllCmds, Edit, LocksMatchControl, StateLocked, BackupLocked, CommandsInPlace,
          SnapshotsSuffice, AtLeastOneWorkspace, GivenUpInOrder, disk, ledgers, run, locks, locals, Goto, Exit, Gone
<1>1. ASSUME NEW p \in Procs, NEW c \in Cmds, NEW w \in Names, NEW v \in Names, Call(p, c, w, v)
      PROVE  IInv'
  BY <1>1 DEF Call, Accepts
<1>2. ASSUME NEW p \in Procs, CheckStopped(p) PROVE IInv'
  BY <1>2 DEF CheckStopped, Warm
<1>3. ASSUME NEW p \in Procs, CheckBackup(p) PROVE IInv'
  BY <1>3 DEF CheckBackup, Answers
<1>4. ASSUME NEW p \in Procs, BackupBegin(p) PROVE IInv'
  BY <1>4 DEF BackupBegin
<1>5. ASSUME NEW p \in Procs, BackupEnd(p) PROVE IInv'
  BY <1>5 DEF BackupEnd
<1>6. ASSUME NEW p \in Procs, AcquireState(p) PROVE IInv'
  BY <1>6 DEF AcquireState
<1>7. ASSUME NEW p \in Procs, AddTree(p) PROVE IInv'
  BY <1>7 DEF AddTree, TreesBecome, CopyFails
<1>8. ASSUME NEW p \in Procs, RemoveTree(p) PROVE IInv'
  BY <1>8 DEF RemoveTree, TreesBecome, TreeRaises
<1>9. ASSUME NEW p \in Procs, RenameTree(p) PROVE IInv'
  BY <1>9 DEF RenameTree, TreesBecome, TreeRaises
<1>10. ASSUME NEW p \in Procs, RestoreTree(p) PROVE IInv'
  BY <1>10 DEF RestoreTree, TreesBecome, TreeRaises, CopyFails
<1>11. ASSUME NEW p \in Procs, WriteToml(p) PROVE IInv'
  <2>1. cmd[p] \in Edit /\ ws[p] \in Names /\ new[p] \in Names /\ snap[p] \subseteq Names
    BY <1>11 DEF WriteToml
  <2>2. Table(p) \subseteq Names /\ Table(p) # {}
    <3>1. CASE cmd[p] \in {"add", "restore"}
      BY <2>1, <3>1 DEF Table
    <3>2. CASE cmd[p] \in {"remove", "remove_backup"}
      BY <2>1, <3>2 DEF Table
    <3>3. CASE cmd[p] = "rename"
      BY <2>1, <3>3 DEF Table
    <3> QED
      BY <2>1, <3>1, <3>2, <3>3
  <2> QED
    BY <1>11, <2>2 DEF WriteToml
<1>11a. ASSUME NEW p \in Procs, TruncateToml(p) PROVE IInv'
  BY <1>11a DEF TruncateToml
<1>12. ASSUME NEW p \in Procs, Release(p) PROVE IInv'
  BY <1>12 DEF Release
<1>13. ASSUME NEW p \in Procs, QueryBackup(p) PROVE IInv'
  BY <1>13 DEF QueryBackup, Answers
<1>14. ASSUME NEW p \in Procs, StartIpam(p) PROVE IInv'
  BY <1>14 DEF StartIpam
<1>15. ASSUME NEW p \in Procs, StartUp(p) PROVE IInv'
  <2>1. snap[p] \subseteq Names /\ stateLock = p /\ (dir => registered)
    BY <1>15 DEF StartUp
  <2>2. TypeOK'
    BY <1>15, <2>1 DEF StartUp
  <2>3. GivenUpInOrder'
    BY <1>15, <2>1 DEF StartUp
  <2>4. LocksMatchControl' /\ CommandsInPlace'
    BY <1>15 DEF StartUp
  <2>5. SnapshotsSuffice' /\ AtLeastOneWorkspace'
    BY <1>15 DEF StartUp
  <2> HIDE DEF TypeOK, LocksMatchControl, CommandsInPlace, SnapshotsSuffice,
               AtLeastOneWorkspace, GivenUpInOrder
  <2> QED
    BY <2>2, <2>3, <2>4, <2>5
<1>16. ASSUME NEW p \in Procs, StopDown(p) PROVE IInv'
  <2>1. /\ pc[p] = "t_down" /\ pc' = [pc EXCEPT ![p] = "release"]
        /\ UNCHANGED <<disk, ledgers, locks, locals, deaths>>
    BY <1>16 DEF StopDown
  <2>2. (up' = FALSE /\ mounted' = {}) \/ UNCHANGED run
    BY <1>16 DEF StopDown, ContainersDown
  <2>3. TypeOK'
    BY <2>1, <2>2
  <2>4. LocksMatchControl' /\ CommandsInPlace'
    BY <2>1
  <2>5. SnapshotsSuffice' /\ AtLeastOneWorkspace'
    BY <2>1
  <2>6. GivenUpInOrder'
    BY <2>1, <2>2
  <2> HIDE DEF TypeOK, LocksMatchControl, CommandsInPlace, SnapshotsSuffice,
               AtLeastOneWorkspace, GivenUpInOrder
  <2> QED
    BY <2>3, <2>4, <2>5, <2>6
<1>17. ASSUME NEW p \in Procs, DestroyQuery(p) PROVE IInv'
  BY <1>17 DEF DestroyQuery, Answers
<1>18. ASSUME NEW p \in Procs, DestroyAcquire(p) PROVE IInv'
  BY <1>18 DEF DestroyAcquire
<1>19. ASSUME NEW p \in Procs, DestroyHandover(p) PROVE IInv'
  BY <1>19 DEF DestroyHandover
<1>20. ASSUME NEW p \in Procs, DestroyDown(p) PROVE IInv'
  <2>1. /\ pc[p] = "d_down" /\ pc' = [pc EXCEPT ![p] = "d_backup"]
        /\ UNCHANGED <<disk, ledgers, locks, locals, deaths>>
    BY <1>20 DEF DestroyDown
  <2>2. (up' = FALSE /\ mounted' = {}) \/ UNCHANGED run
    BY <1>20 DEF DestroyDown, ContainersDown
  <2>3. TypeOK'
    BY <2>1, <2>2
  <2>4. LocksMatchControl' /\ CommandsInPlace'
    BY <2>1
  <2>5. SnapshotsSuffice' /\ AtLeastOneWorkspace'
    BY <2>1
  <2>6. GivenUpInOrder'
    BY <2>1, <2>2
  <2> HIDE DEF TypeOK, LocksMatchControl, CommandsInPlace, SnapshotsSuffice,
               AtLeastOneWorkspace, GivenUpInOrder
  <2> QED
    BY <2>3, <2>4, <2>5, <2>6
<1>21. ASSUME NEW p \in Procs, DestroyBackup(p) PROVE IInv'
  BY <1>21 DEF DestroyBackup
<1>22. ASSUME NEW p \in Procs, DestroyLock(p) PROVE IInv'
  BY <1>22 DEF DestroyLock
<1>23. ASSUME NEW p \in Procs, DestroyTeardown(p) PROVE IInv'
  <2>1. /\ pc[p] = "d_teardown" /\ stateLock = p /\ backupLock = p
        /\ UNCHANGED <<toml, trees, backups, ledgers, locks, locals, deaths>>
    BY <1>23 DEF DestroyTeardown
  <2>2. \E to \in {"d_trees", "release"} : pc' = [pc EXCEPT ![p] = to] /\ (to = "d_trees" => ~dir')
    BY <1>23 DEF DestroyTeardown
  <2>3. dir' = FALSE \/ dir' = dir
    BY <1>23 DEF DestroyTeardown
  <2>4. (up' = FALSE /\ mounted' = {}) \/ ("down" \in Flaky /\ UNCHANGED <<up, mounted>>)
    BY <1>23 DEF DestroyTeardown, ContainersDown
  <2>5. TypeOK'
    <3>1. dir' \in BOOLEAN /\ up' \in BOOLEAN
      BY <2>3, <2>4, Zenon
    <3>2. mounted' \subseteq Names /\ (up' \/ mounted' = {})
      BY <2>4
    <3>3. pc' \in [Procs -> PCs]
      BY <2>2
    <3>4. registered' \in BOOLEAN /\ slot' \in BOOLEAN /\ toml' \subseteq Names /\ trees' \subseteq Names
      BY <2>1
    <3> QED
      BY <2>1, <3>1, <3>2, <3>3, <3>4
  <2>6. GivenUpInOrder'
    BY <2>1, <2>2, <2>3, <2>4
  <2>7. LocksMatchControl' /\ CommandsInPlace'
    BY <2>1, <2>2
  <2>8. SnapshotsSuffice' /\ AtLeastOneWorkspace'
    BY <2>1
  <2> HIDE DEF TypeOK, LocksMatchControl, CommandsInPlace, SnapshotsSuffice,
               AtLeastOneWorkspace, GivenUpInOrder
  <2> QED
    BY <2>5, <2>6, <2>7, <2>8
<1>24. ASSUME NEW p \in Procs, DestroyTrees(p) PROVE IInv'
  BY <1>24 DEF DestroyTrees
<1>25. ASSUME NEW p \in Procs, DestroyIpam(p) PROVE IInv'
  BY <1>25 DEF DestroyIpam
<1>26. ASSUME NEW p \in Procs, DestroyRegistry(p) PROVE IInv'
  BY <1>26 DEF DestroyRegistry
<1>27. ASSUME NEW p \in Procs, Die(p) PROVE IInv'
  BY <1>27 DEF Die
<1>28. CASE UNCHANGED vars
  BY <1>28 DEF vars
<1> QED
  BY <1>1, <1>2, <1>3, <1>4, <1>5, <1>6, <1>7, <1>8, <1>9, <1>10, <1>11, <1>11a, <1>12, <1>13,
     <1>14, <1>15, <1>16, <1>17, <1>18, <1>19, <1>20, <1>21, <1>22, <1>23, <1>24,
     <1>25, <1>26, <1>27, <1>28
  DEF Next, Step

-----------------------------------------------------------------------------

\* The inductive invariant holds in every reachable state.
THEOREM Invariance == Spec => []IInv
  BY InitInv, NextInv, PTL DEF Spec

\* Every variable keeps its type, with any processes and workspace names.
THEOREM TypeCorrect == Spec => []TypeOK
<1>1. IInv => TypeOK
  BY DEF IInv
<1> QED
  BY <1>1, Invariance, PTL

\* state.lock and backup.lock are held by exactly the processes whose code is
\* between acquisition and release, through destroy's handover of one for the other.
THEOREM LocksAgree == Spec => []LocksMatchControl
<1>1. IInv => LocksMatchControl
  BY DEF IInv
<1> QED
  BY <1>1, Invariance, PTL

\* However many workspace commands overlap, mutate_workspaces never writes an
\* empty table: the check of remove against its own old config is enough.  The
\* file is empty only inside its rewrite, or when a process has died.
THEOREM TomlKeepsAWorkspace == Spec => []AtLeastOneWorkspace
<1>1. IInv => AtLeastOneWorkspace
  BY DEF IInv
<1> QED
  BY <1>1, Invariance, PTL

\* When compose down works, a start that raced a destroy never leaves
\* containers of an instance that is no longer on disk or registered.
THEOREM NoOrphanContainers ==
  ASSUME "down" \notin Flaky
  PROVE  Spec => []RunningIsRegistered
<1>1. IInv => RunningIsRegistered
  BY DEF IInv, GivenUpInOrder, RunningIsRegistered
<1> QED
  BY <1>1, Invariance, PTL

-----------------------------------------------------------------------------
(* With backups that end within the grace and a compose down that works, the
   backup of destroy sees a stopped instance. *)

\* After its query of backup.lock, a start meets that lock only in the hands of
\* a remove --backup, which does not need state.lock, and never of a destroy.
BackupInv ==
  \A p \in Procs : /\ pc[p] \in {"s_ipam", "s_up"} =>
                        backupLock = NoProc \/ pc[backupLock] = "rsync"
                   /\ pc[p] = "d_backup" => ~up

\* No process is in its backup phase while the containers run: destroy takes
\* backup.lock before it lets go of state.lock, and start asks for it after
\* it has state.lock.
THEOREM DestroyBacksUpAtRest ==
  ASSUME ~LongBackups, "down" \notin Flaky
  PROVE  Spec => []BackupSeesStoppedInstance
<1> USE WorkspacesAssumption
<1>1. Init => BackupInv
  BY DEF Init, BackupInv
<1>2. IInv /\ BackupInv /\ [Next]_vars => BackupInv'
  <2> SUFFICES ASSUME IInv, BackupInv, [Next]_vars PROVE BackupInv'
    OBVIOUS
  <2> USE DEF BackupInv, disk, ledgers, run, locks, locals, Goto, Exit, Gone
  <2>0. /\ pc \in [Procs -> PCs] /\ cmd \in [Procs -> AllCmds] /\ LocksMatchControl
        /\ backupLock \in Procs \cup {NoProc}
    BY DEF IInv, TypeOK
  <2> USE <2>0
  <2>1. ASSUME NEW p \in Procs, NEW c \in Cmds, NEW w \in Names, NEW v \in Names, Call(p, c, w, v)
        PROVE  BackupInv'
    BY <2>1 DEF Call
  <2>2. ASSUME NEW p \in Procs, CheckStopped(p) PROVE BackupInv'
    BY <2>2 DEF CheckStopped
  <2>3. ASSUME NEW p \in Procs, CheckBackup(p) PROVE BackupInv'
    BY <2>3 DEF CheckBackup
  <2>4. ASSUME NEW p \in Procs, BackupBegin(p) PROVE BackupInv'
    BY <2>4 DEF BackupBegin
  <2>5. ASSUME NEW p \in Procs, BackupEnd(p) PROVE BackupInv'
    BY <2>5 DEF BackupEnd
  <2>6. ASSUME NEW p \in Procs, AcquireState(p) PROVE BackupInv'
    BY <2>6 DEF AcquireState
  <2>7. ASSUME NEW p \in Procs, AddTree(p) PROVE BackupInv'
    BY <2>7 DEF AddTree, TreesBecome, CopyFails
  <2>8. ASSUME NEW p \in Procs, RemoveTree(p) PROVE BackupInv'
    BY <2>8 DEF RemoveTree, TreesBecome, TreeRaises
  <2>9. ASSUME NEW p \in Procs, RenameTree(p) PROVE BackupInv'
    BY <2>9 DEF RenameTree, TreesBecome, TreeRaises
  <2>10. ASSUME NEW p \in Procs, RestoreTree(p) PROVE BackupInv'
    BY <2>10 DEF RestoreTree, TreesBecome, TreeRaises, CopyFails
  <2>11. ASSUME NEW p \in Procs, WriteToml(p) PROVE BackupInv'
    BY <2>11 DEF WriteToml
  <2>11a. ASSUME NEW p \in Procs, TruncateToml(p) PROVE BackupInv'
    BY <2>11a DEF TruncateToml
  <2>12. ASSUME NEW p \in Procs, Release(p) PROVE BackupInv'
    BY <2>12 DEF Release
  <2>13. ASSUME NEW p \in Procs, QueryBackup(p) PROVE BackupInv'
    BY <2>13 DEF QueryBackup, Answers
  <2>14. ASSUME NEW p \in Procs, StartIpam(p) PROVE BackupInv'
    BY <2>14 DEF StartIpam
  <2>15. ASSUME NEW p \in Procs, StartUp(p) PROVE BackupInv'
    BY <2>15 DEF StartUp, LocksMatchControl, BackupLocked
  <2>16. ASSUME NEW p \in Procs, StopDown(p) PROVE BackupInv'
    BY <2>16 DEF StopDown, ContainersDown
  <2>17. ASSUME NEW p \in Procs, DestroyQuery(p) PROVE BackupInv'
    BY <2>17 DEF DestroyQuery
  <2>18. ASSUME NEW p \in Procs, DestroyAcquire(p) PROVE BackupInv'
    BY <2>18 DEF DestroyAcquire, LocksMatchControl, StateLocked
  <2>19. ASSUME NEW p \in Procs, DestroyHandover(p) PROVE BackupInv'
    BY <2>19 DEF DestroyHandover
  <2>20. ASSUME NEW p \in Procs, DestroyDown(p) PROVE BackupInv'
    BY <2>20 DEF DestroyDown, ContainersDown
  <2>21. ASSUME NEW p \in Procs, DestroyBackup(p) PROVE BackupInv'
    BY <2>21 DEF DestroyBackup
  <2>22. ASSUME NEW p \in Procs, DestroyLock(p) PROVE BackupInv'
    BY <2>22 DEF DestroyLock
  <2>23. ASSUME NEW p \in Procs, DestroyTeardown(p) PROVE BackupInv'
    BY <2>23 DEF DestroyTeardown, ContainersDown
  <2>24. ASSUME NEW p \in Procs, DestroyTrees(p) PROVE BackupInv'
    BY <2>24 DEF DestroyTrees
  <2>25. ASSUME NEW p \in Procs, DestroyIpam(p) PROVE BackupInv'
    BY <2>25 DEF DestroyIpam
  <2>26. ASSUME NEW p \in Procs, DestroyRegistry(p) PROVE BackupInv'
    BY <2>26 DEF DestroyRegistry
  <2>27. ASSUME NEW p \in Procs, Die(p) PROVE BackupInv'
    BY <2>27 DEF Die
  <2>28. CASE UNCHANGED vars
    BY <2>28 DEF vars
  <2> QED
    BY <2>1, <2>2, <2>3, <2>4, <2>5, <2>6, <2>7, <2>8, <2>9, <2>10, <2>11, <2>11a, <2>12, <2>13,
       <2>14, <2>15, <2>16, <2>17, <2>18, <2>19, <2>20, <2>21, <2>22, <2>23, <2>24,
       <2>25, <2>26, <2>27, <2>28
    DEF Next, Step
<1>3. BackupInv => BackupSeesStoppedInstance
  BY DEF BackupInv, BackupSeesStoppedInstance
<1> QED
  BY <1>1, <1>2, <1>3, Invariance, PTL DEF Spec

-----------------------------------------------------------------------------
(* Commands that follow each other, of any number of processes: whenever one  *)
(* is under way, the others are idle.                                         *)

OneAtATime == \A p, q \in Procs : pc[p] # "idle" /\ pc[q] # "idle" => p = q

\* The points from which a command has not changed sandbox.toml or the directory.
BeforeWrite == PCs \ {"idle", "dump", "release", "d_trees", "d_ipam", "d_registry"}

\* The config a command loaded is the one on disk until the command changes it.
SnapshotsFresh ==
  \A p \in Procs :
    /\ pc[p] \in BeforeWrite => dir /\ toml # {} /\ snap[p] = toml
    /\ pc[p] \notin {"idle", "release"} => registered

\* Trees change before the table does.
TreesFollow ==
  (dir /\ deaths = 0) =>
     /\ (\A p \in Procs : pc[p] \notin {"write", "dump"}) => toml \subseteq trees
     /\ \A p \in Procs : pc[p] \in {"write", "dump"} => Table(p) \subseteq trees

\* Workspaces are edited only while nothing has them mounted.
MountsFollow ==
  "probe" \notin Flaky =>
     /\ (dir /\ up) => mounted = toml
     /\ \A p \in Procs : (pc[p] \notin {"idle", "stopped"} /\ cmd[p] \in Edit) => ~up

\* The slot goes before the registry entry, or is kept by a release that raised.
SlotFollows ==
  /\ ~registered => (slot => kept)
  /\ \A p \in Procs : pc[p] = "d_registry" => (slot => kept)

SerialInv == SnapshotsFresh /\ TreesFollow /\ MountsFollow /\ SlotFollows

\* Every step of the one command under way preserves it.
LEMMA SerialStep ==
  IInv /\ SerialInv /\ OneAtATime /\ OneAtATime' /\ [Next]_vars => SerialInv'
<1> SUFFICES ASSUME IInv, SerialInv, OneAtATime, OneAtATime', [Next]_vars PROVE SerialInv'
  OBVIOUS
<1>0. TypeOK /\ CommandsInPlace
  BY DEF IInv
<1> USE <1>0, WorkspacesAssumption
<1> USE DEF SerialInv, OneAtATime, BeforeWrite, PCs, TypeOK, SnapshotsFresh, TreesFollow, MountsFollow,
          SlotFollows, disk, ledgers, run, locks, locals, Goto, Exit, Gone
<1>1. ASSUME NEW p \in Procs, NEW c \in Cmds, NEW w \in Names, NEW v \in Names, Call(p, c, w, v)
      PROVE  SerialInv'
  <2>1. /\ UNCHANGED <<disk, ledgers, run, deaths>> /\ registered /\ dir /\ toml # {}
        /\ cmd' = [cmd EXCEPT ![p] = c] /\ snap' = [snap EXCEPT ![p] = toml]
        /\ pc[p] = "idle" /\ pc' = [pc EXCEPT ![p] = IF c = "destroy" THEN "lock" ELSE "stopped"]
    BY <1>1 DEF Call
  <2>2. \A q \in Procs \ {p} : pc[q] = "idle" /\ pc'[q] = "idle"
    BY <2>1
  <2>3. pc'[p] \in {"lock", "stopped"} /\ snap'[p] = toml /\ (cmd'[p] \in Edit => pc'[p] = "stopped")
    BY <2>1 DEF Edit
  <2> QED
    BY <2>1, <2>2, <2>3
<1>2. ASSUME NEW p \in Procs, CheckStopped(p) PROVE SerialInv'
  <2>1. /\ UNCHANGED <<disk, ledgers, run, deaths>> /\ pc[p] = "stopped"
        /\ \A q \in Procs \ {p} : pc[q] = "idle" /\ pc'[q] = "idle"
    BY <1>2 DEF CheckStopped
  <2>2. \/ pc'[p] = "idle"
        \/ /\ pc'[p] \in {"backup", "lock", "query"} /\ snap'[p] = snap[p] /\ cmd'[p] = cmd[p]
           /\ (cmd[p] \in Edit /\ "probe" \notin Flaky) => ~up
    <3>1. PICK warm \in Warm :
             IF warm = (cmd[p] = "stop")
             THEN /\ pc' = [pc EXCEPT ![p] = CASE cmd[p] = "remove_backup" -> "backup"
                                              [] cmd[p] \in {"start", "stop"} -> "lock"
                                              [] OTHER -> "query"]
                  /\ UNCHANGED locals
             ELSE pc' = [pc EXCEPT ![p] = "idle"]
      BY <1>2, Zenon DEF CheckStopped
    <3>2. warm \in BOOLEAN /\ ("probe" \notin Flaky => (warm <=> up /\ dir))
      BY Zenon DEF Warm
    <3>3. CASE warm = (cmd[p] = "stop")
      <4>1. (cmd[p] \in Edit /\ "probe" \notin Flaky) => ~up
        BY <2>1, <3>2, <3>3 DEF Edit
      <4> QED
        BY <3>1, <3>3, <4>1
    <3>4. CASE warm # (cmd[p] = "stop")
      BY <3>1, <3>4
    <3> QED
      BY <3>3, <3>4
  <2> QED
    BY <2>1, <2>2
<1>3. ASSUME NEW p \in Procs, CheckBackup(p) PROVE SerialInv'
  BY <1>3 DEF CheckBackup, Answers
<1>4. ASSUME NEW p \in Procs, BackupBegin(p) PROVE SerialInv'
  BY <1>4 DEF BackupBegin
<1>5. ASSUME NEW p \in Procs, BackupEnd(p) PROVE SerialInv'
  BY <1>5 DEF BackupEnd
<1>6. ASSUME NEW p \in Procs, AcquireState(p) PROVE SerialInv'
  BY <1>6 DEF AcquireState
<1>7. ASSUME NEW p \in Procs, AddTree(p) PROVE SerialInv'
  BY <1>7 DEF AddTree, TreesBecome, CopyFails, Table
<1>8. ASSUME NEW p \in Procs, RemoveTree(p) PROVE SerialInv'
  BY <1>8 DEF RemoveTree, TreesBecome, TreeRaises, Table
<1>9. ASSUME NEW p \in Procs, RenameTree(p) PROVE SerialInv'
  BY <1>9 DEF RenameTree, TreesBecome, TreeRaises, Table
<1>10. ASSUME NEW p \in Procs, RestoreTree(p) PROVE SerialInv'
  BY <1>10 DEF RestoreTree, TreesBecome, TreeRaises, CopyFails, Table
<1>11. ASSUME NEW p \in Procs, TruncateToml(p) PROVE SerialInv'
  <2>1. pc[p] = "write" /\ dir /\ toml # {}
    BY <1>11 DEF TruncateToml
  <2>2. /\ UNCHANGED <<dir, trees, ledgers, run, locals, deaths>> /\ pc'[p] = "dump"
        /\ \A q \in Procs \ {p} : pc[q] = "idle" /\ pc'[q] = "idle"
    BY <1>11, <2>1 DEF TruncateToml
  <2>3. Table(p)' = Table(p)
    BY <2>2, Zenon DEF Table
  <2>4. cmd[p] \in Edit
    BY <2>1 DEF CommandsInPlace
  <2> QED
    BY <2>1, <2>2, <2>3, <2>4
<1>12. ASSUME NEW p \in Procs, WriteToml(p) PROVE SerialInv'
  <2>1. /\ UNCHANGED <<dir, trees, ledgers, run, locals, deaths>> /\ toml' = Table(p)
        /\ pc[p] = "dump" /\ pc'[p] = "release" /\ cmd[p] \in Edit
        /\ \A q \in Procs \ {p} : pc[q] = "idle" /\ pc'[q] = "idle"
    BY <1>12 DEF WriteToml, CommandsInPlace
  <2> QED
    BY <2>1
<1>13. ASSUME NEW p \in Procs, Release(p) PROVE SerialInv'
  BY <1>13 DEF Release
<1>14. ASSUME NEW p \in Procs, QueryBackup(p) PROVE SerialInv'
  BY <1>14 DEF QueryBackup, Answers
<1>15. ASSUME NEW p \in Procs, StartIpam(p) PROVE SerialInv'
  BY <1>15 DEF StartIpam
<1>16. ASSUME NEW p \in Procs, StartUp(p) PROVE SerialInv'
  <2>1. /\ UNCHANGED <<disk, ledgers, locals, deaths>> /\ cmd[p] \notin Edit
        /\ pc[p] = "s_up" /\ pc'[p] = "release" /\ snap[p] = toml
        /\ \A q \in Procs \ {p} : pc[q] = "idle" /\ pc'[q] = "idle"
    BY <1>16 DEF StartUp, CommandsInPlace, Edit
  <2>2. (up' = TRUE /\ mounted' = snap[p]) \/ UNCHANGED run
    BY <1>16 DEF StartUp
  <2> QED
    BY <2>1, <2>2
<1>17. ASSUME NEW p \in Procs, StopDown(p) PROVE SerialInv'
  BY <1>17 DEF StopDown, ContainersDown
<1>18. ASSUME NEW p \in Procs, DestroyQuery(p) PROVE SerialInv'
  BY <1>18 DEF DestroyQuery, Answers
<1>19. ASSUME NEW p \in Procs, DestroyAcquire(p) PROVE SerialInv'
  BY <1>19 DEF DestroyAcquire
<1>20. ASSUME NEW p \in Procs, DestroyHandover(p) PROVE SerialInv'
  BY <1>20 DEF DestroyHandover
<1>21. ASSUME NEW p \in Procs, DestroyDown(p) PROVE SerialInv'
  BY <1>21 DEF DestroyDown, ContainersDown
<1>22. ASSUME NEW p \in Procs, DestroyBackup(p) PROVE SerialInv'
  BY <1>22 DEF DestroyBackup
<1>23. ASSUME NEW p \in Procs, DestroyLock(p) PROVE SerialInv'
  BY <1>23 DEF DestroyLock
<1>24. ASSUME NEW p \in Procs, DestroyTeardown(p) PROVE SerialInv'
  BY <1>24 DEF DestroyTeardown, ContainersDown
<1>25. ASSUME NEW p \in Procs, DestroyTrees(p) PROVE SerialInv'
  <2>1. /\ UNCHANGED <<dir, toml, ledgers, run, locals, deaths>> /\ ~dir
        /\ pc[p] = "d_trees" /\ pc'[p] = "d_ipam"
        /\ \A q \in Procs \ {p} : pc[q] = "idle" /\ pc'[q] = "idle"
    BY <1>25 DEF DestroyTrees, IInv, GivenUpInOrder
  <2> QED
    BY <2>1
<1>26. ASSUME NEW p \in Procs, DestroyIpam(p) PROVE SerialInv'
  BY <1>26 DEF DestroyIpam
<1>27. ASSUME NEW p \in Procs, DestroyRegistry(p) PROVE SerialInv'
  BY <1>27 DEF DestroyRegistry
<1>28. ASSUME NEW p \in Procs, Die(p) PROVE SerialInv'
  BY <1>28 DEF Die
<1>29. CASE UNCHANGED vars
  BY <1>29 DEF vars, Table
<1> QED
  BY <1>1, <1>2, <1>3, <1>4, <1>5, <1>6, <1>7, <1>8, <1>9, <1>10, <1>11, <1>12, <1>13, <1>14, <1>15, <1>16, <1>17, <1>18, <1>19, <1>20, <1>21, <1>22, <1>23, <1>24, <1>25, <1>26, <1>27, <1>28, <1>29
  DEF Next, Step

\* It holds as long as commands follow each other.
LEMMA SerialInvariance == Spec /\ []OneAtATime => []SerialInv
<1>1. Init => SerialInv
  BY DEF Init, SerialInv, SnapshotsFresh, BeforeWrite, TreesFollow, MountsFollow, SlotFollows
<1> QED
  BY Invariance, SerialStep, <1>1, PTL DEF Spec

\* Commands that follow each other keep trees and table together, whichever of
\* them are refused or fail half-way: a listed workspace has its tree between commands.
THEOREM SerialTreesExist == Spec /\ []OneAtATime => []ListedTreesExist
<1>1. SerialInv => ListedTreesExist
  BY DEF SerialInv, TreesFollow, ListedTreesExist, AtRest
<1> QED
  BY SerialInvariance, <1>1, PTL

\* When commands follow each other and the probe answers, running containers
\* mount what sandbox.toml lists, also after a death or a failed compose down.
THEOREM SerialMountsAgree ==
  ASSUME "probe" \notin Flaky
  PROVE  Spec /\ []OneAtATime => []MountsAgree
<1>1. SerialInv => MountsAgree
  BY DEF SerialInv, MountsFollow, MountsAgree
<1> QED
  BY SerialInvariance, <1>1, PTL

\* When commands follow each other, also after a death anywhere in destroy, an
\* instance that is no longer registered holds a slot only if the release of
\* that slot raised, which destroy treats as a warning.
THEOREM SerialDestroyFreesSlot == Spec /\ []OneAtATime => []DestroyFreesSlot
<1>1. SerialInv => DestroyFreesSlot
  BY DEF SerialInv, SlotFollows, DestroyFreesSlot
<1> QED
  BY SerialInvariance, <1>1, PTL
-----------------------------------------------------------------------------
(* Every command is short: the half of termination that is a safety property. *)

\* An upper bound on the steps a command has left at each place.
StepsLeft(c) ==
  CASE c = "idle" -> 0
    [] c = "release" -> 1
    [] c \in {"dump", "s_up", "t_down", "d_registry"} -> 2
    [] c \in {"write", "s_ipam", "d_ipam"} -> 3
    [] c \in {"tree", "s_query", "d_trees"} -> 4
    [] c = "d_teardown" -> 5
    [] c = "d_lock" -> 6
    [] c = "d_backup" -> 7
    [] c = "d_down" -> 8
    [] c = "d_handover" -> 9
    [] c = "d_acquire" -> 10
    [] c = "d_query" -> 11
    [] c = "lock" -> 12
    [] c \in {"rsync", "query"} -> 13
    [] c = "backup" -> 14
    [] c = "stopped" -> 15

\* A command under way never goes back, whatever the others do meanwhile.
NeverBack == [][\A p \in Procs : pc[p] # "idle" /\ pc'[p] # pc[p]
                               => StepsLeft(pc'[p]) < StepsLeft(pc[p])]_vars

\* A step of a process takes it closer to its end and leaves the others where they are.
LEMMA StepGoesOn ==
  ASSUME NEW p \in Procs, TypeOK, Step(p)
  PROVE  /\ StepsLeft(pc'[p]) < StepsLeft(pc[p])
         /\ \A q \in Procs \ {p} : pc'[q] = pc[q]
<1> USE DEF TypeOK, Goto, Exit, Gone, StepsLeft
<1>1. CASE CheckStopped(p)
  BY <1>1 DEF CheckStopped
<1>2. CASE CheckBackup(p)
  BY <1>2 DEF CheckBackup
<1>3. CASE BackupBegin(p)
  BY <1>3 DEF BackupBegin
<1>4. CASE BackupEnd(p)
  BY <1>4 DEF BackupEnd
<1>5. CASE AcquireState(p)
  BY <1>5 DEF AcquireState
<1>6. CASE AddTree(p)
  BY <1>6 DEF AddTree, TreesBecome, CopyFails
<1>7. CASE RemoveTree(p)
  BY <1>7 DEF RemoveTree, TreesBecome, TreeRaises
<1>8. CASE RenameTree(p)
  BY <1>8 DEF RenameTree, TreesBecome, TreeRaises
<1>9. CASE RestoreTree(p)
  BY <1>9 DEF RestoreTree, TreesBecome, TreeRaises, CopyFails
<1>10. CASE TruncateToml(p)
  BY <1>10 DEF TruncateToml
<1>11. CASE WriteToml(p)
  BY <1>11 DEF WriteToml
<1>12. CASE Release(p)
  BY <1>12 DEF Release
<1>13. CASE QueryBackup(p)
  BY <1>13 DEF QueryBackup
<1>14. CASE StartIpam(p)
  BY <1>14 DEF StartIpam
<1>15. CASE StartUp(p)
  BY <1>15 DEF StartUp
<1>16. CASE StopDown(p)
  BY <1>16 DEF StopDown
<1>17. CASE DestroyQuery(p)
  BY <1>17 DEF DestroyQuery
<1>18. CASE DestroyAcquire(p)
  BY <1>18 DEF DestroyAcquire
<1>19. CASE DestroyHandover(p)
  BY <1>19 DEF DestroyHandover
<1>20. CASE DestroyDown(p)
  BY <1>20 DEF DestroyDown
<1>21. CASE DestroyBackup(p)
  BY <1>21 DEF DestroyBackup
<1>22. CASE DestroyLock(p)
  BY <1>22 DEF DestroyLock
<1>23. CASE DestroyTeardown(p)
  BY <1>23 DEF DestroyTeardown
<1>24. CASE DestroyTrees(p)
  BY <1>24 DEF DestroyTrees
<1>25. CASE DestroyIpam(p)
  BY <1>25 DEF DestroyIpam
<1>26. CASE DestroyRegistry(p)
  BY <1>26 DEF DestroyRegistry
<1> QED
  BY <1>1, <1>2, <1>3, <1>4, <1>5, <1>6, <1>7, <1>8, <1>9, <1>10, <1>11, <1>12, <1>13, <1>14, <1>15, <1>16, <1>17, <1>18, <1>19, <1>20, <1>21, <1>22, <1>23, <1>24, <1>25, <1>26 DEF Step

\* No command of cli/main.py tries again: a lock that is taken, a probe that fails and a
\* backup under way all lead forward to an exit, so that every command ends after at
\* most fifteen steps of its own, for any number of processes.
THEOREM CommandsAreShort == Spec => NeverBack
<1> DEFINE Closer == \A p \in Procs : pc[p] # "idle" /\ pc'[p] # pc[p]
                                     => StepsLeft(pc'[p]) < StepsLeft(pc[p])
<1>1. ASSUME TypeOK, [Next]_vars PROVE Closer
  <2>1. ASSUME NEW p \in Procs, NEW c \in Cmds, NEW w \in Names, NEW v \in Names, Call(p, c, w, v)
        PROVE  Closer
    BY <1>1, <2>1 DEF Call, TypeOK
  <2>2. ASSUME NEW p \in Procs, Step(p) PROVE Closer
    BY <1>1, <2>2, StepGoesOn
  <2>3. ASSUME NEW p \in Procs, Die(p) PROVE Closer
    BY <1>1, <2>3 DEF Die, Gone, TypeOK, PCs, StepsLeft
  <2>4. CASE UNCHANGED vars
    BY <2>4 DEF vars
  <2> QED
    BY <1>1, <2>1, <2>2, <2>3, <2>4 DEF Next
<1>2. TypeOK /\ [Next]_vars => [Closer]_vars
  BY <1>1
<1> QED
  BY TypeCorrect, <1>2, PTL DEF Spec, NeverBack
=================================================================================
