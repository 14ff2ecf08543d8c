---------------------------- MODULE ProvisionProofs ----------------------------
(***************************************************************************)
(* Proofs about Provision for any number of faults and any choice of the   *)
(* phases in which they strike.                                            *)
(*                                                                         *)
(* None of the properties is inductive: each speaks of a command that has  *)
(* ended, and holds because of what the phases before had done.  The parts *)
(* of IInv say what is known in each phase: always (InPhase), in a destroy *)
(* that has met no fault (CleanDestroy), while nothing has gone wrong since *)
(* the last clean destroy (Harmless), and after a single fault (OneFault). *)
(***************************************************************************)
EXTENDS Provision, TLAPS

NoneConsumers == \A f \in Managed : own[f] # "consumer"
NoneManaged == \A f \in Managed : Absent(f)
TornDown == ~up /\ acl = "none" /\ NoneManaged

AfterRmtree == {"d_trees", "d_ipam", "d_registry"}
AfterVolumes == AfterRmtree \cup {"d_unlink", "d_revoke", "d_rmtree"}

\* What the guards of the commands and the phases passed so far establish.
InPhase ==
  /\ pc \in StartPhases \cup StopPhases \cup DestroyPhases \cup {"i_secrets", "i_sentinel"} => registered
  /\ pc \in InitPhases \ {"i_secrets", "i_sentinel"} => ~registered
  /\ pc \notin AfterRmtree \cup {"idle", "i_dirs", "i_toml"} => ~Absent("toml")
  /\ pc \in StartPhases \ {"s_ipam"} => slot
  /\ pc # "idle" => last.end = "running"
  /\ pc \in InitPhases => last.cmd = "init"
  /\ pc \in StartPhases => last.cmd = "start"
  /\ pc \in StopPhases => last.cmd = "stop"

\* A fault leaves its mark on the command and on the history.
FaultsRecorded ==
  /\ harm = "none" => ~last.fault
  /\ faults = 0 => harm = "none"

\* A destroy that has met no fault has undone what its phases undo.
CleanDestroy ==
  (pc \in DestroyPhases /\ ~last.fault) =>
    /\ pc # "d_down" => ~up
    /\ pc \in AfterRmtree \cup {"d_revoke", "d_rmtree"} => NoneManaged
    /\ pc \in AfterRmtree \cup {"d_rmtree"} => acl = "none"
    /\ pc \in AfterRmtree => \A f \in Files \ {"trees"} : Absent(f)

\* While nothing has gone wrong: what a command finds, and what it has so far.
AtRestIsClean ==
  pc = "idle" =>
    /\ ~registered => ~up /\ Absent("env")
    /\ registered => ~Absent("toml")
    /\ up => acl = "all" /\ ~Absent("compose")
    /\ ~up => acl = "none" /\ NoneConsumers
InitIsClean ==
  pc \in InitPhases =>
    /\ ~up /\ acl = "none" /\ NoneConsumers
    /\ pc \in {"i_dirs", "i_toml", "i_env"} => Absent("env")
StartIsClean ==
  pc \in StartPhases =>
    /\ ~up
    /\ pc # "s_compose" => NoneConsumers
    /\ acl = (IF pc \in {"s_ipam", "s_shared", "s_acl"} THEN "none" ELSE "all")
    /\ pc \in {"s_auth_pub", "s_host", "s_host_pub", "s_reconcile"} => ~Absent("ipc_ssh_key")
    /\ pc = "s_reconcile" => ~Absent("ipc_known_hosts")
    /\ pc \in {"s_grant", "s_mkdir", "s_cp", "s_compose"} => ~Absent("compose")
    /\ pc # "s_cleanup"
StopIsClean ==
  pc \in StopPhases =>
    /\ pc # "t_down" => ~up
    /\ pc = "t_revoke" => NoneConsumers
KnownHostsKept ==
  (pc # "s_host_pub" /\ ~Absent("ipc_host_key")) => ~Absent("ipc_known_hosts")

Harmless ==
  harm = "none" =>
    /\ last.end \notin {"failed", "raised"}
    /\ AtRestIsClean /\ InitIsClean /\ StartIsClean /\ StopIsClean /\ KnownHostsKept

\* After at most one fault.
OneFault ==
  faults <= 1 =>
    /\ up => slot /\ registered
    /\ pc \in {"d_backup", "d_volumes"} /\ faults = 0 => ~up
    /\ pc \in AfterVolumes => ~up
    /\ pc \in AfterRmtree => TornDown
    /\ pc = "s_cleanup" => faults = 1
    /\ pc = "idle" /\ registered /\ Absent("toml") => TornDown

IInv == /\ TypeOK /\ InPhase /\ FaultsRecorded /\ CleanDestroy /\ Harmless /\ OneFault
        /\ HostKeysAgree /\ FailedStartRevokes /\ UnloadableIsTornDown

-----------------------------------------------------------------------------
(* What the building blocks of the actions do to control and history. *)

Lasts == [cmd : Commands, end : Endings, fault : BOOLEAN]
Control == /\ pc \in Phases \cup {"idle"}
           /\ last \in Lasts
           /\ harm \in {"none", "failure", "death"}
           /\ faults \in 0..MaxFaults

\* A command begins, with no fault so far.
LEMMA BeginFacts ==
  ASSUME Control, NEW cmd \in Commands, NEW phase \in Phases, Begin(cmd, phase)
  PROVE  /\ Control' /\ UNCHANGED <<harm, faults>>
         /\ pc = "idle" /\ pc' = phase
         /\ last'.cmd = cmd /\ last'.end = "running" /\ ~last'.fault
<1>1. Record(cmd, "running", FALSE) \in Lasts
  BY DEF Record, Lasts, Endings
<1> QED
  BY <1>1 DEF Begin, Record, Control

\* A command that is refused or fails at once changes nothing but the history.
LEMMA BeginAndEndFacts ==
  ASSUME Control, NEW cmd \in Commands, NEW end \in Endings, BeginAndEnd(cmd, end)
  PROVE  /\ Control' /\ UNCHANGED <<own, auth, host, acl, up, slot, registered, harm, faults>>
         /\ pc = "idle" /\ pc' = "idle"
         /\ last'.cmd = cmd /\ last'.end = end /\ ~last'.fault
<1>1. Record(cmd, end, FALSE) \in Lasts
  BY DEF Record, Lasts
<1> QED
  BY <1>1 DEF BeginAndEnd, Record, Control, keys, state

\* A phase goes through.
LEMMA AdvanceFacts ==
  ASSUME Control, NEW from, NEW to \in Phases, Advance(from, to)
  PROVE  Control' /\ UNCHANGED <<last, harm, faults>> /\ pc = from /\ pc' = to
  BY DEF Advance, Control, past

\* The last phase ends the command.
LEMMA EndFacts ==
  ASSUME Control, NEW from, NEW end \in Endings, End(from, end)
  PROVE  /\ Control' /\ UNCHANGED <<harm, faults>>
         /\ pc = from /\ pc' = "idle"
         /\ last'.cmd = last.cmd /\ last'.end = end /\ last'.fault = last.fault
<1>1. last' = [last EXCEPT !.end = end] /\ UNCHANGED <<harm, faults>> /\ pc = from /\ pc' = "idle"
  BY DEF End
<1>2. last' \in Lasts /\ last'.end = end /\ last'.cmd = last.cmd /\ last'.fault = last.fault
  BY <1>1 DEF Control, Lasts
<1> QED
  BY <1>1, <1>2 DEF Control

\* A fault is counted and never forgotten within the command.
Faulted == /\ faults' = faults + 1
           /\ harm' # "none"
           /\ harm = "death" => harm' = "death"
           /\ last'.fault

\* A fault is within the bound and harms.
LEMMA FaultFacts ==
  ASSUME Control, NEW phases, NEW h \in {"failure", "death"}, Fault(phases, h)
  PROVE  /\ harm' \in {"failure", "death"} /\ (harm = "death" \/ h = "death" => harm' = "death")
         /\ faults' = faults + 1 /\ faults' \in 0..MaxFaults
  BY ProvisionAssumption DEF Fault, Control

\* An operation fails and the command goes on.
LEMMA FailToFacts ==
  ASSUME Control, NEW from, NEW to \in Phases, FailTo(from, to)
  PROVE  /\ Control' /\ Faulted
         /\ pc = from /\ pc' = to
         /\ last'.cmd = last.cmd /\ last'.end = last.end
<1>1. last' = [last EXCEPT !.fault = TRUE] /\ pc = from /\ pc' = to
  BY DEF FailTo
<1>2. last' \in Lasts /\ last'.fault /\ last'.cmd = last.cmd /\ last'.end = last.end
  BY <1>1 DEF Control, Lasts
<1>3. Fault(MayFail, "failure")
  BY DEF FailTo
<1> QED
  BY <1>1, <1>2, <1>3, FaultFacts DEF Control, Faulted

\* An operation fails and the command ends.
LEMMA FailEndFacts ==
  ASSUME Control, NEW from, NEW end \in Endings, FailEnd(from, end)
  PROVE  /\ Control' /\ Faulted
         /\ pc = from /\ pc' = "idle"
         /\ last'.cmd = last.cmd /\ last'.end = end
<1>1. last' = [last EXCEPT !.end = end, !.fault = TRUE] /\ pc = from /\ pc' = "idle"
  BY DEF FailEnd
<1>2. last' \in Lasts /\ last'.fault /\ last'.cmd = last.cmd /\ last'.end = end
  BY <1>1 DEF Control, Lasts
<1>3. Fault(MayFail, "failure")
  BY DEF FailEnd
<1> QED
  BY <1>1, <1>2, <1>3, FaultFacts DEF Control, Faulted

\* The process dies.
LEMMA DieFacts ==
  ASSUME Control, Die
  PROVE  /\ Control' /\ Faulted /\ harm' = "death"
         /\ UNCHANGED <<own, auth, host, acl, up, slot, registered>>
         /\ pc # "idle" /\ pc' = "idle"
         /\ last'.cmd = last.cmd /\ last'.end = "died"
<1>1. /\ last' = [last EXCEPT !.end = "died", !.fault = TRUE] /\ pc # "idle" /\ pc' = "idle"
      /\ UNCHANGED <<own, auth, host, acl, up, slot, registered>>
  BY DEF Die, keys, state
<1>2. last' \in Lasts /\ last'.fault /\ last'.cmd = last.cmd /\ last'.end = "died"
  BY <1>1 DEF Control, Lasts, Endings
<1>3. Fault(MayDie, "death")
  BY DEF Die
<1> QED
  BY <1>1, <1>2, <1>3, FaultFacts DEF Control, Faulted

\* The probe is lost and start goes on with a running instance.
LEMMA ProbeLostFacts ==
  ASSUME Control, StartProbeLost
  PROVE  /\ Control' /\ Faulted
         /\ UNCHANGED <<own, auth, host, acl, up, slot, registered>>
         /\ pc = "idle" /\ pc' = "s_ipam"
         /\ last'.cmd = "start" /\ last'.end = "running"
         /\ registered /\ ~Absent("toml") /\ up
<1>1. /\ last' = Record("start", "running", TRUE) /\ pc = "idle" /\ pc' = "s_ipam"
      /\ UNCHANGED <<own, auth, host, acl, up, slot, registered>>
      /\ registered /\ ~Absent("toml") /\ up
  BY DEF StartProbeLost, keys, state, StartReady, Warm
<1>2. last' \in Lasts /\ last'.fault /\ last'.cmd = "start" /\ last'.end = "running"
  BY <1>1 DEF Record, Lasts, Commands, Endings
<1>3. Fault(MayFail, "failure")
  BY DEF StartProbeLost
<1> QED
  BY <1>1, <1>2, <1>3, FaultFacts DEF Control, Faulted, Phases, StartPhases

\* destroy ends, and forgets the harm when it met no fault itself.
LEMMA RegistryFacts ==
  ASSUME Control, DestroyRegistry
  PROVE  /\ Control' /\ UNCHANGED <<own, auth, host, acl, up, slot, faults>>
         /\ pc = "d_registry" /\ pc' = "idle"
         /\ last'.cmd = last.cmd /\ last'.end = "destroyed" /\ last'.fault = last.fault
         /\ registered' = FALSE
         /\ harm' = IF last.fault THEN harm ELSE "none"
<1>1. /\ last' = [last EXCEPT !.end = "destroyed"] /\ pc = "d_registry" /\ pc' = "idle"
      /\ registered' = FALSE /\ UNCHANGED <<own, auth, host, acl, up, slot, faults>>
      /\ harm' = IF last.fault THEN harm ELSE "none"
  BY DEF DestroyRegistry, keys
<1>2. /\ last' \in Lasts /\ last'.fault = last.fault
      /\ last'.cmd = last.cmd /\ last'.end = "destroyed"
  BY <1>1 DEF Control, Lasts, Endings
<1> QED
  BY <1>1, <1>2 DEF Control

-----------------------------------------------------------------------------
(* The actions in groups that the proofs treat alike: those that go well, by the   *)
(* part of the command, and those in which something fails.                        *)

AtOnce ==
  \/ InitRefused \/ StartRefused \/ StartNoConfig \/ StartWarm \/ StopRefused \/ StopNoConfig
  \/ StopCold \/ DestroyRefused \/ DestroyNoConfig
Begins == InitBegin \/ StartBegin \/ StopBegin \/ DestroyBegin
InitSteps ==
  \/ InitDirs \/ InitToml \/ InitEnv \/ InitAcls \/ InitRegister \/ InitSecrets \/ InitSentinel
StartGrants == StartIpam \/ StartShared \/ StartAcl
StartKeys == StartAuth \/ StartAuthPub \/ StartHost \/ StartHostPub \/ StartReconcile
StartApplies ==
  \/ StartHydrate \/ StartGrant \/ StartMkdir \/ StartCp \/ StartCompose \/ StartCleanup
StopSteps == StopDown \/ StopUnlink \/ StopRevoke
DestroyStops == DestroyDown \/ DestroyBackup \/ DestroyVolumes \/ DestroyUnlink \/ DestroyRevoke
DestroyRemoves == DestroyRmtree \/ DestroyTrees \/ DestroyIpam
StartBreaks ==
  \/ StartFailsEarly \/ StartAclFails \/ StartHydrateFails \/ StartGrantFails
  \/ StartMkdirFails
ContainersBreak == StartComposeFails \/ StartCleanupFails \/ StopDownFails \/ StopRevokeFails
UnlinkBreaks == StopUnlinkFails \/ DestroyUnlinkFails
DestroyBreaks ==
  \/ DestroyDownFails \/ DestroyAborts \/ DestroyVolumesFails \/ DestroyRevokeFails
  \/ DestroyTreesFails \/ DestroyIpamFails \/ DestroyRegistryFails

Faulty ==
  \/ StartBreaks \/ ContainersBreak \/ UnlinkBreaks \/ DestroyBreaks \/ StartProbeLost
  \/ StartCpFails \/ DestroyRmtreeFails \/ Die

\* A step is of one of these kinds.
LEMMA StepKinds ==
  ASSUME [Next]_vars
  PROVE  \/ AtOnce \/ Begins \/ InitSteps \/ StartGrants \/ StartKeys \/ StartApplies
         \/ StopSteps \/ DestroyStops \/ DestroyRemoves \/ DestroyRegistry
         \/ Faulty \/ UNCHANGED vars
  BY DEF Next, InitCommand, StartCommand, StopCommand, DestroyCommand, AtOnce, Begins,
     InitSteps, StartGrants, StartKeys, StartApplies, StopSteps, DestroyStops, DestroyRemoves,
     StartBreaks, ContainersBreak, UnlinkBreaks, DestroyBreaks, Faulty

\* A command that ends at once changes nothing but the history, and it fails
\* only for want of a config.
LEMMA AtOnceFacts ==
  ASSUME Control, AtOnce
  PROVE  /\ Control' /\ UNCHANGED <<own, auth, host, acl, up, slot, registered, harm, faults>>
         /\ pc = "idle" /\ pc' = "idle"
         /\ last'.end # "failed" /\ ~last'.fault
         /\ last'.end = "raised" => registered /\ Absent("toml")
  BY BeginAndEndFacts DEF AtOnce, Commands, Endings, StartReady, InitRefused, StartRefused,
     StartNoConfig, StartWarm, StopRefused, StopNoConfig, StopCold, DestroyRefused, DestroyNoConfig

\* init begins on an unknown name, the other commands on a registered instance
\* with a config, start on one that does not run.
LEMMA BeginsFacts ==
  ASSUME Control, Begins
  PROVE  /\ Control' /\ UNCHANGED <<own, auth, host, acl, up, slot, registered, harm, faults>>
         /\ pc = "idle"
         /\ last'.end = "running" /\ ~last'.fault
         /\ \/ pc' = "i_dirs" /\ last'.cmd = "init" /\ ~registered
            \/ /\ registered /\ ~Absent("toml")
               /\ \/ pc' = "s_ipam" /\ last'.cmd = "start" /\ ~(~Absent("compose") /\ up)
                  \/ pc' = "t_down" /\ last'.cmd = "stop"
                  \/ pc' = "d_down" /\ last'.cmd = "destroy"
<1> USE BeginFacts DEF Commands, Phases, InitPhases, StartPhases, StopPhases, DestroyPhases,
        keys, state
<1>1. CASE InitBegin
  BY <1>1 DEF InitBegin
<1>2. CASE StartBegin
  BY <1>2 DEF StartBegin, StartReady, Warm
<1>3. CASE StopBegin
  BY <1>3 DEF StopBegin
<1>4. CASE DestroyBegin
  BY <1>4 DEF DestroyBegin
<1> QED
  BY <1>1, <1>2, <1>3, <1>4 DEF Begins

\* Every way to fail or die is counted and leaves its mark.
LEMMA FaultyFacts ==
  ASSUME Control, Faulty
  PROVE  Control' /\ Faulted
  BY FailToFacts, FailEndFacts, ProbeLostFacts, DieFacts
  DEF Faulty, Phases, StartPhases, StopPhases, DestroyPhases, Endings,
      StartBreaks, ContainersBreak, UnlinkBreaks, DestroyBreaks, StartFailsEarly,
     StartAclFails, StartHydrateFails, StartGrantFails, StartMkdirFails, StartComposeFails,
     StartCleanupFails, StopDownFails, StopRevokeFails, StopUnlinkFails, DestroyUnlinkFails,
     DestroyDownFails, DestroyAborts, DestroyVolumesFails, DestroyRevokeFails,
     DestroyTreesFails, DestroyIpamFails, DestroyRegistryFails, StartCpFails,
     DestroyRmtreeFails, UnlinkFails

-----------------------------------------------------------------------------
(* What the building blocks do to the files. *)

FilesTyped == /\ own \in [Files -> Owners]
              /\ \A f \in Files \ (Managed \cup {"leaves"}) : own[f] # "consumer"

\* The operator's writes and removals keep every file's owner typed.
LEMMA WriteFacts ==
  ASSUME FilesTyped, NEW S, Write(S)
  PROVE  FilesTyped' /\ \A f \in Files : own'[f] = IF f \in S THEN "dev" ELSE own[f]
  BY DEF FilesTyped, Write, Owners

\* So do removals.
LEMMA UnlinkFacts ==
  ASSUME FilesTyped, NEW S, Unlink(S)
  PROVE  FilesTyped' /\ \A f \in Files : own'[f] = IF f \in S THEN "absent" ELSE own[f]
  BY DEF FilesTyped, Unlink, Owners

\* So does the helper's chown, which makes no file that is not there.
LEMMA ChownFacts ==
  ASSUME FilesTyped, NEW S \in SUBSET Managed, Chown(S)
  PROVE  /\ FilesTyped'
         /\ \A f \in Files : own'[f] = IF f \in S /\ ~Absent(f) THEN "consumer" ELSE own[f]
<1>1. \A f \in Files : own'[f] = IF f \in S /\ ~Absent(f) THEN "consumer" ELSE own[f]
  BY DEF Chown
<1> QED
  BY <1>1 DEF FilesTyped, Chown, Owners

\* A helper that stops half-way has worked on whole groups of the managed files.
LEMMA HelperGroupsFacts ==
  ASSUME NEW n \in 0..Len(HelperGroups)
  PROVE  UNION {HelperGroups[i] : i \in 1..n} \in SUBSET Managed
<1>1. Len(HelperGroups) = 3
  BY DEF HelperGroups
<1>2. \A i \in 1..3 : HelperGroups[i] \subseteq Managed
  BY DEF HelperGroups, Managed
<1> QED
  BY <1>1, <1>2

Flags == /\ auth \in BOOLEAN /\ host \in BOOLEAN
         /\ acl \in {"none", "some", "all"}
         /\ up \in BOOLEAN /\ slot \in BOOLEAN /\ registered \in BOOLEAN

\* An unlink that fails leaves some of the files, and with the host key its public half.
LEMMA UnlinkFailsFacts ==
  ASSUME FilesTyped, Flags, NEW from, NEW to, UnlinkFails(from, to)
  PROVE  /\ FailTo(from, to) /\ UNCHANGED <<acl, up, slot, registered>>
         /\ FilesTyped' /\ auth' \in BOOLEAN /\ host' \in BOOLEAN
         /\ \A f \in Files \ Managed : own'[f] = own[f]
         /\ \A f \in Managed : own'[f] \in {own[f], "absent"}
         /\ own'["ipc_host_key"] # "absent" => host' = host
<1>1. FailTo(from, to) /\ UNCHANGED <<acl, up, slot, registered>>
  BY DEF UnlinkFails, state
<1>2. PICK kept \in SUBSET Managed :
         /\ Unlink(Managed \ kept)
         /\ auth' = (auth /\ "authorized_keys" \in kept)
         /\ host' = (host /\ "ipc_host_key" \in kept)
  BY DEF UnlinkFails
<1>3. FilesTyped' /\ \A f \in Files : own'[f] = IF f \in Managed \ kept THEN "absent" ELSE own[f]
  BY <1>2, UnlinkFacts
<1>4. auth' \in BOOLEAN /\ host' \in BOOLEAN
  BY <1>2, Zenon
<1>5. Managed \subseteq Files /\ "ipc_host_key" \in Managed
  BY DEF Files, Managed
<1>6. own'["ipc_host_key"] # "absent" => host' = host
  BY <1>2, <1>3, <1>5 DEF Flags
<1> QED
  BY <1>1, <1>3, <1>4, <1>5, <1>6

\* The types in three parts.
LEMMA TypeParts == TypeOK <=> Control /\ FilesTyped /\ Flags
  BY DEF TypeOK, Control, Lasts, FilesTyped, Flags

-----------------------------------------------------------------------------
(* Every step preserves the inductive invariant, part by part. *)

\* Types: no step leaves them.
LEMMA TypeStep == TypeOK /\ [Next]_vars => (Control /\ FilesTyped /\ Flags)'
<1> SUFFICES ASSUME TypeOK, [Next]_vars PROVE (Control /\ FilesTyped /\ Flags)'
  OBVIOUS
<1>0. Control /\ FilesTyped /\ Flags
  BY TypeParts
<1> USE <1>0
<1> USE DEF InitPhases, StartPhases, StopPhases, DestroyPhases, Phases, Commands, Endings,
     keys, state, past, Managed, Files, Rendered, Owners, FilesTyped, Flags
<1>1. CASE AtOnce
  BY <1>1, AtOnceFacts
<1>2. CASE Begins
  BY <1>2, BeginsFacts
<1>3. CASE InitSteps
  BY <1>3, AdvanceFacts, WriteFacts, EndFacts
  DEF InitSteps, InitDirs, InitToml, InitEnv, InitAcls, InitRegister, InitSecrets, InitSentinel
<1>4. CASE StartGrants
  BY <1>4, AdvanceFacts DEF StartGrants, StartIpam, StartShared, StartAcl
<1>5. CASE StartKeys
  BY <1>5, AdvanceFacts, WriteFacts, EndFacts
  DEF StartKeys, StartAuth, StartAuthPub, StartHost, StartHostPub, StartReconcile
<1>6. CASE StartApplies
  BY <1>6, AdvanceFacts, EndFacts, WriteFacts, ChownFacts
  DEF StartApplies, StartHydrate, StartGrant, StartMkdir, StartCp, StartCompose, StartCleanup
<1>7. CASE StopSteps
  BY <1>7, AdvanceFacts, UnlinkFacts, EndFacts
  DEF StopSteps, StopDown, ComposeDown, StopUnlink, UnlinkConsumerFiles, StopRevoke
<1>8. CASE DestroyStops
  BY <1>8, AdvanceFacts, UnlinkFacts
  DEF DestroyStops, DestroyDown, ComposeDown, DestroyBackup, DestroyVolumes, DestroyUnlink,
     UnlinkConsumerFiles, DestroyRevoke
<1>9. CASE DestroyRemoves
  BY <1>9, AdvanceFacts, UnlinkFacts
  DEF DestroyRemoves, DestroyRmtree, DestroyTrees, DestroyIpam
<1>10. CASE DestroyRegistry
  BY <1>10, RegistryFacts
<1>11. CASE StartBreaks
  BY <1>11, FailEndFacts, FailToFacts
  DEF StartBreaks, StartFailsEarly, StartAclFails, StartHydrateFails, StartGrantFails,
     StartMkdirFails
<1>12. CASE ContainersBreak
  BY <1>12, FailToFacts, FailEndFacts
  DEF ContainersBreak, StartComposeFails, StartCleanupFails, StopDownFails, StopRevokeFails
<1>13. CASE UnlinkBreaks
  BY <1>13, FailToFacts, UnlinkFailsFacts DEF UnlinkBreaks, StopUnlinkFails, DestroyUnlinkFails
<1>14. CASE DestroyBreaks
  BY <1>14, FailToFacts, FailEndFacts
  DEF DestroyBreaks, DestroyDownFails, DestroyAborts, DestroyVolumesFails, DestroyRevokeFails,
     DestroyTreesFails, DestroyIpamFails, DestroyRegistryFails
<1>15. CASE StartCpFails
  BY <1>15, FailToFacts, ChownFacts, HelperGroupsFacts DEF StartCpFails
<1>16. CASE DestroyRmtreeFails
  BY <1>16, FailEndFacts, UnlinkFacts DEF DestroyRmtreeFails
<1>17. CASE StartProbeLost \/ Die
  BY <1>17, ProbeLostFacts, DieFacts
<1>18. CASE UNCHANGED vars
  BY <1>18 DEF vars, Control
<1> QED
  BY <1>1, <1>2, <1>3, <1>4, <1>5, <1>6, <1>7, <1>8, <1>9, <1>10, <1>11, <1>12, <1>13, <1>14,
     <1>15, <1>16, <1>17, <1>18, StepKinds DEF Faulty

\* What the guards and the phases passed establish.
LEMMA PhaseStep == IInv /\ [Next]_vars => InPhase'
<1> SUFFICES ASSUME IInv, [Next]_vars PROVE InPhase'
  OBVIOUS
<1>0. Control /\ FilesTyped /\ Flags
  BY TypeParts DEF IInv
<1> USE <1>0
<1> USE DEF InitPhases, StartPhases, StopPhases, DestroyPhases, Phases, Commands, Endings,
     keys, state, past, Managed, Files, Rendered, Absent, IInv, InPhase, AfterRmtree, FilesTyped
<1>1. CASE AtOnce
  BY <1>1, AtOnceFacts
<1>2. CASE Begins
  BY <1>2, BeginsFacts
<1>3. CASE InitSteps
  BY <1>3, AdvanceFacts, WriteFacts, EndFacts
  DEF InitSteps, InitDirs, InitToml, InitEnv, InitAcls, InitRegister, InitSecrets, InitSentinel
<1>4. CASE StartGrants
  BY <1>4, AdvanceFacts DEF StartGrants, StartIpam, StartShared, StartAcl
<1>5. CASE StartKeys
  BY <1>5, AdvanceFacts, WriteFacts, EndFacts
  DEF StartKeys, StartAuth, StartAuthPub, StartHost, StartHostPub, StartReconcile
<1>6. CASE StartApplies
  BY <1>6, AdvanceFacts, EndFacts, WriteFacts, ChownFacts
  DEF StartApplies, StartHydrate, StartGrant, StartMkdir, StartCp, StartCompose, StartCleanup
<1>7. CASE StopSteps
  BY <1>7, AdvanceFacts, UnlinkFacts, EndFacts
  DEF StopSteps, StopDown, ComposeDown, StopUnlink, UnlinkConsumerFiles, StopRevoke
<1>8. CASE DestroyStops
  BY <1>8, AdvanceFacts, UnlinkFacts
  DEF DestroyStops, DestroyDown, ComposeDown, DestroyBackup, DestroyVolumes, DestroyUnlink,
     UnlinkConsumerFiles, DestroyRevoke
<1>9. CASE DestroyRemoves
  BY <1>9, AdvanceFacts, UnlinkFacts
  DEF DestroyRemoves, DestroyRmtree, DestroyTrees, DestroyIpam
<1>10. CASE DestroyRegistry
  BY <1>10, RegistryFacts
<1>11. CASE StartBreaks
  BY <1>11, FailEndFacts, FailToFacts
  DEF StartBreaks, StartFailsEarly, StartAclFails, StartHydrateFails, StartGrantFails,
     StartMkdirFails
<1>12. CASE ContainersBreak
  BY <1>12, FailToFacts, FailEndFacts
  DEF ContainersBreak, StartComposeFails, StartCleanupFails, StopDownFails, StopRevokeFails
<1>13. CASE UnlinkBreaks
  BY <1>13, FailToFacts, UnlinkFailsFacts DEF UnlinkBreaks, StopUnlinkFails, DestroyUnlinkFails
<1>14. CASE DestroyBreaks
  BY <1>14, FailToFacts, FailEndFacts
  DEF DestroyBreaks, DestroyDownFails, DestroyAborts, DestroyVolumesFails, DestroyRevokeFails,
     DestroyTreesFails, DestroyIpamFails, DestroyRegistryFails
<1>15. CASE StartCpFails
  BY <1>15, FailToFacts, ChownFacts, HelperGroupsFacts DEF StartCpFails
<1>16. CASE DestroyRmtreeFails
  BY <1>16, FailEndFacts, UnlinkFacts DEF DestroyRmtreeFails
<1>17. CASE StartProbeLost \/ Die
  BY <1>17, ProbeLostFacts, DieFacts
<1>18. CASE UNCHANGED vars
  BY <1>18 DEF vars
<1> QED
  BY <1>1, <1>2, <1>3, <1>4, <1>5, <1>6, <1>7, <1>8, <1>9, <1>10, <1>11, <1>12, <1>13, <1>14,
     <1>15, <1>16, <1>17, <1>18, StepKinds DEF Faulty

\* A fault is remembered until a destroy without one.
LEMMA FaultStep == IInv /\ [Next]_vars => FaultsRecorded'
<1> SUFFICES ASSUME IInv, [Next]_vars PROVE FaultsRecorded'
  OBVIOUS
<1>0. Control /\ FilesTyped /\ Flags
  BY TypeParts DEF IInv
<1> USE <1>0
<1> USE DEF InitPhases, StartPhases, StopPhases, DestroyPhases, Phases, Commands, Endings,
     keys, state, past, Managed, Files, Rendered, Absent, IInv, FaultsRecorded, Faulted,
     Control, Lasts
<1>1. CASE AtOnce
  BY <1>1, AtOnceFacts
<1>2. CASE Begins
  BY <1>2, BeginsFacts
<1>3. CASE InitSteps
  BY <1>3, AdvanceFacts, WriteFacts, EndFacts
  DEF InitSteps, InitDirs, InitToml, InitEnv, InitAcls, InitRegister, InitSecrets, InitSentinel
<1>4. CASE StartGrants
  BY <1>4, AdvanceFacts DEF StartGrants, StartIpam, StartShared, StartAcl
<1>5. CASE StartKeys
  BY <1>5, AdvanceFacts, WriteFacts, EndFacts
  DEF StartKeys, StartAuth, StartAuthPub, StartHost, StartHostPub, StartReconcile
<1>6. CASE StartApplies
  BY <1>6, AdvanceFacts, EndFacts, WriteFacts, ChownFacts
  DEF StartApplies, StartHydrate, StartGrant, StartMkdir, StartCp, StartCompose, StartCleanup
<1>7. CASE StopSteps
  BY <1>7, AdvanceFacts, UnlinkFacts, EndFacts
  DEF StopSteps, StopDown, ComposeDown, StopUnlink, UnlinkConsumerFiles, StopRevoke
<1>8. CASE DestroyStops
  BY <1>8, AdvanceFacts, UnlinkFacts
  DEF DestroyStops, DestroyDown, ComposeDown, DestroyBackup, DestroyVolumes, DestroyUnlink,
     UnlinkConsumerFiles, DestroyRevoke
<1>9. CASE DestroyRemoves
  BY <1>9, AdvanceFacts, UnlinkFacts
  DEF DestroyRemoves, DestroyRmtree, DestroyTrees, DestroyIpam
<1>10. CASE DestroyRegistry
  BY <1>10, RegistryFacts
<1>11. CASE Faulty
  BY <1>11, FaultyFacts
<1>12. CASE UNCHANGED vars
  BY <1>12 DEF vars
<1> QED
  BY <1>1, <1>2, <1>3, <1>4, <1>5, <1>6, <1>7, <1>8, <1>9, <1>10, <1>11, <1>12, StepKinds

\* A destroy without a fault undoes phase by phase.
LEMMA CleanDestroyStep == IInv /\ [Next]_vars => CleanDestroy'
<1> SUFFICES ASSUME IInv, [Next]_vars PROVE CleanDestroy'
  OBVIOUS
<1>0. Control /\ FilesTyped /\ Flags
  BY TypeParts DEF IInv
<1> USE <1>0
<1> USE DEF InitPhases, StartPhases, StopPhases, DestroyPhases, Phases, Commands, Endings,
     keys, state, past, Managed, Files, Rendered, Absent, IInv, CleanDestroy, Faulted,
     AfterRmtree, NoneManaged
<1>1. CASE AtOnce
  BY <1>1, AtOnceFacts
<1>2. CASE Begins
  BY <1>2, BeginsFacts
<1>3. CASE InitSteps
  BY <1>3, AdvanceFacts, WriteFacts, EndFacts
  DEF InitSteps, InitDirs, InitToml, InitEnv, InitAcls, InitRegister, InitSecrets, InitSentinel
<1>4. CASE StartGrants
  BY <1>4, AdvanceFacts DEF StartGrants, StartIpam, StartShared, StartAcl
<1>5. CASE StartKeys
  BY <1>5, AdvanceFacts, WriteFacts, EndFacts
  DEF StartKeys, StartAuth, StartAuthPub, StartHost, StartHostPub, StartReconcile
<1>6. CASE StartApplies
  BY <1>6, AdvanceFacts, EndFacts, WriteFacts, ChownFacts
  DEF StartApplies, StartHydrate, StartGrant, StartMkdir, StartCp, StartCompose, StartCleanup
<1>7. CASE StopSteps
  BY <1>7, AdvanceFacts, UnlinkFacts, EndFacts
  DEF StopSteps, StopDown, ComposeDown, StopUnlink, UnlinkConsumerFiles, StopRevoke
<1>8. CASE DestroyStops
  BY <1>8, AdvanceFacts, UnlinkFacts
  DEF DestroyStops, DestroyDown, ComposeDown, DestroyBackup, DestroyVolumes, DestroyUnlink,
     UnlinkConsumerFiles, DestroyRevoke
<1>9. CASE DestroyRemoves
  BY <1>9, AdvanceFacts, UnlinkFacts
  DEF DestroyRemoves, DestroyRmtree, DestroyTrees, DestroyIpam
<1>10. CASE DestroyRegistry
  BY <1>10, RegistryFacts
<1>11. CASE Faulty
  BY <1>11, FaultyFacts
<1>12. CASE UNCHANGED vars
  BY <1>12 DEF vars
<1> QED
  BY <1>1, <1>2, <1>3, <1>4, <1>5, <1>6, <1>7, <1>8, <1>9, <1>10, <1>11, <1>12, StepKinds

\* While nothing goes wrong each phase finds what it needs.
LEMMA HarmlessStep == IInv /\ [Next]_vars => Harmless'
<1> SUFFICES ASSUME IInv, [Next]_vars PROVE Harmless'
  OBVIOUS
<1>0. Control /\ FilesTyped /\ Flags
  BY TypeParts DEF IInv
<1> USE <1>0
<1> USE DEF InitPhases, StartPhases, StopPhases, DestroyPhases, Phases, Commands, Endings,
     keys, state, past, Managed, Files, Rendered, Absent, IInv, Harmless, Faulted,
     FaultsRecorded, NoneConsumers, NoneManaged, AfterRmtree, CleanDestroy, InPhase,
     AtRestIsClean, InitIsClean, StartIsClean, StopIsClean, KnownHostsKept, FilesTyped
<1>1. CASE AtOnce
  BY <1>1, AtOnceFacts
<1>2. CASE Begins
  BY <1>2, BeginsFacts
<1>3. CASE InitSteps
  <2>1. CASE InitDirs \/ InitToml \/ InitSentinel
    BY <2>1, AdvanceFacts, EndFacts, WriteFacts DEF InitDirs, InitToml, InitSentinel
  <2>2. CASE InitEnv
    BY <2>2, AdvanceFacts, EndFacts, WriteFacts DEF InitEnv
  <2>3. CASE InitAcls \/ InitRegister \/ InitSecrets
    BY <2>3, AdvanceFacts DEF InitAcls, InitRegister, InitSecrets
  <2> QED
    BY <1>3, <2>1, <2>2, <2>3 DEF InitSteps
<1>4. CASE StartGrants
  BY <1>4, AdvanceFacts DEF StartGrants, StartIpam, StartShared, StartAcl
<1>5. CASE StartKeys
  BY <1>5, AdvanceFacts, WriteFacts, EndFacts
  DEF StartKeys, StartAuth, StartAuthPub, StartHost, StartHostPub, StartReconcile
<1>6. CASE StartApplies
  BY <1>6, AdvanceFacts, EndFacts, WriteFacts, ChownFacts
  DEF StartApplies, StartHydrate, StartGrant, StartMkdir, StartCp, StartCompose, StartCleanup
<1>7. CASE StopSteps
  BY <1>7, AdvanceFacts, UnlinkFacts, EndFacts
  DEF StopSteps, StopDown, ComposeDown, StopUnlink, UnlinkConsumerFiles, StopRevoke
<1>8. CASE DestroyStops
  BY <1>8, AdvanceFacts, UnlinkFacts
  DEF DestroyStops, DestroyDown, ComposeDown, DestroyBackup, DestroyVolumes, DestroyUnlink,
     UnlinkConsumerFiles, DestroyRevoke
<1>9. CASE DestroyRemoves
  BY <1>9, AdvanceFacts, UnlinkFacts
  DEF DestroyRemoves, DestroyRmtree, DestroyTrees, DestroyIpam
<1>10. CASE DestroyRegistry
  BY <1>10, RegistryFacts
<1>11. CASE Faulty
  BY <1>11, FaultyFacts
<1>12. CASE UNCHANGED vars
  BY <1>12 DEF vars
<1> QED
  BY <1>1, <1>2, <1>3, <1>4, <1>5, <1>6, <1>7, <1>8, <1>9, <1>10, <1>11, <1>12, StepKinds

\* A single fault does not get far.
LEMMA OneFaultStep == IInv /\ [Next]_vars => OneFault'
<1> SUFFICES ASSUME IInv, [Next]_vars PROVE OneFault'
  OBVIOUS
<1>0. Control /\ FilesTyped /\ Flags
  BY TypeParts DEF IInv
<1> USE <1>0
<1> USE DEF InitPhases, StartPhases, StopPhases, DestroyPhases, Phases, Commands, Endings,
     keys, state, past, Managed, Files, Rendered, Absent, IInv, OneFault, Faulted,
     FaultsRecorded, NoneConsumers, NoneManaged, TornDown, AfterRmtree, AfterVolumes,
     CleanDestroy, InPhase, Control, Harmless, StartIsClean, FilesTyped
<1>1. CASE AtOnce
  BY <1>1, AtOnceFacts
<1>2. CASE Begins
  BY <1>2, BeginsFacts
<1>3. CASE InitSteps
  BY <1>3, AdvanceFacts, WriteFacts, EndFacts
  DEF InitSteps, InitDirs, InitToml, InitEnv, InitAcls, InitRegister, InitSecrets, InitSentinel
<1>4. CASE StartGrants
  <2>1. CASE StartIpam \/ StartShared
    BY <2>1, AdvanceFacts DEF StartIpam, StartShared
  <2>2. CASE StartAcl
    BY <2>2, AdvanceFacts DEF StartAcl
  <2> QED
    BY <1>4, <2>1, <2>2 DEF StartGrants
<1>5. CASE StartKeys
  BY <1>5, AdvanceFacts, WriteFacts, EndFacts
  DEF StartKeys, StartAuth, StartAuthPub, StartHost, StartHostPub, StartReconcile
<1>6. CASE StartApplies
  <2>1. CASE StartHydrate \/ StartGrant
    BY <2>1, AdvanceFacts, EndFacts, WriteFacts DEF StartHydrate, StartGrant
  <2>2. CASE StartMkdir \/ StartCp
    BY <2>2, AdvanceFacts, ChownFacts DEF StartMkdir, StartCp
  <2>3. CASE StartCompose \/ StartCleanup
    BY <2>3, EndFacts DEF StartCompose, StartCleanup
  <2> QED
    BY <1>6, <2>1, <2>2, <2>3 DEF StartApplies
<1>7. CASE StopSteps
  BY <1>7, AdvanceFacts, UnlinkFacts, EndFacts
  DEF StopSteps, StopDown, ComposeDown, StopUnlink, UnlinkConsumerFiles, StopRevoke
<1>8. CASE DestroyStops
  BY <1>8, AdvanceFacts, UnlinkFacts
  DEF DestroyStops, DestroyDown, ComposeDown, DestroyBackup, DestroyVolumes, DestroyUnlink,
     UnlinkConsumerFiles, DestroyRevoke
<1>9. CASE DestroyRemoves
  BY <1>9, AdvanceFacts, UnlinkFacts
  DEF DestroyRemoves, DestroyRmtree, DestroyTrees, DestroyIpam
<1>10. CASE DestroyRegistry
  BY <1>10, RegistryFacts
<1>11. CASE StartBreaks
  BY <1>11, FailEndFacts, FailToFacts
  DEF StartBreaks, StartFailsEarly, StartAclFails, StartHydrateFails, StartGrantFails,
     StartMkdirFails
<1>12. CASE ContainersBreak
  BY <1>12, FailToFacts, FailEndFacts
  DEF ContainersBreak, StartComposeFails, StartCleanupFails, StopDownFails, StopRevokeFails
<1>13. CASE UnlinkBreaks
  BY <1>13, FailToFacts, UnlinkFailsFacts DEF UnlinkBreaks, StopUnlinkFails, DestroyUnlinkFails
<1>14. CASE DestroyBreaks
  BY <1>14, FailToFacts, FailEndFacts
  DEF DestroyBreaks, DestroyDownFails, DestroyAborts, DestroyVolumesFails, DestroyRevokeFails,
     DestroyTreesFails, DestroyIpamFails, DestroyRegistryFails
<1>15. CASE StartCpFails
  BY <1>15, FailToFacts, ChownFacts, HelperGroupsFacts DEF StartCpFails
<1>16. CASE DestroyRmtreeFails
  BY <1>16, FailEndFacts, UnlinkFacts DEF DestroyRmtreeFails
<1>17. CASE StartProbeLost \/ Die
  BY <1>17, ProbeLostFacts, DieFacts
<1>18. CASE UNCHANGED vars
  BY <1>18 DEF vars
<1> QED
  BY <1>1, <1>2, <1>3, <1>4, <1>5, <1>6, <1>7, <1>8, <1>9, <1>10, <1>11, <1>12, <1>13, <1>14,
     <1>15, <1>16, <1>17, <1>18, StepKinds DEF Faulty

\* The two halves of the host key come and go together.
LEMMA HostKeysStep == IInv /\ [Next]_vars => HostKeysAgree'
<1> SUFFICES ASSUME IInv, [Next]_vars PROVE HostKeysAgree'
  OBVIOUS
<1>0. Control /\ FilesTyped /\ Flags
  BY TypeParts DEF IInv
<1> USE <1>0
<1> USE DEF InitPhases, StartPhases, StopPhases, DestroyPhases, Phases, Commands, Endings,
     keys, state, past, Managed, Files, Rendered, Absent, IInv, HostKeysAgree, Faulted,
     AfterRmtree, CleanDestroy, FilesTyped, Flags
<1>1. CASE AtOnce
  BY <1>1, AtOnceFacts
<1>2. CASE Begins
  BY <1>2, BeginsFacts
<1>3. CASE InitSteps
  BY <1>3, AdvanceFacts, WriteFacts, EndFacts
  DEF InitSteps, InitDirs, InitToml, InitEnv, InitAcls, InitRegister, InitSecrets, InitSentinel
<1>4. CASE StartGrants
  BY <1>4, AdvanceFacts DEF StartGrants, StartIpam, StartShared, StartAcl
<1>5. CASE StartKeys
  BY <1>5, AdvanceFacts, WriteFacts, EndFacts
  DEF StartKeys, StartAuth, StartAuthPub, StartHost, StartHostPub, StartReconcile
<1>6. CASE StartApplies
  BY <1>6, AdvanceFacts, EndFacts, WriteFacts, ChownFacts
  DEF StartApplies, StartHydrate, StartGrant, StartMkdir, StartCp, StartCompose, StartCleanup
<1>7. CASE StopSteps
  BY <1>7, AdvanceFacts, UnlinkFacts, EndFacts
  DEF StopSteps, StopDown, ComposeDown, StopUnlink, UnlinkConsumerFiles, StopRevoke
<1>8. CASE DestroyStops
  BY <1>8, AdvanceFacts, UnlinkFacts
  DEF DestroyStops, DestroyDown, ComposeDown, DestroyBackup, DestroyVolumes, DestroyUnlink,
     UnlinkConsumerFiles, DestroyRevoke
<1>9. CASE DestroyRemoves
  BY <1>9, AdvanceFacts, UnlinkFacts
  DEF DestroyRemoves, DestroyRmtree, DestroyTrees, DestroyIpam
<1>10. CASE DestroyRegistry
  BY <1>10, RegistryFacts
<1>11. CASE StartBreaks
  BY <1>11, FailEndFacts, FailToFacts
  DEF StartBreaks, StartFailsEarly, StartAclFails, StartHydrateFails, StartGrantFails,
     StartMkdirFails
<1>12. CASE ContainersBreak
  BY <1>12, FailToFacts, FailEndFacts
  DEF ContainersBreak, StartComposeFails, StartCleanupFails, StopDownFails, StopRevokeFails
<1>13. CASE UnlinkBreaks
  BY <1>13, FailToFacts, UnlinkFailsFacts DEF UnlinkBreaks, StopUnlinkFails, DestroyUnlinkFails
<1>14. CASE DestroyBreaks
  BY <1>14, FailToFacts, FailEndFacts
  DEF DestroyBreaks, DestroyDownFails, DestroyAborts, DestroyVolumesFails, DestroyRevokeFails,
     DestroyTreesFails, DestroyIpamFails, DestroyRegistryFails
<1>15. CASE StartCpFails
  BY <1>15, FailToFacts, ChownFacts, HelperGroupsFacts DEF StartCpFails
<1>16. CASE DestroyRmtreeFails
  BY <1>16, FailEndFacts, UnlinkFacts DEF DestroyRmtreeFails
<1>17. CASE StartProbeLost \/ Die
  BY <1>17, ProbeLostFacts, DieFacts
<1>18. CASE UNCHANGED vars
  BY <1>18 DEF vars
<1> QED
  BY <1>1, <1>2, <1>3, <1>4, <1>5, <1>6, <1>7, <1>8, <1>9, <1>10, <1>11, <1>12, <1>13, <1>14,
     <1>15, <1>16, <1>17, <1>18, StepKinds DEF Faulty

\* A start that fails has revoked, or never granted.
LEMMA FailedStartStep == IInv /\ [Next]_vars => FailedStartRevokes'
<1> SUFFICES ASSUME IInv, [Next]_vars PROVE FailedStartRevokes'
  OBVIOUS
<1>0. Control /\ FilesTyped /\ Flags
  BY TypeParts DEF IInv
<1> USE <1>0
<1> USE DEF InitPhases, StartPhases, StopPhases, DestroyPhases, Phases, Commands, Endings,
     keys, state, past, Managed, Files, Rendered, Absent, IInv, FailedStartRevokes, Faulted,
     FaultsRecorded, Control, Harmless, StartIsClean, OneFault, InPhase
<1>1. CASE AtOnce
  BY <1>1, AtOnceFacts
<1>2. CASE Begins
  BY <1>2, BeginsFacts
<1>3. CASE InitSteps
  BY <1>3, AdvanceFacts, WriteFacts, EndFacts
  DEF InitSteps, InitDirs, InitToml, InitEnv, InitAcls, InitRegister, InitSecrets, InitSentinel
<1>4. CASE StartGrants
  BY <1>4, AdvanceFacts DEF StartGrants, StartIpam, StartShared, StartAcl
<1>5. CASE StartKeys
  BY <1>5, AdvanceFacts, WriteFacts, EndFacts
  DEF StartKeys, StartAuth, StartAuthPub, StartHost, StartHostPub, StartReconcile
<1>6. CASE StartApplies
  BY <1>6, AdvanceFacts, EndFacts, WriteFacts, ChownFacts
  DEF StartApplies, StartHydrate, StartGrant, StartMkdir, StartCp, StartCompose, StartCleanup
<1>7. CASE StopSteps
  BY <1>7, AdvanceFacts, UnlinkFacts, EndFacts
  DEF StopSteps, StopDown, ComposeDown, StopUnlink, UnlinkConsumerFiles, StopRevoke
<1>8. CASE DestroyStops
  BY <1>8, AdvanceFacts, UnlinkFacts
  DEF DestroyStops, DestroyDown, ComposeDown, DestroyBackup, DestroyVolumes, DestroyUnlink,
     UnlinkConsumerFiles, DestroyRevoke
<1>9. CASE DestroyRemoves
  BY <1>9, AdvanceFacts, UnlinkFacts
  DEF DestroyRemoves, DestroyRmtree, DestroyTrees, DestroyIpam
<1>10. CASE DestroyRegistry
  BY <1>10, RegistryFacts
<1>11. CASE StartBreaks
  BY <1>11, FailEndFacts, FailToFacts
  DEF StartBreaks, StartFailsEarly, StartAclFails, StartHydrateFails, StartGrantFails,
     StartMkdirFails
<1>12. CASE ContainersBreak
  BY <1>12, FailToFacts, FailEndFacts
  DEF ContainersBreak, StartComposeFails, StartCleanupFails, StopDownFails, StopRevokeFails
<1>13. CASE UnlinkBreaks
  BY <1>13, FailToFacts, UnlinkFailsFacts DEF UnlinkBreaks, StopUnlinkFails, DestroyUnlinkFails
<1>14. CASE DestroyBreaks
  BY <1>14, FailToFacts, FailEndFacts
  DEF DestroyBreaks, DestroyDownFails, DestroyAborts, DestroyVolumesFails, DestroyRevokeFails,
     DestroyTreesFails, DestroyIpamFails, DestroyRegistryFails
<1>15. CASE StartCpFails
  BY <1>15, FailToFacts, ChownFacts, HelperGroupsFacts DEF StartCpFails
<1>16. CASE DestroyRmtreeFails
  BY <1>16, FailEndFacts, UnlinkFacts DEF DestroyRmtreeFails
<1>17. CASE StartProbeLost \/ Die
  BY <1>17, ProbeLostFacts, DieFacts
<1>18. CASE UNCHANGED vars
  BY <1>18 DEF vars
<1> QED
  BY <1>1, <1>2, <1>3, <1>4, <1>5, <1>6, <1>7, <1>8, <1>9, <1>10, <1>11, <1>12, <1>13, <1>14,
     <1>15, <1>16, <1>17, <1>18, StepKinds DEF Faulty

\* A destroy that raises has torn down first.
LEMMA UnloadableStep == IInv /\ [Next]_vars => UnloadableIsTornDown'
<1> SUFFICES ASSUME IInv, [Next]_vars PROVE UnloadableIsTornDown'
  OBVIOUS
<1>0. Control /\ FilesTyped /\ Flags
  BY TypeParts DEF IInv
<1> USE <1>0
<1> USE DEF InitPhases, StartPhases, StopPhases, DestroyPhases, Phases, Commands, Endings,
     keys, state, past, Managed, Files, Rendered, Absent, IInv, UnloadableIsTornDown, Faulted,
     FaultsRecorded, Control, TornDown, NoneManaged, OneFault, InPhase, CleanDestroy,
     AfterRmtree
<1>1. CASE AtOnce
  BY <1>1, AtOnceFacts
<1>2. CASE Begins
  BY <1>2, BeginsFacts
<1>3. CASE InitSteps
  BY <1>3, AdvanceFacts, WriteFacts, EndFacts
  DEF InitSteps, InitDirs, InitToml, InitEnv, InitAcls, InitRegister, InitSecrets, InitSentinel
<1>4. CASE StartGrants
  BY <1>4, AdvanceFacts DEF StartGrants, StartIpam, StartShared, StartAcl
<1>5. CASE StartKeys
  BY <1>5, AdvanceFacts, WriteFacts, EndFacts
  DEF StartKeys, StartAuth, StartAuthPub, StartHost, StartHostPub, StartReconcile
<1>6. CASE StartApplies
  BY <1>6, AdvanceFacts, EndFacts, WriteFacts, ChownFacts
  DEF StartApplies, StartHydrate, StartGrant, StartMkdir, StartCp, StartCompose, StartCleanup
<1>7. CASE StopSteps
  BY <1>7, AdvanceFacts, UnlinkFacts, EndFacts
  DEF StopSteps, StopDown, ComposeDown, StopUnlink, UnlinkConsumerFiles, StopRevoke
<1>8. CASE DestroyStops
  BY <1>8, AdvanceFacts, UnlinkFacts
  DEF DestroyStops, DestroyDown, ComposeDown, DestroyBackup, DestroyVolumes, DestroyUnlink,
     UnlinkConsumerFiles, DestroyRevoke
<1>9. CASE DestroyRemoves
  BY <1>9, AdvanceFacts, UnlinkFacts
  DEF DestroyRemoves, DestroyRmtree, DestroyTrees, DestroyIpam
<1>10. CASE DestroyRegistry
  BY <1>10, RegistryFacts
<1>11. CASE StartBreaks
  BY <1>11, FailEndFacts, FailToFacts
  DEF StartBreaks, StartFailsEarly, StartAclFails, StartHydrateFails, StartGrantFails,
     StartMkdirFails
<1>12. CASE ContainersBreak
  BY <1>12, FailToFacts, FailEndFacts
  DEF ContainersBreak, StartComposeFails, StartCleanupFails, StopDownFails, StopRevokeFails
<1>13. CASE UnlinkBreaks
  BY <1>13, FailToFacts, UnlinkFailsFacts DEF UnlinkBreaks, StopUnlinkFails, DestroyUnlinkFails
<1>14. CASE DestroyBreaks
  BY <1>14, FailToFacts, FailEndFacts
  DEF DestroyBreaks, DestroyDownFails, DestroyAborts, DestroyVolumesFails, DestroyRevokeFails,
     DestroyTreesFails, DestroyIpamFails, DestroyRegistryFails
<1>15. CASE StartCpFails
  BY <1>15, FailToFacts, ChownFacts, HelperGroupsFacts DEF StartCpFails
<1>16. CASE DestroyRmtreeFails
  BY <1>16, FailEndFacts, UnlinkFacts DEF DestroyRmtreeFails
<1>17. CASE StartProbeLost \/ Die
  BY <1>17, ProbeLostFacts, DieFacts
<1>18. CASE UNCHANGED vars
  BY <1>18 DEF vars
<1> QED
  BY <1>1, <1>2, <1>3, <1>4, <1>5, <1>6, <1>7, <1>8, <1>9, <1>10, <1>11, <1>12, <1>13, <1>14,
     <1>15, <1>16, <1>17, <1>18, StepKinds DEF Faulty

-----------------------------------------------------------------------------
(* The properties of the runs, for every bound on the faults. *)

\* A host on which nothing has been done yet.
LEMMA InitInv == Init => IInv
<1> SUFFICES ASSUME Init PROVE IInv
  OBVIOUS
<1>1. Control /\ Flags
  <2>1. last \in Lasts
    BY DEF Init, Record, Lasts, Commands, Endings
  <2>2. faults \in 0..MaxFaults
    BY ProvisionAssumption DEF Init
  <2>3. pc \in Phases \cup {"idle"} /\ harm \in {"none", "failure", "death"}
    BY Zenon DEF Init
  <2>4. Flags
    BY DEF Init, Flags
  <2> QED
    BY <2>1, <2>2, <2>3, <2>4 DEF Control
<1>2. FilesTyped /\ \A f \in Files : Absent(f)
  BY DEF Init, FilesTyped, Owners, Absent
<1>3. Managed \subseteq Files /\ "toml" \in Files /\ "env" \in Files /\ "ipc_host_key" \in Files
  BY DEF Managed, Files
<1>4. TypeOK
  BY <1>1, <1>2, TypeParts
<1>5. pc = "idle" /\ harm = "none" /\ last.end = "refused" /\ ~last.fault /\ ~up /\ ~registered
      /\ acl = "none"
  BY DEF Init, Record
<1>6. InPhase /\ FaultsRecorded /\ CleanDestroy
  BY <1>5 DEF InPhase, FaultsRecorded, CleanDestroy, InitPhases, StartPhases, StopPhases, DestroyPhases
<1>7. Harmless
  <2>1. NoneConsumers
    BY <1>2, <1>3 DEF NoneConsumers, Absent
  <2> QED
    BY <1>2, <1>3, <1>5, <2>1 DEF Harmless, AtRestIsClean, InitIsClean, StartIsClean, StopIsClean,
       KnownHostsKept, InitPhases, StartPhases, StopPhases
<1>8. OneFault
  BY <1>5 DEF OneFault, AfterVolumes, AfterRmtree
<1>9. HostKeysAgree /\ FailedStartRevokes /\ UnloadableIsTornDown
  BY <1>2, <1>3, <1>5 DEF HostKeysAgree, FailedStartRevokes, UnloadableIsTornDown
<1> QED
  BY <1>4, <1>6, <1>7, <1>8, <1>9 DEF IInv

\* The inductive invariant holds in every reachable state.
THEOREM Invariance == Spec => []IInv
<1>1. IInv /\ [Next]_vars => IInv'
  <2> SUFFICES ASSUME IInv, [Next]_vars PROVE IInv'
    OBVIOUS
  <2>1. TypeOK'
    <3>1. (Control /\ FilesTyped /\ Flags)'
      BY TypeStep DEF IInv
    <3> QED
      BY <3>1 DEF TypeOK, Control, Lasts, FilesTyped, Flags
  <2> QED
    BY <2>1, PhaseStep, FaultStep, CleanDestroyStep, HarmlessStep, OneFaultStep, HostKeysStep,
       FailedStartStep, UnloadableStep DEF IInv
<1> QED
  BY InitInv, <1>1, PTL DEF Spec

\* Every variable keeps its type; no client-side file ever goes to a container subuid.
THEOREM TypeCorrect == Spec => []TypeOK
<1>1. IInv => TypeOK
  BY DEF IInv
<1> QED
  BY Invariance, <1>1, PTL

\* No order of init, start, stop and destroy makes a command fail on what an
\* earlier one left, and a destroy without a fault wipes out earlier harm.
THEOREM CommandsSucceed == Spec => []UnharmedCommandsSucceed
<1>1. IInv => UnharmedCommandsSucceed
  BY DEF IInv, Harmless, UnharmedCommandsSucceed
<1> QED
  BY Invariance, <1>1, PTL

\* While nothing has gone wrong, containers and ACL entries come and go
\* together, and a stopped instance has no file that would stop the next start.
THEOREM CleanAtRest == Spec => []RestIsClean
<1>1. IInv => RestIsClean
  BY DEF IInv, Harmless, AtRestIsClean, NoneConsumers, RestIsClean
<1> QED
  BY Invariance, <1>1, PTL

\* Any number of failures, in any phases, leaves the known_hosts entry that of
\* the host key; only a death between the two writes separates them.
THEOREM HostKeysMatch == Spec => []HostKeysAgree
<1>1. IInv => HostKeysAgree
  BY DEF IInv
<1> QED
  BY Invariance, <1>1, PTL

\* After a single fault a start that fails in a handled way leaves no ACL entry.
THEOREM FailedStartLeavesNoGrant == Spec => []FailedStartRevokes
<1>1. IInv => FailedStartRevokes
  BY DEF IInv
<1> QED
  BY Invariance, <1>1, PTL

\* A single fault leaves no running container without its slot or entry: destroy
\* takes the containers down twice before it gives either up.
THEOREM RunningKeepsSlot == Spec => []RunningHoldsSlot
<1>1. IInv => RunningHoldsSlot
  BY DEF IInv, OneFault, RunningHoldsSlot
<1> QED
  BY Invariance, <1>1, PTL

\* After a single fault, a registered instance without a config is torn down
\* but for its entry: the config is the last thing that destroy removes.
THEOREM UnloadableTornDown == Spec => []UnloadableIsTornDown
<1>1. IInv => UnloadableIsTornDown
  BY DEF IInv
<1> QED
  BY Invariance, <1>1, PTL

-----------------------------------------------------------------------------
(* Every command comes to its end: its phases are passed in one direction *)

\* An upper bound on the phases a command has before it, the one it is in included.
PhasesLeft(c) ==
  CASE c = "idle" -> 0
    [] c \in {"i_sentinel", "s_cleanup", "t_revoke", "d_registry"} -> 1
    [] c \in {"i_secrets", "s_compose", "t_unlink", "d_ipam"} -> 2
    [] c \in {"i_register", "s_cp", "t_down", "d_trees"} -> 3
    [] c \in {"i_acls", "s_mkdir", "d_rmtree"} -> 4
    [] c \in {"i_env", "s_grant", "d_revoke"} -> 5
    [] c \in {"i_toml", "s_hydrate", "d_unlink"} -> 6
    [] c \in {"i_dirs", "s_reconcile", "d_volumes"} -> 7
    [] c \in {"s_host_pub", "d_backup"} -> 8
    [] c \in {"s_host", "d_down"} -> 9
    [] c = "s_auth_pub" -> 10
    [] c = "s_auth" -> 11
    [] c = "s_acl" -> 12
    [] c = "s_shared" -> 13
    [] c = "s_ipam" -> 14

\* No step of a command under way leads back to a phase it has passed.
GoesForward == [][pc # "idle" => PhasesLeft(pc') < PhasesLeft(pc)]_vars

\* Neither a failure that is only a warning, nor one that leads to the clean-up of
\* start, nor a failure of that clean-up makes a command repeat a phase: every init,
\* start, stop and destroy is over after at most fourteen phases, whatever fails.
THEOREM CommandsGoForward == Spec => GoesForward
<1> DEFINE Closer == PhasesLeft(pc') < PhasesLeft(pc)
<1>1. ASSUME Next, pc # "idle", pc \in Phases \cup {"idle"} PROVE Closer
  <2> USE <1>1 DEF PhasesLeft, Advance, End, FailTo, FailEnd
  <2>1. CASE AtOnce \/ Begins \/ StartProbeLost
    BY <2>1 DEF AtOnce, Begins, BeginAndEnd, Begin, InitRefused, StartRefused, StartNoConfig, StartWarm,
       StopRefused, StopNoConfig, StopCold, DestroyRefused, DestroyNoConfig, InitBegin,
       StartBegin, StopBegin, DestroyBegin, StartProbeLost
  <2>2. CASE InitSteps
    BY <2>2 DEF InitSteps, InitDirs, InitToml, InitEnv, InitAcls, InitRegister, InitSecrets, InitSentinel
  <2>3. CASE StartGrants
    BY <2>3 DEF StartGrants, StartIpam, StartShared, StartAcl
  <2>4. CASE StartKeys
    BY <2>4 DEF StartKeys, StartAuth, StartAuthPub, StartHost, StartHostPub, StartReconcile
  <2>5. CASE StartApplies
    BY <2>5 DEF StartApplies, StartHydrate, StartGrant, StartMkdir, StartCp, StartCompose, StartCleanup
  <2>6. CASE StopSteps
    BY <2>6 DEF StopSteps, StopDown, ComposeDown, StopUnlink, UnlinkConsumerFiles, StopRevoke
  <2>7. CASE DestroyStops
    BY <2>7 DEF DestroyStops, DestroyDown, ComposeDown, DestroyBackup, DestroyVolumes, DestroyUnlink,
       UnlinkConsumerFiles, DestroyRevoke
  <2>8. CASE DestroyRemoves \/ DestroyRegistry
    BY <2>8 DEF DestroyRemoves, DestroyRmtree, DestroyTrees, DestroyIpam, DestroyRegistry
  <2>9. CASE StartBreaks \/ StartCpFails
    BY <2>9 DEF StartBreaks, StartFailsEarly, StartAclFails, StartHydrateFails, StartGrantFails,
       StartMkdirFails, StartCpFails
  <2>10. CASE ContainersBreak
    BY <2>10 DEF ContainersBreak, StartComposeFails, StartCleanupFails, StopDownFails, StopRevokeFails
  <2>11. CASE UnlinkBreaks
    BY <2>11 DEF UnlinkBreaks, StopUnlinkFails, DestroyUnlinkFails, UnlinkFails
  <2>12. CASE DestroyBreaks \/ DestroyRmtreeFails
    BY <2>12 DEF DestroyBreaks, DestroyDownFails, DestroyAborts, DestroyVolumesFails, DestroyRevokeFails,
       DestroyTreesFails, DestroyIpamFails, DestroyRegistryFails, DestroyRmtreeFails
  <2>13. CASE Die
    BY <2>13 DEF Die, Phases, InitPhases, StartPhases, StopPhases, DestroyPhases
  <2> HIDE DEF Closer, PhasesLeft
  <2> QED
    BY <2>1, <2>2, <2>3, <2>4, <2>5, <2>6, <2>7, <2>8, <2>9, <2>10, <2>11, <2>12, <2>13
    DEF Next, InitCommand, StartCommand, StopCommand, DestroyCommand, AtOnce, Begins,
     InitSteps, StartGrants, StartKeys, StartApplies, StopSteps, DestroyStops, DestroyRemoves,
     StartBreaks, ContainersBreak, UnlinkBreaks, DestroyBreaks
<1>2. TypeOK => pc \in Phases \cup {"idle"}
  BY DEF TypeOK
<1>3. TypeOK /\ [Next]_vars => [pc # "idle" => Closer]_vars
  BY <1>1, <1>2
<1> QED
  BY TypeCorrect, <1>3, PTL DEF Spec, GoesForward
================================================================================
