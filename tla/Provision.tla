------------------------------- MODULE Provision -------------------------------
(***************************************************************************)
(* The life of one instance on disk under one operator: init, start, stop  *)
(* and destroy of cli/main.py, phase by phase, with a failure or a death   *)
(* of the process possible in each phase.                                  *)
(*                                                                         *)
(* A file is "absent", owned by the operator ("dev") or by a container     *)
(* subuid ("consumer").  Files that every phase treats alike are one       *)
(* member of Files.  Locks are left out: there is one operator here.       *)
(***************************************************************************)
EXTENDS Integers, Sequences

CONSTANTS MayFail,    \* phases in which an operation may fail and be reported;
                      \* "idle" stands for the probe that precedes the phases
          MayDie,     \* phases in which the process may die or raise what nobody catches
          MaxFaults   \* bound on failures and deaths together

ASSUME ProvisionAssumption == MaxFaults \in Nat

VARIABLES
  pc,          \* phase of the command that is running, or "idle"
  own,         \* file -> its owner
  auth,        \* authorized_keys holds the public half of ipc_ssh_key
  host,        \* ipc_known_hosts holds the public half of ipc_host_key
  acl,         \* the named ACL entries that stop revokes: "none", "some", "all"
  up,          \* some container of the instance is running
  slot,        \* the IPAM ledger has a slot for the instance
  registered,  \* instances.json has an entry for it
  last,        \* the command that runs or ran last
  harm,        \* the worst that went wrong since a destroy last went through
  faults       \* failures and deaths so far

vars == <<pc, own, auth, host, acl, up, slot, registered, last, harm, faults>>
keys == <<auth, host>>
state == <<slot, registered>>
past == <<last, harm, faults>>

\* RO_FILE_RECIPES outside secrets/ and RW_FILE_RECIPES are "config".
Rendered == {"config", "entrypoint", "compose"}

Managed == {"config", "authorized_keys", "ipc_host_key", "entrypoint"}
Files == Rendered \cup Managed \cup
         {"dirs", "trees", "toml", "env", "sentinel", "leaves", "ipc_ssh_key", "ipc_known_hosts"}
Owners == {"absent", "dev", "consumer"}

InitPhases == {"i_dirs", "i_toml", "i_env", "i_acls", "i_register", "i_secrets", "i_sentinel"}
StartPhases == {"s_ipam", "s_shared", "s_acl", "s_auth", "s_auth_pub", "s_host", "s_host_pub",
                "s_reconcile", "s_hydrate", "s_grant", "s_mkdir", "s_cp", "s_compose", "s_cleanup"}
StopPhases == {"t_down", "t_unlink", "t_revoke"}
DestroyPhases == {"d_down", "d_backup", "d_volumes", "d_unlink", "d_revoke",
                  "d_rmtree", "d_trees", "d_ipam", "d_registry"}
Phases == InitPhases \cup StartPhases \cup StopPhases \cup DestroyPhases

Commands == {"none", "init", "start", "stop", "destroy"}
Endings == {"running", "refused", "initialized", "started", "already_running", "failed",
            "stopped", "not_running", "aborted", "destroyed", "raised", "died"}

Absent(f) == own[f] = "absent"
Write(S) == own' = [f \in Files |-> IF f \in S THEN "dev" ELSE own[f]]
Unlink(S) == own' = [f \in Files |-> IF f \in S THEN "absent" ELSE own[f]]
Chown(S) == own' = [f \in Files |-> IF f \in S /\ ~Absent(f) THEN "consumer" ELSE own[f]]

-----------------------------------------------------------------------------
(* How commands begin, go on and end *)

Record(cmd, end, fault) == [cmd |-> cmd, end |-> end, fault |-> fault]

Begin(cmd, phase) ==
  /\ pc = "idle"
  /\ pc' = phase
  /\ last' = Record(cmd, "running", FALSE)
  /\ UNCHANGED <<harm, faults>>

\* A command that ends before it changes anything.
BeginAndEnd(cmd, end) ==
  /\ pc = "idle"
  /\ last' = Record(cmd, end, FALSE)
  /\ UNCHANGED <<pc, own, keys, acl, up, state, harm, faults>>

Advance(from, to) ==
  /\ pc = from
  /\ pc' = to
  /\ UNCHANGED past

End(from, end) ==
  /\ pc = from
  /\ pc' = "idle"
  /\ last' = [last EXCEPT !.end = end]
  /\ UNCHANGED <<harm, faults>>

Fault(phases, h) ==
  /\ faults < MaxFaults
  /\ pc \in phases
  /\ faults' = faults + 1
  /\ harm' = IF harm = "death" THEN harm ELSE h

\* An operation of the phase fails and the command goes on at `to`.
FailTo(from, to) ==
  /\ pc = from
  /\ Fault(MayFail, "failure")
  /\ pc' = to
  /\ last' = [last EXCEPT !.fault = TRUE]

\* An operation of the phase fails and the command ends.
FailEnd(from, end) ==
  /\ pc = from
  /\ Fault(MayFail, "failure")
  /\ pc' = "idle"
  /\ last' = [last EXCEPT !.end = end, !.fault = TRUE]

\* A kill, a power cut, or an exception no handler of the command expects: the
\* locks go with the process and everything on disk stays as it is.
Die ==
  /\ pc # "idle"
  /\ Fault(MayDie, "death")
  /\ pc' = "idle"
  /\ last' = [last EXCEPT !.end = "died", !.fault = TRUE]
  /\ UNCHANGED <<own, keys, acl, up, state>>

-----------------------------------------------------------------------------
(* init *)

\* The re-init guard; bad flags, a failed preflight and a missing marker too.
InitRefused == registered /\ BeginAndEnd("init", "refused")

InitBegin ==
  /\ ~registered
  /\ Begin("init", "i_dirs")
  /\ UNCHANGED <<own, keys, acl, up, state>>

\* S1 create_instance_dirs (idempotent) and S1b copy_workspace.
InitDirs ==
  /\ Advance("i_dirs", "i_toml")
  /\ Write({"dirs", "trees"})
  /\ UNCHANGED <<keys, acl, up, state>>

\* S2 write_sandbox_toml.
InitToml ==
  /\ Advance("i_toml", "i_env")
  /\ Write({"toml"})
  /\ UNCHANGED <<keys, acl, up, state>>

\* S3 create_env_file: O_CREAT|O_EXCL, so a second run of S3 raises.
InitEnv ==
  /\ IF Absent("env")
     THEN Advance("i_env", "i_acls") /\ Write({"env"})
     ELSE End("i_env", "raised") /\ UNCHANGED own
  /\ UNCHANGED <<keys, acl, up, state>>

\* S4 apply_default_acls: entries for dev, none of those `acl` stands for.
InitAcls ==
  /\ Advance("i_acls", "i_register")
  /\ UNCHANGED <<own, keys, acl, up, state>>

\* S5
InitRegister ==
  /\ Advance("i_register", "i_secrets")
  /\ registered' = TRUE
  /\ UNCHANGED <<own, keys, acl, up, slot>>

\* S6 writes the values of .sandbox.env in place.
InitSecrets ==
  /\ Advance("i_secrets", "i_sentinel")
  /\ UNCHANGED <<own, keys, acl, up, state>>

\* S7
InitSentinel ==
  /\ End("i_sentinel", "initialized")
  /\ Write({"sentinel"})
  /\ UNCHANGED <<keys, acl, up, state>>

-----------------------------------------------------------------------------
(* start *)

\* _warm_check, when the compose-ps probe answers.
Warm == ~Absent("compose") /\ up

\* No entry, no sentinel, missing secrets, or a failed preflight check.
StartRefused == BeginAndEnd("start", "refused")

StartReady == registered /\ ~Absent("sentinel")

\* _load_config raises FileNotFoundError.
StartNoConfig == StartReady /\ Absent("toml") /\ BeginAndEnd("start", "raised")

StartWarm == StartReady /\ ~Absent("toml") /\ Warm /\ BeginAndEnd("start", "already_running")

StartBegin ==
  /\ StartReady /\ ~Absent("toml") /\ ~Warm
  /\ Begin("start", "s_ipam")
  /\ UNCHANGED <<own, keys, acl, up, state>>

\* compose-ps fails, _container_status returns [], and a running instance
\* looks stopped.
StartProbeLost ==
  /\ StartReady /\ ~Absent("toml") /\ Warm
  /\ pc = "idle"
  /\ Fault(MayFail, "failure")
  /\ pc' = "s_ipam"
  /\ last' = Record("start", "running", TRUE)
  /\ UNCHANGED <<own, keys, acl, up, state>>

\* Phase 2
StartIpam ==
  /\ Advance("s_ipam", "s_shared")
  /\ slot' = TRUE
  /\ UNCHANGED <<own, keys, acl, up, registered>>

\* Phase 3a: group, mode and default ACL of the workspace trees, all persistent.
StartShared ==
  /\ Advance("s_shared", "s_acl")
  /\ UNCHANGED <<own, keys, acl, up, state>>

\* Before acl_granted is set the handler has nothing to revoke.
StartFailsEarly ==
  /\ FailEnd("s_ipam", "failed") \/ FailEnd("s_shared", "failed")
  /\ UNCHANGED <<own, keys, acl, up, state>>

\* Phase 3b: setfacl -R over docker/ and config/ is refused on a file the
\* operator does not own.
StartAcl ==
  /\ IF \E f \in {"config", "entrypoint"} : own[f] = "consumer"
     THEN Advance("s_acl", "s_cleanup") /\ acl' = "some"
     ELSE Advance("s_acl", "s_auth") /\ acl' = "all"
  /\ UNCHANGED <<own, keys, up, state>>

StartAclFails ==
  /\ FailTo("s_acl", "s_cleanup")
  /\ acl' = "some"
  /\ UNCHANGED <<own, keys, up, state>>

\* Phase 4: write_htpasswd (a config file, the operator's own once phase 3b is
\* over), then generate_ssh_keypair(auth), which skips both halves when the
\* private one exists.
StartAuth ==
  /\ IF Absent("ipc_ssh_key")
     THEN /\ Advance("s_auth", "s_auth_pub")
          /\ Write({"ipc_ssh_key"})
          /\ auth' = FALSE
     ELSE Advance("s_auth", "s_host") /\ UNCHANGED <<own, auth>>
  /\ UNCHANGED <<host, acl, up, state>>

StartAuthPub ==
  /\ IF own["authorized_keys"] = "consumer"
     THEN End("s_auth_pub", "raised") /\ UNCHANGED <<own, auth>>
     ELSE /\ Advance("s_auth_pub", "s_host")
          /\ Write({"authorized_keys"})
          /\ auth' = TRUE
  /\ UNCHANGED <<host, acl, up, state>>

\* Mutant: the host key is made anew although one exists.
BugHostKeyAlwaysNew ==
  /\ Advance("s_host", IF Absent("ipc_host_key") THEN "s_host_pub" ELSE "s_reconcile")
  /\ Write({"ipc_host_key"})
  /\ host' = FALSE
  /\ UNCHANGED <<auth, acl, up, state>>

StartHost ==
  /\ IF Absent("ipc_host_key")
     THEN /\ Advance("s_host", "s_host_pub")
          /\ Write({"ipc_host_key"})
          /\ host' = FALSE
     ELSE Advance("s_host", "s_reconcile") /\ UNCHANGED <<own, host>>
  /\ UNCHANGED <<auth, acl, up, state>>

StartHostPub ==
  /\ Advance("s_host_pub", "s_reconcile")
  /\ Write({"ipc_known_hosts"})
  /\ host' = TRUE
  /\ UNCHANGED <<auth, acl, up, state>>

\* os.stat of the two client-side files; a missing one raises FileNotFoundError.
StartReconcile ==
  /\ IF Absent("ipc_ssh_key") \/ Absent("ipc_known_hosts")
     THEN End("s_reconcile", "raised")
     ELSE Advance("s_reconcile", "s_hydrate")
  /\ UNCHANGED <<own, keys, acl, up, state>>

\* Phase 5a: render_templates opens every rendered file for writing.
StartHydrate ==
  /\ IF \E f \in Rendered : own[f] = "consumer"
     THEN End("s_hydrate", "raised") /\ UNCHANGED own
     ELSE Advance("s_hydrate", "s_grant") /\ Write(Rendered)
  /\ UNCHANGED <<keys, acl, up, state>>

StartHydrateFails ==
  /\ FailTo("s_hydrate", "s_cleanup")
  /\ UNCHANGED <<own, keys, acl, up, state>>

\* Phase 5b: setfacl on each helper-cp source that exists.
StartGrant ==
  /\ IF \E f \in Managed : own[f] = "consumer"
     THEN Advance("s_grant", "s_cleanup")
     ELSE Advance("s_grant", "s_mkdir")
  /\ UNCHANGED <<own, keys, acl, up, state>>

StartGrantFails ==
  /\ FailTo("s_grant", "s_cleanup")
  /\ UNCHANGED <<own, keys, acl, up, state>>

\* Phase 6a: the leaves are made and owned inside the helper container.
StartMkdir ==
  /\ Advance("s_mkdir", "s_cp")
  /\ own' = [own EXCEPT !["leaves"] = "consumer"]
  /\ UNCHANGED <<keys, acl, up, state>>

StartMkdirFails ==
  /\ FailTo("s_mkdir", "s_cleanup")
  /\ UNCHANGED <<own, keys, acl, up, state>>

\* _helper_cp_chown_plan: one helper call per recipe, in this order, those for
\* config/ taken as one.
HelperGroups == <<{"config"}, {"authorized_keys", "ipc_host_key"}, {"entrypoint"}>>

\* Phase 6b: `cp && unlink && cp && chmod && chown` in a loop under set -e, so
\* a missing file is passed over unless it is the last of its group; the last
\* files (.claude.json, ipc_host_key, entrypoint.sh) exist by now.
StartCp ==
  /\ Advance("s_cp", "s_compose")
  /\ Chown(Managed)
  /\ UNCHANGED <<keys, acl, up, state>>

StartCpFails ==
  /\ FailTo("s_cp", "s_cleanup")
  /\ \E n \in 0..Len(HelperGroups) : Chown(UNION {HelperGroups[i] : i \in 1..n})
  /\ UNCHANGED <<keys, acl, up, state>>

\* Phase 6, then the lock is released and the command hands over.
StartCompose ==
  /\ End("s_compose", "started")
  /\ up' = TRUE
  /\ UNCHANGED <<own, keys, acl, state>>

StartComposeFails ==
  /\ FailTo("s_compose", "s_cleanup")
  /\ up' \in BOOLEAN
  /\ UNCHANGED <<own, keys, acl, state>>

\* Mutant: the flag acl_granted is only set once the grants are complete.
BugCleanupOnlyIfComplete ==
  /\ End("s_cleanup", "failed")
  /\ acl' = IF acl = "all" THEN "none" ELSE acl
  /\ UNCHANGED <<own, keys, up, state>>

\* The handler of (IPAMExhaustedError, SandboxExecutionError).
StartCleanup ==
  /\ End("s_cleanup", "failed")
  /\ acl' = "none"
  /\ UNCHANGED <<own, keys, up, state>>

\* A revocation that fails is a warning.
StartCleanupFails ==
  /\ FailEnd("s_cleanup", "failed")
  /\ acl' = "some"
  /\ UNCHANGED <<own, keys, up, state>>

-----------------------------------------------------------------------------
(* stop *)

StopRefused == ~registered /\ BeginAndEnd("stop", "refused")
StopNoConfig == registered /\ Absent("toml") /\ BeginAndEnd("stop", "raised")
StopCold == registered /\ ~Absent("toml") /\ ~Warm /\ BeginAndEnd("stop", "not_running")

StopBegin ==
  /\ registered /\ ~Absent("toml") /\ Warm
  /\ Begin("stop", "t_down")
  /\ UNCHANGED <<own, keys, acl, up, state>>

\* _phase_stop_teardown: compose down, unlink, revoke.
ComposeDown(from, to) ==
  /\ Advance(from, to)
  /\ up' = FALSE
  /\ UNCHANGED <<own, keys, acl, state>>

UnlinkConsumerFiles(from, to) ==
  /\ Advance(from, to)
  /\ Unlink(Managed)
  /\ auth' = FALSE
  /\ host' = FALSE
  /\ UNCHANGED <<acl, up, state>>

\* An unlink that fails is a warning, and the file stays.
UnlinkFails(from, to) ==
  /\ FailTo(from, to)
  /\ \E kept \in SUBSET Managed \ {{}} :
        /\ Unlink(Managed \ kept)
        /\ auth' = (auth /\ "authorized_keys" \in kept)
        /\ host' = (host /\ "ipc_host_key" \in kept)
  /\ UNCHANGED <<acl, up, state>>

StopDown == ComposeDown("t_down", "t_unlink")

\* stop lets the SandboxExecutionError through.
StopDownFails ==
  /\ FailEnd("t_down", "raised")
  /\ UNCHANGED <<own, keys, acl, up, state>>

\* Mutant: stop revokes the ACLs and leaves the helper's files.
BugStopKeepsFiles ==
  /\ Advance("t_unlink", "t_revoke")
  /\ UNCHANGED <<own, keys, acl, up, state>>

StopUnlink == UnlinkConsumerFiles("t_unlink", "t_revoke")
StopUnlinkFails == UnlinkFails("t_unlink", "t_revoke")

StopRevoke ==
  /\ End("t_revoke", "stopped")
  /\ acl' = "none"
  /\ UNCHANGED <<own, keys, up, state>>

StopRevokeFails ==
  /\ FailEnd("t_revoke", "stopped")
  /\ acl' = "some"
  /\ UNCHANGED <<own, keys, up, state>>

-----------------------------------------------------------------------------
(* destroy *)

DestroyRefused == BeginAndEnd("destroy", "refused")
DestroyNoConfig == registered /\ Absent("toml") /\ BeginAndEnd("destroy", "raised")

\* D1 and D2
DestroyBegin ==
  /\ registered /\ ~Absent("toml")
  /\ Begin("destroy", "d_down")
  /\ UNCHANGED <<own, keys, acl, up, state>>

\* D3; a failed compose down is a warning.
DestroyDown == ComposeDown("d_down", "d_backup")

DestroyDownFails ==
  /\ FailTo("d_down", "d_backup")
  /\ UNCHANGED <<own, keys, acl, up, state>>

\* D4; a BackupError ends the command.
DestroyBackup ==
  /\ Advance("d_backup", "d_volumes")
  /\ UNCHANGED <<own, keys, acl, up, state>>

DestroyAborts ==
  /\ FailEnd("d_backup", "aborted")
  /\ UNCHANGED <<own, keys, acl, up, state>>

\* Mutant: the second compose down is dropped, D3 having done one.
BugOneDown ==
  /\ Advance("d_volumes", "d_unlink")
  /\ UNCHANGED <<own, keys, acl, up, state>>

\* D5
DestroyVolumes == ComposeDown("d_volumes", "d_unlink")

DestroyVolumesFails ==
  /\ FailTo("d_volumes", "d_unlink")
  /\ UNCHANGED <<own, keys, acl, up, state>>

\* D6
DestroyUnlink == UnlinkConsumerFiles("d_unlink", "d_revoke")
DestroyUnlinkFails == UnlinkFails("d_unlink", "d_revoke")

\* Mutant: the revocation is left to the removal of the tree.
BugNoRevoke ==
  /\ Advance("d_revoke", "d_rmtree")
  /\ UNCHANGED <<own, keys, acl, up, state>>

DestroyRevoke ==
  /\ Advance("d_revoke", "d_rmtree")
  /\ acl' = "none"
  /\ UNCHANGED <<own, keys, up, state>>

DestroyRevokeFails ==
  /\ FailTo("d_revoke", "d_rmtree")
  /\ acl' = "some"
  /\ UNCHANGED <<own, keys, up, state>>

\* Mutant: the secrets of .sandbox.env are spared.
BugRmtreeKeepsEnv ==
  /\ Advance("d_rmtree", "d_trees")
  /\ Unlink(Files \ {"trees", "env"})
  /\ auth' = FALSE
  /\ host' = FALSE
  /\ acl' = "none"
  /\ UNCHANGED <<up, state>>

\* D7: the ACL entries go with the tree.
DestroyRmtree ==
  /\ Advance("d_rmtree", "d_trees")
  /\ Unlink(Files \ {"trees"})
  /\ auth' = FALSE
  /\ host' = FALSE
  /\ acl' = "none"
  /\ UNCHANGED <<up, state>>

\* rmtree stops at the first error, having removed some of the files in no
\* fixed order; the finally clause releases state.lock and the error goes to
\* the operator.  Only files that a later command looks for are told apart.
DestroyRmtreeFails ==
  /\ FailEnd("d_rmtree", "raised")
  /\ \E gone \in SUBSET {"toml", "sentinel", "env", "compose", "ipc_ssh_key", "ipc_known_hosts"} :
        /\ Unlink(gone)
        /\ auth' = (auth /\ "ipc_ssh_key" \notin gone)
        /\ host' = (host /\ "ipc_known_hosts" \notin gone)
  /\ UNCHANGED <<acl, up, state>>

\* D8 and D9; a tree that cannot be removed is a warning.
DestroyTrees ==
  /\ Advance("d_trees", "d_ipam")
  /\ Unlink({"trees"})
  /\ UNCHANGED <<keys, acl, up, state>>

DestroyTreesFails ==
  /\ FailTo("d_trees", "d_ipam")
  /\ UNCHANGED <<own, keys, acl, up, state>>

\* D10, each half fault-isolated.
DestroyIpam ==
  /\ Advance("d_ipam", "d_registry")
  /\ slot' = FALSE
  /\ UNCHANGED <<own, keys, acl, up, registered>>

DestroyIpamFails ==
  /\ FailTo("d_ipam", "d_registry")
  /\ UNCHANGED <<own, keys, acl, up, state>>

DestroyRegistry ==
  /\ pc = "d_registry"
  /\ pc' = "idle"
  /\ registered' = FALSE
  /\ last' = [last EXCEPT !.end = "destroyed"]
  /\ harm' = IF last.fault THEN harm ELSE "none"
  /\ UNCHANGED <<own, keys, acl, up, slot, faults>>

DestroyRegistryFails ==
  /\ FailEnd("d_registry", "destroyed")
  /\ UNCHANGED <<own, keys, acl, up, state>>

-----------------------------------------------------------------------------

InitCommand ==
  \/ InitRefused \/ InitBegin \/ InitDirs \/ InitToml \/ InitEnv \/ InitAcls
  \/ InitRegister \/ InitSecrets \/ InitSentinel

StartCommand ==
  \/ StartRefused \/ StartNoConfig \/ StartWarm \/ StartBegin \/ StartProbeLost
  \/ StartIpam \/ StartShared
  \/ StartAcl \/ StartAuth \/ StartAuthPub \/ StartHost \/ StartHostPub \/ StartReconcile
  \/ StartHydrate \/ StartGrant \/ StartMkdir \/ StartCp \/ StartCompose \/ StartCleanup
  \/ StartFailsEarly \/ StartAclFails \/ StartHydrateFails \/ StartGrantFails
  \/ StartMkdirFails \/ StartCpFails \/ StartComposeFails \/ StartCleanupFails

StopCommand ==
  \/ StopRefused \/ StopNoConfig \/ StopCold \/ StopBegin \/ StopDown \/ StopDownFails
  \/ StopUnlink \/ StopUnlinkFails \/ StopRevoke \/ StopRevokeFails

DestroyCommand ==
  \/ DestroyRefused \/ DestroyNoConfig \/ DestroyBegin \/ DestroyDown \/ DestroyDownFails
  \/ DestroyBackup \/ DestroyAborts \/ DestroyVolumes \/ DestroyVolumesFails
  \/ DestroyUnlink \/ DestroyUnlinkFails \/ DestroyRevoke \/ DestroyRevokeFails
  \/ DestroyRmtree \/ DestroyRmtreeFails \/ DestroyTrees \/ DestroyTreesFails
  \/ DestroyIpam \/ DestroyIpamFails \/ DestroyRegistry \/ DestroyRegistryFails

Init ==
  /\ pc = "idle"
  /\ own = [f \in Files |-> "absent"]
  /\ auth = FALSE /\ host = FALSE
  /\ acl = "none"
  /\ up = FALSE /\ slot = FALSE /\ registered = FALSE
  /\ last = Record("none", "refused", FALSE)
  /\ harm = "none"
  /\ faults = 0

Next == InitCommand \/ StartCommand \/ StopCommand \/ DestroyCommand \/ Die

Spec == Init /\ [][Next]_vars

-----------------------------------------------------------------------------
(* Properties *)

\* Every variable has its type; the client-side key files never go to a
\* container subuid and the leaves never to the operator.
TypeOK ==
  /\ pc \in Phases \cup {"idle"}
  /\ own \in [Files -> Owners]
  /\ \A f \in Files \ (Managed \cup {"leaves"}) : own[f] # "consumer"
  /\ auth \in BOOLEAN /\ host \in BOOLEAN
  /\ acl \in {"none", "some", "all"}
  /\ up \in BOOLEAN /\ slot \in BOOLEAN /\ registered \in BOOLEAN
  /\ last \in [cmd : Commands, end : Endings, fault : BOOLEAN]
  /\ harm \in {"none", "failure", "death"}
  /\ faults \in 0..MaxFaults

\* While nothing has gone wrong since the last destroy, no order of init,
\* start, stop and destroy makes a later command fail on what an earlier one
\* left on disk; and a destroy that goes through wipes out whatever a failure
\* or a death before it left behind.
UnharmedCommandsSucceed == harm = "none" => last.end \notin {"failed", "raised"}

\* While nothing has gone wrong since the last destroy, an instance at rest
\* has either its containers and its ACL entries, or neither, and then no file
\* of another owner that would stop the next start (the teardown sequence of stop).
RestIsClean ==
  (harm = "none" /\ pc = "idle") =>
     IF up THEN acl = "all"
           ELSE acl = "none" /\ \A f \in Managed : own[f] # "consumer"

\* Whatever fails short of a death, the known_hosts entry that attach trusts is
\* the one of the host key the container gets (the skip of generate_ssh_keypair
\* and the unlink of stop work on different halves of the pair).
HostKeysAgree ==
  (/\ harm # "death" /\ pc # "s_host_pub"
   /\ ~Absent("ipc_host_key") /\ ~Absent("ipc_known_hosts")) => host

\* After a single failure or death, a start that fails in a handled way leaves
\* no ACL entry, also when the grant itself failed half-way (acl_granted is set
\* before the grant), and when it fails on what an earlier command left behind.
FailedStartRevokes ==
  (faults <= 1 /\ last.cmd = "start" /\ last.end = "failed") => acl = "none"

\* No single failure or death, wherever it strikes, leaves a running container
\* whose address slot or registry entry has been given up.
RunningHoldsSlot == (faults <= 1 /\ up) => slot /\ registered

\* "Run `sandbox destroy` then `sandbox init`": when a single fault makes destroy
\* unable to load the config of a registered instance, an earlier destroy had torn
\* down all that runs or belongs to others: no start or stop cut short gets there.
UnloadableIsTornDown ==
  (faults <= 1 /\ last.cmd = "destroy" /\ last.end = "raised") =>
     /\ ~up /\ acl = "none"
     /\ \A f \in Managed : Absent(f)

-----------------------------------------------------------------------------
(* A statement of the specifications that the code does not meet *)

\* "Server-side IPC secrets ... applied-on-every-start": when the containers
\* come up, core has an authorized_keys and a host key of its own.
SecretsApplied ==
  pc = "s_compose" => own["authorized_keys"] = "consumer" /\ own["ipc_host_key"] = "consumer"
================================================================================
