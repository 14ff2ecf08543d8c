-------------------------------- MODULE Doctor --------------------------------
(***************************************************************************)
(* `sandbox doctor` (core/doctor/) on the host that Setup works on.  Doctor *)
(* changes nothing: its verdict is a function of the host and of the mode   *)
(* the marker records, and the question is whether it agrees with setup,    *)
(* which probes the same host with other code.                              *)
(*                                                                          *)
(* Four checks read the operator's own tree as well, which init makes and   *)
(* setup never touches: the verdict is a function of that site, too.  The   *)
(* checks that only warn about the tree, of instances and backups, of the   *)
(* image pins and of the host's capacity have no dependents and are left    *)
(* out.  Doctor is run by the operator, without sudo, in a session opened   *)
(* after the setup.                                                         *)
(***************************************************************************)
EXTENDS Setup

\* Check.depends_on in build_check_registry.
CheckDependsOn ==
  [sudo |-> {}, machinectl |-> {}, tlog |-> {}, user_exists |-> {},
   systemd_machined |-> {"machinectl"},
   machinectl_reachable |-> {"sudo", "machinectl", "user_exists", "systemd_machined"},
   docker_available |-> {"machinectl_reachable"},
   docker_rootless |-> {"docker_available"}, runsc |-> {"docker_available"},
   runsc_runtimeargs |-> {"runsc"}, host_uds |-> {"runsc"},
   compose_project_name_collision |-> {"machinectl_reachable"},
   setfacl |-> {}, acl_support |-> {"setfacl"}, cgroup_v2 |-> {},
   ancestor_traverse |-> {"acl_support"},
   state_dir |-> {}, per_user_tree_exists |-> {},
   workspace_bridge_group_exists |-> {},
   dev_in_workspace_bridge_group |-> {"workspace_bridge_group_exists"},
   subuid_resolver_works |-> {},
   pre_existing_instance_layout |-> {"subuid_resolver_works"},
   runsc_pinned_match |-> {}, dispatcher_sha_drift |-> {}, setup_invariants |-> {},
   daemon_owner_sudo |-> {}]

Checks == DOMAIN CheckDependsOn

\* Mutant: the check of the daemon's user is not gated by the mode.
BugCheckAppliesIn(c, m) ==
  CASE c \in {"systemd_machined", "machinectl_reachable", "dispatcher_sha_drift"} -> m = SU
    [] c = "daemon_owner_sudo" -> m = OR
    [] OTHER -> TRUE

\* Check.applies_in
CheckAppliesIn(c, m) ==
  CASE c \in {"user_exists", "systemd_machined", "machinectl_reachable",
              "dispatcher_sha_drift"} -> m = SU
    [] c = "daemon_owner_sudo" -> m = OR
    [] OTHER -> TRUE

\* The categories that do not depend on the mode, of the checks here.
ModeInvariant == {"setfacl", "acl_support", "cgroup_v2", "ancestor_traverse", "state_dir",
                  "per_user_tree_exists"}

-----------------------------------------------------------------------------
(* The operator's tree *)

\* ensure_per_user_state of init makes these in this order, if it is not cut short.
TreeOrder == <<"home", "config", "state", "instances">>

\* dirs: those there are; open: every ancestor of <home>/instances that exists lets
\* the daemon's user through, as after a start; projects: the daemon has some,
\* of this operator or of another.
Sites == [dirs : {{TreeOrder[i] : i \in 1..n} : n \in 0..4},
          open : BOOLEAN, projects : BOOLEAN]

-----------------------------------------------------------------------------
(* The checks, as what they make of the facts *)

Holds(h, f) == h[f] = "good"
PassIf(b) == IF b THEN "pass" ELSE "fail"

\* The facts of the daemon's owner in each mode.
Fact(m, su, opr) == IF m = SU THEN su ELSE opr

\* check_sudo, check_tlog and check_setfacl look for what L0 verifies too.
BinaryFound(h) == PassIf(Holds(h, "prereq"))
MachinectlFound(h) == PassIf(Holds(h, "machinectl"))
UserExists(h) == PassIf(Holds(h, "user"))
MachinedActive(h) == PassIf(Holds(h, "machined"))

\* auth-probe crosses; an older rule or dispatcher knows that op as well.
Crosses(h) == h["rule"] # "absent" /\ h["dispatcher"] # "absent" /\ Holds(h, "user")
MachinectlReachable(h) == PassIf(Crosses(h))

DaemonAnswers(m, h) == Holds(h, Fact(m, "dockerd", "opDockerd")) /\ (m = SU => Crosses(h))
DockerAvailable(m, h) == PassIf(DaemonAnswers(m, h))
RunscRegistered(m, h) ==
  PassIf(DaemonAnswers(m, h) /\ Holds(h, Fact(m, "runtime", "opRuntime")))

\* check_runsc_runtimeargs and check_host_uds read the arguments of the runtime.
RuntimeArgs(m, h) == IF RunscRegistered(m, h) = "pass" THEN "pass" ELSE "warn"

\* check_compose_project_name_collision, with an instance registered.
ProjectCollision(m, h) == IF DaemonAnswers(m, h) THEN "pass" ELSE "skip"

\* check_cgroup_v2, as L1 verifies it.
CgroupV2(h) == PassIf(Holds(h, "kernel"))

\* check_acl_support tries an ACL on a temporary file in <home>.
AclSupport(h, s) == PassIf(Holds(h, "kernel") /\ "home" \in s.dirs)

StateDirWritable(s) == PassIf("state" \in s.dirs)
PerUserTreeExists(s) == PassIf({"home", "config", "state"} \subseteq s.dirs)

\* check_ancestor_traverse, from the root down to <home>/instances: a directory
\* that bars the daemon's user is a skip if the daemon says it has no project,
\* one that is not there a failure.  The operator can enter what is his own.
AncestorTraverse(m, h, s) ==
  CASE m = SU /\ ~Holds(h, "user") -> "fail"
    [] m = SU /\ Holds(h, "user") /\ ~s.open ->
         IF DaemonAnswers(m, h) /\ ~s.projects THEN "skip" ELSE "fail"
    [] OTHER -> PassIf("instances" \in s.dirs)

\* workspace_bridge_gid: a missing subgid range raises something the check of
\* the group does not catch.
BridgeGroup(m, h) ==
  LET group == h[Fact(m, "group", "opGroup")]
  IN  CASE group = "absent" -> "fail"
        [] group # "absent" /\ h[Fact(m, "subid", "opSubgid")] = "absent" -> "raise"
        [] OTHER -> PassIf(group = "good")

BridgeMember(m, h) == PassIf(Holds(h, Fact(m, "member", "opMember")))
SubuidResolver(m, h) == PassIf(h[Fact(m, "subid", "opSubuid")] # "absent")

\* check_pre_existing_instance_layout, of instances as start leaves them.
InstanceLayout(m, h) == IF SubuidResolver(m, h) = "pass" THEN "pass" ELSE "skip"

\* check_runsc_pinned_match
PinnedMatch(h) ==
  CASE h["runsc"] = "absent" -> "skip" [] h["runsc"] = "stale" -> "warn" [] OTHER -> "pass"

\* check_dispatcher_sha_drift: read_manifest raises on what is not JSON.
ShaDrift(h) ==
  IF h["manifest"] = "torn" THEN "raise"
  ELSE IF "absent" \in {h["manifest"], h["dispatcher"]} THEN "skip"
  ELSE IF Holds(h, "manifest") /\ Holds(h, "dispatcher") THEN "pass" ELSE "warn"

\* check_setup_invariants never fails.  The operator can neither read the rule
\* nor ask for the sudoers policy of the daemon's user, and the latter warns.
SetupInvariants(m, h) ==
  IF /\ m = OR /\ h["runsc"] # "absent"      \* the reserved directory is there
     /\ \A f \in {"opSubuid", "opSubgid", "opGroup", "opMember"} : Holds(h, f)
  THEN "pass" ELSE "warn"

\* check_daemon_owner_sudo: an operator who could set the host up has sudo.
DaemonOwnerSudo == "warn"

\* The closure each Check carries.
RunCheck(c, m, h, s) ==
  CASE c \in {"sudo", "tlog", "setfacl"} -> BinaryFound(h)
    [] c = "machinectl" -> MachinectlFound(h)
    [] c = "user_exists" -> UserExists(h)
    [] c = "systemd_machined" -> MachinedActive(h)
    [] c = "machinectl_reachable" -> MachinectlReachable(h)
    [] c \in {"docker_available", "docker_rootless"} -> DockerAvailable(m, h)
    [] c = "runsc" -> RunscRegistered(m, h)
    [] c = "cgroup_v2" -> CgroupV2(h)
    [] c = "acl_support" -> AclSupport(h, s)
    [] c = "ancestor_traverse" -> AncestorTraverse(m, h, s)
    [] c = "state_dir" -> StateDirWritable(s)
    [] c = "per_user_tree_exists" -> PerUserTreeExists(s)
    [] c = "workspace_bridge_group_exists" -> BridgeGroup(m, h)
    [] c = "dev_in_workspace_bridge_group" -> BridgeMember(m, h)
    [] c = "subuid_resolver_works" -> SubuidResolver(m, h)
    [] c = "runsc_pinned_match" -> PinnedMatch(h)
    [] c = "dispatcher_sha_drift" -> ShaDrift(h)
    [] c = "setup_invariants" -> SetupInvariants(m, h)
    [] c = "daemon_owner_sudo" -> DaemonOwnerSudo
    [] c \in {"runsc_runtimeargs", "host_uds"} -> RuntimeArgs(m, h)
    [] c = "compose_project_name_collision" -> ProjectCollision(m, h)
    [] c = "pre_existing_instance_layout" -> InstanceLayout(m, h)

-----------------------------------------------------------------------------
(* run_checks *)

\* Mutant: a check the mode leaves out blocks its dependents like a failed one.
BugBlocks(dep, status, m) == status \in {"fail", "skip"}

\* A dependency blocks when it failed or was skipped, but not when the mode
\* leaves it out.
Blocks(dep, status, m) == CheckAppliesIn(dep, m) /\ status \in {"fail", "skip"}

\* The results of the checks in S, each after those it depends on; a
\* dependency outside S counts for nothing.
RunChecks(S, m, h, s) ==
  LET result[c \in S] ==
        IF ~CheckAppliesIn(c, m) THEN "skip"
        ELSE IF \E d \in CheckDependsOn[c] \cap S : Blocks(d, result[d], m) THEN "skip"
        ELSE RunCheck(c, m, h, s)
  IN  result

\* doctor: with no mode recorded only the checks that need none are run, in
\* the default mode, and the others are skipped.
CheckResults(recorded, h, s) ==
  IF recorded = None
  THEN LET known == RunChecks(ModeInvariant, OR, h, s)
       IN  [c \in Checks |-> IF c \in ModeInvariant THEN known[c] ELSE "skip"]
  ELSE RunChecks(Checks, recorded, h, s)

\* The exit code; an exception of a check ends doctor before it has one.
DoctorExit(recorded, h, s) ==
  LET results == CheckResults(recorded, h, s)
      verdicts == {results[c] : c \in Checks}
  IN  IF "raise" \in verdicts THEN "raise" ELSE IF "fail" \in verdicts THEN "1" ELSE "0"

-----------------------------------------------------------------------------
(* Properties *)

\* Setup has nothing to do in mode m.
SetupContent(m, h) == /\ InPlace(Phases \ Extras, m, h)
                      /\ m = OR => Unsatisfied(h, OR) = <<>>

\* The operator's tree is as doctor wants it: init has made it, and where the
\* daemon's user cannot enter it yet, nothing runs.
TreeReady(m, s) ==
  /\ {"home", "config", "state"} \subseteq s.dirs
  /\ IF m = SU /\ ~s.open THEN ~s.projects ELSE "instances" \in s.dirs

\* On a host where setup would find nothing to do for the recorded mode, doctor's
\* verdict is that of the operator's tree alone: it exits with 0 exactly where init
\* has made the tree, so with 1 between the setup and the first init, and never
\* raises.  In operator-rootless it asks for more than setup: machinectl, which
\* that mode never uses, the kernel features that only L1 verifies, and a bridge
\* group in range, where setup is content with the operator's membership.
DoctorAgrees ==
  (/\ pc = "idle" /\ marker # None
   /\ SetupContent(marker, host)
   /\ Holds(host, "machinectl") /\ Holds(host, "kernel")
   /\ marker = OR => host["opGroup"] # "stale")
  => \A s \in Sites : DoctorExit(marker, host, s) = IF TreeReady(marker, s) THEN "0" ELSE "1"

\* What a command on an instance needs: the crossing, a daemon that has runsc,
\* and the bridge group with the operator in it.
Usable(m, h) ==
  /\ DaemonAnswers(m, h)
  /\ Holds(h, Fact(m, "runtime", "opRuntime"))
  /\ Holds(h, Fact(m, "group", "opGroup")) /\ Holds(h, Fact(m, "member", "opMember"))

\* A green doctor on a host with a recorded mode means that a sandbox can be
\* run there, whatever failed, killed and rolled-back setups have left, and
\* whatever the operator's tree is like: no cascade of skips hides the failure
\* behind it.
GreenMeansUsable ==
  (pc = "idle" /\ marker # None) =>
     \A s \in Sites : DoctorExit(marker, host, s) = "0" => Usable(marker, host)

=============================================================================
