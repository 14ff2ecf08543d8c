-------------------------------- MODULE Setup ---------------------------------
(***************************************************************************)
(* `sandbox setup`: the phases of core/setup/, the plan and apply passes   *)
(* of phase_runner.py, the gate of cli_flow.py, the host-root batch of     *)
(* host_batch.py and the mode marker of setup_state.py, run time and again *)
(* by one operator on one host.                                            *)
(*                                                                         *)
(* The host is a function from facts to levels.  A fact is what one step   *)
(* of a phase establishes (a drop-in with the rendered body, a loaded      *)
(* value, a user, a binary); a phase is the sequence of facts its act      *)
(* establishes, the facts its probe reads and those its reverify reads.    *)
(* The three differ, and that is where partial failure bites.              *)
(***************************************************************************)
EXTENDS Integers, Sequences, FiniteSets

CONSTANTS MaxObstacles, \* bound on what is not as on a fresh host at first
          MaxFaults,    \* bound on failing steps, deaths and Ctrl-C; a rollback that
                        \* fails after one of them is not counted
          MaxUpgrades   \* bound on wheel upgrades

ASSUME SetupAssumption == MaxObstacles \in Nat /\ MaxFaults \in Nat /\ MaxUpgrades \in Nat

SU == "separate-user"
OR == "operator-rootless"
Modes == {SU, OR}
None == "none"

-----------------------------------------------------------------------------
(* The phases *)

Extras == {"aide", "fapolicyd"}

DependsOn ==
  [l0 |-> {}, l1 |-> {"l0"}, l2 |-> {"l1"}, l2a |-> {"l2"}, l5 |-> {"l2a"},
   l6 |-> {"l5"}, l6a |-> {"l6"}, l65 |-> {"l6a"}, l7 |-> {"l65"}, l3 |-> {"l7"},
   l3a |-> {"l3"}, l8 |-> {"l3a"}, aide |-> {"l8"}, fapolicyd |-> {"l8"}]

Phases == DOMAIN DependsOn

\* The phases that run as the operator; the others are separate-user only.
AppliesIn(p, m) == m = SU \/ p \in {"l0", "l5", "l6", "l7"} \cup Extras

\* Mutant: only the phase that installs the rule takes it back.
BugHasRollback == {"l3"}

HasRollback == {"l3", "l3a"}

FactsOf(seq) == {seq[i] : i \in DOMAIN seq}

\* The elements of seq that are in S, in their order.
Keep(seq, S) ==
  LET kept[n \in 0..Len(seq)] ==
        IF n = 0 THEN <<>>
        ELSE IF seq[n] \in S THEN Append(kept[n - 1], seq[n]) ELSE kept[n - 1]
  IN  kept[Len(seq)]

\* What the act of each phase does, in order.  L0 only verifies; L3a and L8
\* verify by acting.  In operator-rootless (m = OR) the daemon is the
\* operator's own, and its linger, like all that needs root, the batch's.
L1Act == <<"sysctlFile", "sysctlLive">>
L2Act == <<"machined", "user", "subid", "group", "member">>
L2aAct == <<"delegateFile", "delegateLoaded">>
L5Act(m) == IF m = SU THEN <<"linger", "dockerd">> ELSE <<"opDockerd">>
L6Act(m) == IF m = SU THEN <<"daemonJson", "runtime">>
                      ELSE <<"opDaemonJson", "opRuntime">>
L6aAct == <<"runsc", "runscSeal">>
L65Act == <<"dispatcher", "dispatcherSeal", "manifest">>
L7Act(m) == IF m = SU THEN <<"image">> ELSE <<"opImage">>
L3Act == <<"rule">>
L3aAct == <<"swept">>
L8Act == <<"session">>
AideAct == <<"aideFile", "aideValid">>
FapolicydAct == <<"trustFile", "trustLoaded">>

Act(p, m) ==
  CASE p = "l0" -> <<>> [] p = "l1" -> L1Act [] p = "l2" -> L2Act [] p = "l2a" -> L2aAct
    [] p = "l5" -> L5Act(m) [] p = "l6" -> L6Act(m) [] p = "l6a" -> L6aAct
    [] p = "l65" -> L65Act [] p = "l7" -> L7Act(m) [] p = "l3" -> L3Act
    [] p = "l3a" -> L3aAct [] p = "l8" -> L8Act [] p = "aide" -> AideAct
    [] p = "fapolicyd" -> FapolicydAct

\* The effects no probe looks at: only the file or the binary is compared.
Unprobed == {"sysctlLive", "delegateLoaded", "runscSeal", "dispatcherSeal",
             "aideValid", "trustLoaded"}

\* What reverify reads back after act; only fapolicyd's asks for the effect.
Confirms(p, m) ==
  IF p = "fapolicyd" THEN {"trustLoaded"} ELSE FactsOf(Act(p, m)) \ Unprobed

\* The ids in the order of Python's sorted().
IdOrder == <<"aide", "fapolicyd", "l0", "l1", "l2", "l2a", "l3", "l3a", "l5", "l6",
             "l65", "l6a", "l7", "l8">>

\* order_phases: place, one after another, the least id whose dependencies
\* are placed.  A dependency outside S counts as satisfied.
Order(S) ==
  LET ready(done) == {p \in S \ done : DependsOn[p] \cap S \subseteq done}
      placed[n \in 0..Cardinality(S)] ==
        IF n = 0 THEN <<>>
        ELSE LET before == placed[n - 1]
             IN  Append(before, Head(Keep(IdOrder, ready(FactsOf(before)))))
  IN  placed[Cardinality(S)]

\* build_phase_list for each choice of extras.
PhaseList == [extras \in SUBSET Extras |-> Order((Phases \ Extras) \cup extras)]

-----------------------------------------------------------------------------
(* The host *)

\* What setup verifies and cannot provide: the binaries and distro of L0, and
\* machinectl, the ACLs and cgroup v2 of L1, the tools of the extras.
Prerequisites == {"prereq", "machinectl", "kernel", "aideTool", "fapolicydTool"}

BatchFacts == <<"opSubuid", "opSubgid", "opGroup", "opMember", "sysctlFile",
                "sysctlLive", "nftLoaded", "nftFile", "opDelegateFile",
                "opDelegation", "opLinger", "runsc", "runscSeal", "marker">>

Facts == (UNION {FactsOf(Act(p, m)) : p \in Phases, m \in Modes})
         \cup (FactsOf(BatchFacts) \ {"marker"}) \cup Prerequisites

\* stale: present and not what the current source asks for; of subid, an
\* inadequate or overlapping range; of a bridge group, a gid out of range.
\* torn: a manifest that is not JSON.
Levels == {"absent", "stale", "good", "torn"}

Stale(h, S) == [f \in Facts |-> IF f \in S /\ h[f] = "good" THEN "stale" ELSE h[f]]

\* The immutable bit of a binary.
Seal(f) == IF f = "runsc" THEN "runscSeal" ELSE "dispatcherSeal"

\* The facts that hold once step f is done.  A binary with new bytes is not
\* sealed yet and leaves the trust file with the old sha; a new rule is not
\* a swept one.
Establish(h, f) ==
  LET g == [h EXCEPT ![f] = "good"]
  IN  CASE f \in {"dispatcher", "runsc"} /\ h[f] # "good"
             -> [Stale(g, {"trustFile", "trustLoaded"}) EXCEPT ![Seal(f)] = "absent"]
        [] f = "rule" -> [g EXCEPT !["swept"] = "absent"]
        [] f = "trustFile" -> Stale(g, {"trustLoaded"})
        [] OTHER -> g

\* The steps act leaves out when it finds their result there.
SkipsIfGood == {"machined", "user", "subid", "group", "member", "dockerd",
                "opDockerd", "daemonJson", "opDaemonJson", "opSubuid", "opSubgid",
                "opGroup", "opMember", "nftLoaded", "nftFile"}

\* What a death in the middle of step f leaves: of a file written in place,
\* its first bytes; of a binary, the old one unsealed.
Torn(h, f) ==
  CASE f \in {"sysctlFile", "delegateFile", "opDelegateFile", "nftFile", "aideFile",
              "trustFile"} -> [h EXCEPT ![f] = "stale"]
    [] f \in {"daemonJson", "opDaemonJson"} -> [h EXCEPT ![f] = "absent"]
    [] f = "manifest" -> [h EXCEPT ![f] = "torn"]
    [] f \in {"runsc", "dispatcher"} -> [h EXCEPT ![Seal(f)] = "absent"]
    [] OTHER -> h

-----------------------------------------------------------------------------
(* Probing *)

\* Mutant: the probe asks whether the file is there, not what is in it.
BugCorrect(seq, h) == \A f \in FactsOf(seq) \ Unprobed : h[f] # "absent"

\* What the probe reads is what the current source renders.
Correct(seq, h) == \A f \in FactsOf(seq) \ Unprobed : h[f] = "good"

\* DRIFT is MISSING here: the gate and the apply pass treat them alike.
Compare(seq, h) == IF Correct(seq, h) THEN "ALREADY_CORRECT" ELSE "MISSING"

L0Probe(m, h) == IF h["prereq"] = "good" /\ (m = SU => h["machinectl"] = "good")
                 THEN "ALREADY_CORRECT" ELSE "CONFLICT"
L1Probe(h) == IF h["kernel"] # "good" THEN "CONFLICT" ELSE Compare(L1Act, h)
L2Probe(h) == IF h["user"] = "good" /\ h["subid"] = "stale" THEN "CONFLICT"
              ELSE Compare(L2Act, h)
L2aProbe(h) == Compare(L2aAct, h)
L5Probe(m, h) == Compare(L5Act(m), h)
L6Probe(m, h) == Compare(L6Act(m), h)
L6aProbe(h) == Compare(L6aAct, h)
L65Probe(h) == IF h["manifest"] = "torn" THEN "FAIL"       \* json.loads raises
               ELSE Compare(L65Act, h)
L7Probe(m, h) == Compare(L7Act(m), h)
L3Probe(h) == Compare(L3Act, h)
L3aProbe == "MISSING"
L8Probe == "MISSING"
AideProbe(h) == IF h["aideTool"] # "good" THEN "CONFLICT" ELSE Compare(AideAct, h)
FapolicydProbe(h) ==
  CASE h["fapolicydTool"] # "good" -> "CONFLICT"
    [] "absent" \in {h["dispatcher"], h["runsc"]} -> "FAIL"  \* os.path.getsize raises
    [] OTHER -> Compare(FapolicydAct, h)

Probe(p, m, h) ==
  CASE p = "l0" -> L0Probe(m, h) [] p = "l1" -> L1Probe(h) [] p = "l2" -> L2Probe(h)
    [] p = "l2a" -> L2aProbe(h) [] p = "l5" -> L5Probe(m, h) [] p = "l6" -> L6Probe(m, h)
    [] p = "l6a" -> L6aProbe(h) [] p = "l65" -> L65Probe(h) [] p = "l7" -> L7Probe(m, h)
    [] p = "l3" -> L3Probe(h) [] p = "l3a" -> L3aProbe [] p = "l8" -> L8Probe
    [] p = "aide" -> AideProbe(h) [] p = "fapolicyd" -> FapolicydProbe(h)

\* What the classifier of the item that step f belongs to looks at.
ItemProbe(f) ==
  CASE f \in {"opSubuid", "opSubgid"} -> {"opSubuid", "opSubgid"}
    [] f \in {"opGroup", "opMember"} -> {"opMember"}
    [] f \in {"sysctlFile", "sysctlLive"} -> {"sysctlFile"}
    [] f \in {"nftLoaded", "nftFile"} -> {"nftLoaded", "nftFile"}
    [] f \in {"opDelegateFile", "opDelegation"} -> {"opDelegation"}
    [] f \in {"runsc", "runscSeal"} -> {"runsc"}
    [] f = "opLinger" -> {"opLinger"}

ToDo(f, h, recorded) ==
  IF f = "marker" THEN recorded # OR
  ELSE /\ \E g \in ItemProbe(f) : h[g] # "good"
       /\ ~(f \in SkipsIfGood /\ h[f] = "good")

\* The items classify_host_root_batch finds unsatisfied, as the steps their
\* appliers will do in the order of HOST_ROOT_BATCH.
Unsatisfied(h, recorded) ==
  Keep(BatchFacts, {f \in FactsOf(BatchFacts) : ToDo(f, h, recorded)})

-----------------------------------------------------------------------------
VARIABLES
  host,      \* the level of every fact
  marker,    \* the operator's entry in setup-state.json: a mode, or None
  pc,        \* where the running setup is; idle when there is none
  mode,      \* its execution mode
  update,    \* TRUE: --update-runsc in separate-user, L6a alone with force
  rest,      \* its phases not yet done, the one in hand first
  todo,      \* the steps left of the batch or of the act in hand
  failed,    \* failed_ids of the apply pass
  outcome,   \* the result of each phase it has done
  exit,      \* how the last setup ended; unapplied: with 0, too, and no attempt
  able,      \* history: it met no fault and began on a host it can serve
  faults,    \* faults so far
  upgrades   \* wheel upgrades so far

runVars == <<mode, update, rest, todo, failed, outcome>>
vars == <<host, marker, pc, runVars, exit, able, faults, upgrades>>

Results == {None, "SKIPPED", "BLOCKED_BY", "ALREADY_CORRECT", "CONFLICT", "FAIL",
            "ROLLBACK_FAILED"}
NoOutcome == [p \in Phases |-> None]

\* A host with what setup needs, and subids as useradd gives them.
Fresh == [f \in Facts |-> IF f \in Prerequisites \cup {"opSubuid", "opSubgid"}
                         THEN "good" ELSE "absent"]

\* What may be in the way at first: something is missing, a subid range is
\* inadequate, a bridge group has a gid out of range, and the operator may be
\* in that group already.
Obstacles == Prerequisites \cup {"opSubuid", "opSubgid", "subid", "group", "opGroup",
                                 "member", "opMember"}
Obstructed(f) == CASE f \in {"subid", "group", "opGroup"} -> "stale"
                   [] f \in {"member", "opMember"} -> "good"
                   [] OTHER -> "absent"

Obstructions ==
  {D \in SUBSET Obstacles : /\ Cardinality(D) <= MaxObstacles
                            /\ "member" \in D => "group" \in D
                            /\ "opMember" \in D => "opGroup" \in D}

InitialHosts ==
  {[f \in Facts |-> IF f \in D THEN Obstructed(f) ELSE Fresh[f]] : D \in Obstructions}

Init ==
  /\ host \in InitialHosts
  /\ marker = None
  /\ pc = "idle"
  /\ mode = OR /\ update = FALSE
  /\ rest = <<>> /\ todo = <<>> /\ failed = {} /\ outcome = NoOutcome
  /\ exit = "none"
  /\ able = FALSE
  /\ faults = 0
  /\ upgrades = 0

Fault == /\ faults < MaxFaults
         /\ faults' = faults + 1
         /\ able' = FALSE

\* The process is over.
Ends(code) ==
  /\ pc' = "idle"
  /\ exit' = code
  /\ rest' = <<>> /\ todo' = <<>> /\ failed' = {} /\ outcome' = NoOutcome
  /\ UNCHANGED <<mode, update, upgrades>>

-----------------------------------------------------------------------------
(* Entry, plan pass and gate *)

\* The extras whose drop-in is there are selected without their flag.
Sticky(h) == {e \in Extras : h[Head(Act(e, SU))] # "absent"}

\* From this host, and unless something fails on the way, setup succeeds:
\* no phase will refuse, runsc is not at another pin, the manifest is JSON.
Servable(m, upd, phases, h) ==
  \/ upd
  \/ /\ \A p \in phases : AppliesIn(p, m) => Probe(p, m, h) \notin {"CONFLICT", "FAIL"}
     /\ IF m = SU THEN /\ h["subid"] # "stale" /\ h["group"] # "stale"
                       /\ h["runsc"] # "stale"
                  ELSE /\ h["opSubgid"] = "good"
                       /\ h["opGroup"] = "stale" => h["opMember"] = "good"
                       /\ \A e \in phases \cap Extras :
                            Probe(e, m, h) = "ALREADY_CORRECT"
                       /\ "fapolicyd" \in phases => h["runsc"] = "good"

\* resolve_effective_mode: the recorded mode, else the flag's, else the default,
\* over every flag that is not refused.
EffectiveModes == IF marker # None THEN {marker} ELSE Modes

\* --update-runsc means what it says in separate-user only, and no extra then.
Begin(m, extras, upd) ==
  /\ pc = "idle"
  /\ m \in EffectiveModes
  /\ upd => m = SU /\ extras = {}
  /\ pc' = "plan"
  /\ mode' = m
  /\ update' = upd
  /\ rest' = IF upd THEN <<"l6a">> ELSE PhaseList[extras \cup Sticky(host)]
  /\ exit' = "none"
  /\ able' = Servable(mode', update', FactsOf(rest'), host)
  /\ UNCHANGED <<host, marker, todo, failed, outcome, faults, upgrades>>

\* A flag against the recorded mode is refused.
RefuseModeSwitch ==
  /\ pc = "idle"
  /\ marker # None
  /\ exit' = "1"
  /\ able' = FALSE
  /\ UNCHANGED <<host, marker, pc, runVars, faults, upgrades>>

Applicable == {p \in FactsOf(rest) : AppliesIn(p, mode)}
Planned(result) == \E p \in Applicable : Probe(p, mode, host) = result

\* run_plan_pass, then the REFUSED outcome of the gate.  With no subgid range
\* the operator's batch cannot be classified, and the exception ends setup.
PlanRefused ==
  /\ pc = "plan" /\ ~update
  /\ \/ Planned("CONFLICT") \/ Planned("FAIL")
     \/ mode = OR /\ host["opSubgid"] = "absent"
  /\ Ends("1")
  /\ UNCHANGED <<host, marker, able, faults>>

\* A probe that raises for once, Ctrl-C in it included, is a refusal too.
PlanFails ==
  /\ pc = "plan" /\ ~update
  /\ Fault
  /\ Ends("1")
  /\ UNCHANGED <<host, marker>>

\* --dry-run ends after the plan, refusals or not.  --update-runsc ignores it.
DryRun ==
  /\ pc = "plan" /\ ~update
  /\ mode = OR => host["opSubgid"] # "absent"
  /\ Ends("unapplied")
  /\ UNCHANGED <<host, marker, able, faults>>

\* --update-runsc has no gate.
PlanDone ==
  /\ pc = "plan"
  /\ update \/ ~(Planned("CONFLICT") \/ Planned("FAIL"))
  /\ mode = OR => host["opSubgid"] # "absent"
  /\ pc' = IF update THEN "apply" ELSE "gate"
  /\ todo' = IF mode = OR THEN Unsatisfied(host, marker) ELSE <<>>
  /\ UNCHANGED <<host, marker, mode, update, rest, failed, outcome, exit, able,
                 faults, upgrades>>

SomethingToApply == Planned("MISSING") \/ todo # <<>>

\* _record_separate_user_mode
Recorded == IF mode = SU THEN SU ELSE marker

NothingToApply ==
  /\ pc = "gate" /\ ~SomethingToApply
  /\ marker' = Recorded
  /\ Ends("0")
  /\ UNCHANGED <<host, able, faults>>

Proceed ==
  /\ pc = "gate" /\ SomethingToApply
  /\ pc' = IF todo = <<>> THEN "apply" ELSE "batch"
  /\ UNCHANGED <<host, marker, runVars, exit, able, faults, upgrades>>

\* The prompt is answered with anything but yes.
Decline ==
  /\ pc = "gate" /\ SomethingToApply
  /\ Ends("unapplied")
  /\ UNCHANGED <<host, marker, able, faults>>

\* No terminal and no --yes, or no way to escalate: a refusal.
NotAllowed ==
  /\ pc = "gate" /\ SomethingToApply
  /\ able' = FALSE
  /\ Ends("1")
  /\ UNCHANGED <<host, marker, faults>>

-----------------------------------------------------------------------------
(* Steps of the batch and of an act *)

\* What a step refuses: setup moves no group and shrinks no range, the
\* operator cannot write under /etc, and the two verifications must hold.
Doable(f) ==
  /\ f \in {"subid", "group", "opGroup"} => host[f] # "stale"
  /\ f \in {"aideFile", "trustFile"} => mode = SU
  /\ f \in {"swept", "session"} =>
       host["rule"] = "good" /\ host["dispatcher"] # "absent"
  /\ f = "session" => host["member"] = "good"

StepDone ==
  /\ pc \in {"batch", "act"} /\ todo # <<>>
  /\ Doable(Head(todo))
  /\ IF Head(todo) = "marker"
     THEN marker' = OR /\ UNCHANGED host
     ELSE host' = Establish(host, Head(todo)) /\ UNCHANGED marker
  /\ todo' = Tail(todo)
  /\ UNCHANGED <<pc, mode, update, rest, failed, outcome, exit, able, faults, upgrades>>

\* The exception ends the batch, and setup with it; in an act it, or a Ctrl-C,
\* makes the phase fail.
StepFails ==
  /\ pc \in {"batch", "act"} /\ todo # <<>>
  /\ IF Doable(Head(todo)) THEN Fault ELSE UNCHANGED <<able, faults>>
  /\ IF pc = "batch" THEN Ends("1")
     ELSE /\ pc' = "rollback"
          /\ UNCHANGED <<runVars, exit, upgrades>>
  /\ UNCHANGED <<host, marker>>

BatchDone ==
  /\ pc = "batch" /\ todo = <<>>
  /\ pc' = "apply"
  /\ UNCHANGED <<host, marker, runVars, exit, able, faults, upgrades>>

-----------------------------------------------------------------------------
(* run_apply_pass *)

\* The phase in hand is over with this result.
Report(result) ==
  /\ pc' = "apply"
  /\ outcome' = [outcome EXCEPT ![Head(rest)] = result]
  /\ failed' = IF result \in {"ALREADY_CORRECT", "SKIPPED"} THEN failed
               ELSE failed \cup {Head(rest)}
  /\ rest' = Tail(rest)
  /\ UNCHANGED <<marker, mode, update, todo, exit, upgrades>>

\* Mutant: a failed dependency does not stop its dependents.
BugBlocked(p) == FALSE

Blocked(p) == DependsOn[p] \cap failed # {}

\* The first steps of act.  On a drift without force L6a does nothing.
Steps(p) ==
  IF p = "l6a" /\ host["runsc"] = "stale" /\ ~update THEN <<>>
  ELSE Keep(Act(p, mode), {f \in Facts : ~(f \in SkipsIfGood /\ host[f] = "good")})

SkipPhase ==
  /\ pc = "apply" /\ rest # <<>>
  /\ ~AppliesIn(Head(rest), mode)
  /\ Report("SKIPPED")
  /\ UNCHANGED <<host, able, faults>>

BlockPhase ==
  /\ pc = "apply" /\ rest # <<>>
  /\ AppliesIn(Head(rest), mode) /\ Blocked(Head(rest))
  /\ Report("BLOCKED_BY")
  /\ UNCHANGED <<host, able, faults>>

\* The probe settles it: nothing to do, a refusal, or it raised.
ProbePhase ==
  /\ pc = "apply" /\ rest # <<>>
  /\ AppliesIn(Head(rest), mode) /\ ~Blocked(Head(rest))
  /\ Probe(Head(rest), mode, host) # "MISSING"
  /\ Report(Probe(Head(rest), mode, host))
  /\ UNCHANGED <<host, able, faults>>

ProbeFails ==
  /\ pc = "apply" /\ rest # <<>>
  /\ AppliesIn(Head(rest), mode) /\ ~Blocked(Head(rest))
  /\ Head(rest) \notin {"l3a", "l8"}
  /\ Fault
  /\ Report("FAIL")
  /\ UNCHANGED host

ActPhase ==
  /\ pc = "apply" /\ rest # <<>>
  /\ AppliesIn(Head(rest), mode) /\ ~Blocked(Head(rest))
  /\ Probe(Head(rest), mode, host) = "MISSING"
  /\ pc' = "act"
  /\ todo' = Steps(Head(rest))
  /\ UNCHANGED <<host, marker, mode, update, rest, failed, outcome, exit, able,
                 faults, upgrades>>

Confirmed == \A f \in Confirms(Head(rest), mode) : host[f] = "good"

ReverifyDone ==
  /\ pc = "act" /\ todo = <<>>
  /\ Confirmed
  /\ Report("ALREADY_CORRECT")
  /\ UNCHANGED <<host, able, faults>>

ReverifyFails ==
  /\ pc = "act" /\ todo = <<>>
  /\ IF Confirmed THEN Fault ELSE UNCHANGED <<able, faults>>
  /\ pc' = "rollback"
  /\ UNCHANGED <<host, marker, runVars, exit, upgrades>>

\* _failed: the rollback of L3 and of L3a removes the sudoers drop-in.
Rollback ==
  /\ pc = "rollback"
  /\ host' = IF Head(rest) \in HasRollback
             THEN [host EXCEPT !["rule"] = "absent", !["swept"] = "absent"] ELSE host
  /\ pc' = "apply"
  /\ outcome' = [outcome EXCEPT ![Head(rest)] = "FAIL"]
  /\ failed' = failed \cup {Head(rest)}
  /\ rest' = Tail(rest)
  /\ todo' = <<>>
  /\ UNCHANGED <<marker, mode, update, exit, able, faults, upgrades>>

RollbackFails ==
  /\ pc = "rollback"
  /\ Head(rest) \in HasRollback
  /\ able' = FALSE
  /\ pc' = "apply"
  /\ outcome' = [outcome EXCEPT ![Head(rest)] = "ROLLBACK_FAILED"]
  /\ failed' = failed \cup {Head(rest)}
  /\ rest' = Tail(rest)
  /\ todo' = <<>>
  /\ UNCHANGED <<host, marker, mode, update, exit, faults, upgrades>>

\* Mutant: only a rollback that failed counts as a failed setup.
BugApplyDone ==
  /\ pc = "apply" /\ rest = <<>>
  /\ IF mode = SU /\ ~update /\ \A p \in Phases : outcome[p] # "ROLLBACK_FAILED"
     THEN pc' = "record" /\ UNCHANGED <<runVars, exit, upgrades>>
     ELSE Ends(IF \A p \in Phases : outcome[p] # "ROLLBACK_FAILED" THEN "0" ELSE "1")
  /\ UNCHANGED <<host, marker, able, faults>>

\* apply_pass_failed decides the exit code; a full separate-user setup that
\* did not fail goes on to record its mode.
ApplyDone ==
  /\ pc = "apply" /\ rest = <<>>
  /\ IF failed = {} /\ mode = SU /\ ~update
     THEN pc' = "record" /\ UNCHANGED <<runVars, exit, upgrades>>
     ELSE Ends(IF failed = {} THEN "0" ELSE "1")
  /\ UNCHANGED <<host, marker, able, faults>>

RecordMode ==
  /\ pc = "record"
  /\ marker' = Recorded
  /\ Ends("0")
  /\ UNCHANGED <<host, able, faults>>

-----------------------------------------------------------------------------
(* The end of the process from outside, and of the wheel *)

\* Ctrl-C outside probe, act and rollback ends setup with 130; a kill ends it
\* anywhere.  A file being written in place may be left torn.
Stop ==
  /\ pc # "idle"
  /\ Fault
  /\ Ends(IF pc \in {"act", "rollback"} THEN "killed" ELSE "130")
  /\ host' \in {host} \cup (IF todo = <<>> \/ pc \notin {"batch", "act"} THEN {}
                             ELSE IF Head(todo) = "marker" THEN {}
                             ELSE {Torn(host, Head(todo))})
  /\ UNCHANGED marker

\* A new wheel renders other rules and sources and pins other binaries.
Upgrade ==
  /\ pc = "idle"
  /\ upgrades < MaxUpgrades
  /\ upgrades' = upgrades + 1
  /\ \E S \in {{"rule"}, {"dispatcher", "manifest"}, {"runsc"}, {"image", "opImage"}} :
       host' = Stale(host, S)
  /\ UNCHANGED <<marker, pc, runVars, exit, able, faults>>

Next ==
  \/ \E m \in Modes, extras \in SUBSET Extras, upd \in BOOLEAN : Begin(m, extras, upd)
  \/ RefuseModeSwitch
  \/ PlanRefused \/ PlanFails \/ DryRun \/ PlanDone
  \/ NothingToApply \/ Proceed \/ Decline \/ NotAllowed
  \/ StepDone \/ StepFails \/ BatchDone
  \/ SkipPhase \/ BlockPhase \/ ProbePhase \/ ProbeFails \/ ActPhase
  \/ ReverifyDone \/ ReverifyFails \/ Rollback \/ RollbackFails
  \/ ApplyDone \/ RecordMode
  \/ Stop \/ Upgrade

Spec == Init /\ [][Next]_vars

-----------------------------------------------------------------------------
(* Properties *)

\* Every variable has its type (the dataclasses of phase_runner.py, the
\* marker of setup_state.py).
TypeOK ==
  /\ host \in [Facts -> Levels]
  /\ marker \in Modes \cup {None}
  /\ pc \in {"idle", "plan", "gate", "batch", "apply", "act", "rollback", "record"}
  /\ mode \in Modes /\ update \in BOOLEAN
  /\ FactsOf(rest) \subseteq Phases
  /\ FactsOf(todo) \subseteq Facts \cup {"marker"}
  /\ failed \subseteq Phases
  /\ outcome \in [Phases -> Results]
  /\ exit \in {"none", "0", "unapplied", "1", "130", "killed"}
  /\ able \in BOOLEAN
  /\ faults \in 0..MaxFaults
  /\ upgrades \in 0..MaxUpgrades

\* A setup whose sweep of the installed rule failed leaves no rule, unless
\* the rollback failed as well: an operator is never left with a grant that
\* L3a has just found wrong.
FailedSweepRevokes ==
  outcome["l3a"] = "FAIL" => host["rule"] = "absent"

\* All that the phases of mode m in S probe for is in place.
InPlace(S, m, h) ==
  \A p \in S : AppliesIn(p, m) => /\ Probe(p, m, h) \in {"ALREADY_CORRECT", "MISSING"}
                                  /\ Correct(Act(p, m), h)

\* What commits the host comes last.  The sudoers rule is installed only when
\* everything before L3 is in place; the separate-user mode is recorded only
\* when the rule has been swept and a fresh session seen to work, too; and the
\* operator-rootless mode only when nothing of the root batch is missing.
CommitsComeLast ==
  [][/\ (host["rule"] = "absent" /\ host'["rule"] # "absent") =>
          InPlace(Phases \ (Extras \cup {"l3", "l3a", "l8"}), SU, host)
     /\ (marker' # marker /\ marker' = SU) => InPlace(Phases \ Extras, SU, host)
     /\ (marker' # marker /\ marker' = OR) => Unsatisfied(host, OR) = <<>>]_vars

\* Success is real.  A setup that ends with 0, having been asked to apply, leaves
\* all that the phases and the batch of its mode probe for in place, whatever the
\* failed and killed ones before it left; and as long as nothing has gone wrong
\* since the host was fresh, the effects no probe looks at as well.  After a fault
\* they may be missing for good: the file is there, and nothing loads it again.
SuccessIsReal ==
  [][(pc # "idle" /\ exit' = "0" /\ ~update) =>
       /\ InPlace(Phases \ Extras, mode, host')
       /\ mode = OR => Unsatisfied(host', OR) = <<>>
       /\ faults = 0 => \A p \in Phases \ Extras :
            AppliesIn(p, mode) => \A f \in FactsOf(Act(p, mode)) : host'[f] = "good"]_vars

\* A setup nothing goes wrong in succeeds, whatever the failed, killed and
\* interrupted ones before it, in either mode, and a wheel upgrade have left
\* behind: re-running is the way back from every partial failure but those
\* Servable names.
UnharmedSetupSucceeds == exit = "1" => ~able

\* --update-runsc refreshes the trust file of a host with the fapolicyd
\* integration: when it has succeeded, no trust file holds an old sha.
UpdateRefreshesTrust ==
  pc = "idle" /\ update /\ exit = "0" => host["trustFile"] # "stale"

=============================================================================
