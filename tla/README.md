# sandbox-ai: a TLA+ verification project

`sandbox` is a command-line tool that provisions rootless-docker "instances" for
coding agents.  It runs no daemon.  All its state is on disk, and every invocation
is a process of its own that reads that state, changes some of it and ends.  What
is hard about it follows from this: two invocations may overlap anywhere outside a
lock, a process may die between two writes, a command is a row of phases each of
which may fail, and the next command has to live with what the last one left.

Paths below are relative to the repository root: `src/core/...`, `src/cli/main.py`.
(In `PROJECT.json` they carry the extra `src/` under which the repository lies.)

## 1. Inventory

### 1.1 Components, their state and their operations

| component | code | state | operations |
|---|---|---|---|
| backup lock | `core/locks.py` | `<inst>.backup.lock`: a flock and JSON metadata (pid, start time) | `acquire_backup_lock`, its exit, `is_backup_lock_held`, `is_lock_stale` |
| IPAM ledger | `core/ipam.py` | `ipam.json` (instance to slot), `ipam.json.lock` | `allocate`, `release`, `peek_next_slot` |
| subnets and addresses | `core/ipam.py` | none | `derive_subnets`, `derive_static_ips` |
| instance registry | `core/registry.py` | `instances.json`, `instances.json.lock` | `register`, `remove`, `get`, `all` |
| lifecycle commands | `cli/main.py` with `core/scaffold.py`, `crypto.py`, `hydration.py`, `core/actions/*` | instance directory, secrets, rendered files, ACL entries, containers | `init`, `start`, `stop`, `destroy` |
| workspaces | `cli/main.py`, `core/scaffold.py` | `[workspaces]` of `sandbox.toml`, the trees, the mounts | `workspace add / remove / rename / restore` |
| workspace backups | `core/workspace_backups.py` | `backups/<inst>/<ws>/...` | `create_backup`, `restore_backup`, listing |
| setup phases and layers | `core/setup/*`, `core/setup_state.py` | the mode marker, the host (drop-ins, users, binaries, daemon, image, sudoers rule) | plan pass, gate, escalated host batch, apply pass (probe, act, reverify, rollback), `--update-runsc`, extras |
| dispatcher | `core/dispatch.py`, `templates/dispatch/main.go` | none that lasts; the pipe of a crossing | twelve ops: validation, wire form, crossing by sudo, parsing and exec on the other side, preflight bundle, `fwd` stream |
| executor | `core/executor.py` | none | run with deadline, recovery of the exit code from the frame |
| doctor | `core/doctor/*` | none | ordered checks with dependencies, mode gate, exit code |
| host configuration | `core/host_config.py` | the per-user tree | subuid arithmetic, migration |
| binary install | `core/binary_install.py` | the installed binaries | download, digest check, placement |
| walker, workspace copy | `core/walker.py`, `core/workspace_copy.py` | none | symlink census, rsync plan |
| templates | `core/compose.py`, `templates/docker` | none | rendered text |

### 1.2 How they interact

`cli/main.py` calls everything else.  `start`, `stop`, `destroy` and the workspace
commands take the per-user `state.lock` (non-blocking: a second command fails at
once).  A backup runs under the instance's `backup.lock`, also non-blocking.
`destroy` takes `backup.lock` inside `state.lock`, lets `state.lock` go for the
length of the backup, and takes it again for the teardown.  The ledger and the
registry have lock files of their own, the ledger's non-blocking, the registry's
blocking.  `start` allocates the slot (from which all addresses follow), makes keys,
renders configuration, hands files to the containers' subuids through the helper
container, and brings the containers up; `stop` undoes what would keep the next
`start` from doing so again; `destroy` removes all of it, the registry entry last.

Everything done on the daemon's side goes through one crossing: `dispatch.invoke` or
`probe` validates an op, expands it to a wire form and runs `sudo ... dispatch <op>`;
the Go dispatcher parses the wire, announces a nonce, executes the op in a shell that
echoes the exit code behind it, and the executor reads that code off the op's own
output.  `attach` uses the same dispatcher as a raw stream.  `doctor` asks the host
what `setup` asked it, with other code.

### 1.3 What is hard

* **Locks whose metadata is a second write** - `locks.py` decides whether an owner
  is alive from a file that is written after the flock was taken.
* **Truncate, then write** - ledger and registry rewrite their file in place;
  readers without the lock and a death see the gap.
* **Read before lock** - every command loads the registry and `sandbox.toml`, asks
  whether containers run and whether a backup runs, and takes `state.lock` only then.
* **Partial failure of a phase** - files change owner half-way through `start`, and
  what is left must not block the next command.
* **Failed probes** - `docker compose ps` that fails reads as "not running".
* **The handover of `destroy`** between its two locks.
* **Setup is its own recovery** - it is killed, interrupted or fails half-way on a host
  it has no record of, and the only cure is to run it again: what a probe does not
  look at, a second run does not repair.
* **In-band signalling** - the exit code of an op, and the five answers of preflight,
  are lines in a text that the op writes too.
* **Two parsers for one wire** - Python writes it, Python and Go read it.
* **Two opinions of one host** - what `setup` calls done and what `doctor` calls ready.
* **Arithmetic with carries** - five /24s per slot from 10.100.0.0 upwards.

`PROJECT.json` lists each hazard at its line, with the properties aimed at it.

### 1.4 What makes each component correct

* backup lock: one backup at a time; the metadata is the owner's; a query does not
  deny a live owner; no call waits.
* ledger: two instances never use one slot; an instance keeps its slot; ledger and
  use agree; the lowest free slot is granted until there is none.
* subnets: no /24 and no address is derived twice, none outside the range.
* registry: no update is lost, no name is taken over, no call waits for ever.
* lifecycle: commands that meet no fault succeed in any order; a stopped instance
  can be started; a failed `start` revokes; running containers keep slot and entry;
  `destroy` can always finish the job.
* workspaces: the table is never empty, every listed workspace has its tree, the
  mounts are those listed, a backup copies trees at rest.
* setup: what commits the host (the sudoers rule, the mode marker) comes last; a rule
  that failed its sweep is taken back; a second run cures a partial failure; an exit
  code of 0 means the host is ready.
* dispatcher and executor: success means that exactly the command asked for ran and
  exited with 0; what the validators accept the dispatcher does not refuse; the frame
  is written once, and never into a stream; the preflight gate opens for a healthy
  daemon and no other.
* doctor: no failure is hidden by the skips it causes; a host that setup is content
  with is green once init has been run, and a green host can run a sandbox.

## 2. Plan

Done in this version, most important first:

1. `BackupMutex`, `BackupLock` - the lock everything long-running relies on.
2. `LedgerFile`, `SlotPool`, `Ipam`, and `Subnets`, `SubnetWalk` - slots and addresses.
3. `NameTable`, `Registry`.
4. `Provision` - the four lifecycle commands of one operator, with faults.
5. `Workspaces` - all commands that change an instance, concurrently; it composes
   what 1 to 4 promise (it uses the locks, the ledger and the registry by the
   contracts the other modules check).
6. `Setup` - the setup ceremony in both modes, with faults and upgrades.
7. `RemoteCall`, `Dispatch` - the crossing, from the arguments of a call to its verdict;
   it uses the addresses of `Subnets`.
8. `Doctor` - the doctor's verdict on the hosts that `Setup` reaches (it extends
   `Setup`).
9. Proofs for 1 to 8: every safety property the passing runs check is a theorem, but for
   `NobodyWaits`, which is about ENABLED.  Four components (lock, ledger, registry,
   crossing) are proved to implement an abstract specification each, deaths included;
   of lock, registry, lifecycle and concurrent commands and setup it is proved that
   what has begun only moves towards its end.

Next:

10. An abstract specification of setup (a host is prepared level by level) and
    several operators sharing the marker file; `BinaryInstall`; the subuid arithmetic
    of `HostConfig`.

## 3. Modules and their correspondence to the code

Every definition that stands for code is listed with its lines in `PROJECT.json`.
Operators called `Bug...` are plausible defects of the definition below them; no
specification uses them, they exist to show that the properties would notice.

**`BackupLock`** (one instance's lock).  `holder` is the kernel's flock, `meta` the
file's content, `now` the clock.  One action per system call another process can
observe: `AcquireOpen`, `AcquireFlock`, `AcquireJudge` (is_lock_stale on contention),
`AcquireTakeover` (ftruncate), `AcquireRetry`, `AcquireClear`, `AcquireWrite`,
`ReleaseClear`, `ReleaseUnlock`, `QueryExists`, `QueryStale`, `QueryFlock`,
`QueryUnlock`; `Crash` releases the flock and leaves the metadata, as the kernel
does.  `BackupMutex` is the abstract specification: an owner comes and goes.

**`LedgerFile`** is a JSON file that is torn between truncation and write.
**`Ipam`** has the lock, the load, the change in memory, the truncation, the write
and the return of `allocate` and `release` as separate steps, and `peek_next_slot`
as one unlocked read.  `granted` is what callers rely on.  `SlotPool` is the
abstract specification: a booking is made or dropped at one instant between call and
return, which in the code is the truncation of the file, and the caller is told
afterwards.  It says what each death does: most leave a booking nobody was told of, or
none; one between truncation and write (`cut`) empties the pool under those who use its
slots.  A contended non-blocking lock raises and changes nothing, so it is no step.

**`Subnets`** states `derive_subnets` and `derive_static_ips` as arithmetic on
octets, with the constants of the code; **`SubnetWalk`** counts an odometer of
octets beside it through all 7987 slots.  Both are proved about; `Dispatch` uses
`Subnets` in a run.

**`Registry`** is as `Ipam`, with a blocking flock (a waiting state) and the check
under the lock that raises `InstanceNameInUseError`.  Entries carry the process that
registered them.  `get` is one unlocked read; `all` reads the file in the same way.
`NameTable` is the abstract specification: a table whose entries change at one instant,
with two traces of the file behind it, the gap in which a reader finds nothing and the
death in it that takes all entries.

**`Provision`** (one operator).  Files are `absent`, the developer's or a container
subuid's; files treated alike everywhere are one.  Each phase of `cli/main.py` is an
action, with a second action for the way it can fail; `Die` is a death or an
exception no handler names.  Ownership decides guards: the developer can neither
overwrite nor `setfacl` a file of the subuid.  `last` records how the
last command ended, `harm` the worst fault since a `destroy` last went through: the
properties distinguish an instance nothing happened to, one a failure was reported
on, and one a command died on.

**`Workspaces`** (several processes, one instance).  A command first looks up the
registry and loads the config (`Call`, which keeps the copy in `snap`), then goes
through its checks, locks and changes.  `Answers` is what `is_backup_lock_held` may
say: the truth, or also "no" when a backup's record in the lock file may be stale or
cleared (`LongBackups`: a backup past the grace, or one whose metadata a contender
truncated).  That these are the only wrong answers is `FalseOnlyByStaleRecord` of
`BackupLock`; the moment between a new owner's flock and its metadata needs no case
of its own, a "no" given then is the answer of just before.  `Warm` is what the container
probe may say.  `Flaky` names the docker calls that may fail.  `TruncateToml` and
`WriteToml` are the `open("w")` and the dump of `mutate_workspaces`; an empty
`sandbox.toml` is no config, and no command but the one rewriting it gets past its load.
The clean-up of `destroy` may fail in each of its parts and goes on: a tree may stay
(`DestroyTrees`), the slot may stay booked (`DestroyIpam`, which `kept` remembers) and the
entry may stay (`DestroyRegistry`).

**`Setup`** (one operator, one host, any number of setups one after another).  The
host is a function from facts to levels (`absent`, `stale`, `good`, and `torn` for a
manifest that is not JSON); a fact is what one step of a phase establishes.  For each
phase `L..Act` is the sequence of facts of its `_act`, `L..Probe` what its `_probe`
reads and returns, `Confirms` what its `_reverify` reads; `DependsOn`, `AppliesIn` and
`HasRollback` are the fields of the `Phase` objects.  `Order` is `order_phases`.  `PlanDone`, `DryRun`,
`PlanRefused`, `NothingToApply`, `Proceed`, `Decline` and `NotAllowed` are the gate;
`StepDone` and `StepFails` are one step of an act or of the host-root batch;
`SkipPhase`, `BlockPhase`, `ProbePhase`, `ActPhase`, the reverify and rollback
actions are `run_apply_pass` and `_apply_one`, `_failed`.  `Stop` is a kill anywhere, or a
Ctrl-C between phases (inside a phase the code takes it for a failure of that phase,
which is `StepFails` and its siblings).  `Upgrade` is a new wheel, which makes a rule,
a binary or an image stale.  `exit` is how the last setup ended, `able` whether it
met no fault and began on a host it can serve (`Servable`).  The hosts it may begin on
(`InitialHosts`) have any `MaxObstacles` of the `Obstacles` at once: a missing
prerequisite or range, a group with a gid out of range, the operator in it or not.

**`Dispatch`** (one call after another).  `Call` is `build_invocation` or `proxy_argv`
with all that can refuse it (`Refused`): the streaming guards, the validators (`Valid`,
over arguments named by what they are, `bad` standing for anything malformed) and the
registry.  `ComposeWire` and `FwdWire` expand the arguments; `ParseToken` is one turn
of the loop that both languages run over the wire, and `Complete` and `ProjectOf` what
they ask of the outcome: the flags of the op and none of another's.  `Announce` to
`GoExecFails` are the paths of `main.go`; `Boundary` and `Unlinked` are its confinement of paths, on paths
as sequences of components.  `out` is the pipe as a sequence of lines: frame, markers,
answers, and whatever the op prints (`Prints`: text with or without a newline, begin,
exit and marker lines with the nonce of an earlier crossing or of its own making).
`Return` recovers the exit code as the executor does (`RecoveredExit`); `PerOp` is
`parse_preflight_outcome` and `GateOpens` what `start` and `init` make of it.  `Dies`
ends any party, `TimesOut` the patience of a `probe`.  `cmd` and `inner`, what really
ran and how it ended, are known to the model only.  `RemoteCall` is the abstract
specification: a call is refused and runs nothing, or the command asked for runs at most
once and "ok" is told only of one that exited with 0; the wire, the frame and the two
parsers are not in it.

**`Doctor`** (extends `Setup`).  Doctor changes nothing, so it is a function:
`DoctorExit` of the recorded mode, the host and the operator's tree.  `CheckDependsOn`
and `CheckAppliesIn` are the registry, `RunChecks` is `run_checks` with its order, mode
gate and cascade, each check an operator on the facts of `Setup` or on the tree, `raise`
where it lets an exception out.  The tree is not setup's: `init` makes it, one directory
after the other (`TreeOrder`), and `start` opens its ancestors to the daemon's user.
`Sites` are the states it can be in when doctor is asked; the properties quantify over
all of them.

## 4. Runs

### 4.1 Properties that hold

| run | instance | shows |
|---|---|---|
| `backup_lock` | two backers, an asker, two deaths, a clock that outruns the grace | `MutualExclusion` and `MetadataIsTheInsiders` hold and the mutex is implemented (`ImplementsMutex`), although the stale branch truncates the file under a live holder; `FalseOnlyByStaleRecord`: a query denies a running backup only by a stale or cleared record; `CallsEnd` |
| `ipam` | two processes, three instances, two slots, a death anywhere | `LedgerInjective` and the refinement `ImplementsPool` whoever dies where; `GrantedDistinctUntilCut` until a death cuts a rewrite short; until then `PeekFindsAllocated` for a peek outside a rewrite |
| `registry` | two processes, two names, a death anywhere | `ImplementsTable`: register, remove and get are atomic on one table of names whoever dies where, but for the gap of a rewrite; `NoLostUpdate` until a death; `CallsEnd`: no caller waits for ever for the blocking lock |
| `provision` | any sequence of the four commands, failures or deaths in up to two phases | `UnharmedCommandsSucceed`, `RestIsClean`, `HostKeysAgree`, `FailedStartRevokes`, `RunningHoldsSlot`, `UnloadableIsTornDown` |
| `workspaces` | two processes, all eight commands, a container probe that may fail, a death anywhere | `LocksMatchControl` through destroy's handover, `AtLeastOneWorkspace`, `RunningIsRegistered`, `BackupSeesStoppedInstance`; `NobodyWaits`: no command under way is ever without a step, whatever the others hold |
| `workspaces_serial` | one process, all commands, one of them cut short, a failing compose down, a clean-up of destroy that fails anywhere | `ListedTreesExist`, `MountsAgree`; `DestroyFreesSlot`: an instance that is not registered has a slot only if the release of a destroy raised |
| `dispatch` | two crossings, all twelve ops with good and bad arguments, both modes, two lines of noise (one in preflight), a symbolic link anywhere, deaths, timeouts | `OkMeansDone`: success is never read off a forged, stale or missing trailer, and what ran is what was asked for; `UnharmedCallSucceeds`: nothing valid is refused and nothing printed on lines of its own spoils a success; `TrailerOnce`; `StreamIsRaw`; `StreamReachesItsCore` up to the last slot; `GateMeansHealthy`, `HealthyGateOpens`; `ImplementsCall`: all of it is an abstract remote call |
| `setup` (module `Doctor`) | hosts with up to two obstacles, both modes, the extras, `--update-runsc`, one fault (failing step, kill, Ctrl-C) and a rollback that may fail, a wheel upgrade | `CommitsComeLast`: the rule is installed only when all before L3 is in place, the separate-user mode recorded only when all is, the operator-rootless mode only when the batch is complete; `FailedSweepRevokes`; `UnharmedSetupSucceeds`: re-running cures a partial failure, except where `Servable` says otherwise; `SuccessIsReal`: an exit code of 0 leaves all that is probed in place, and the effects nobody probes too as long as nothing has failed; `DoctorAgrees`: where setup has nothing to do, the doctor's verdict is that of the operator's tree alone; `GreenMeansUsable`: it is green only where a sandbox can be run, whatever the tree |

### 4.2 Where the code and its documentation disagree

Each of these runs checks what a specification document or a page of the docs says,
and TLC shows a behaviour of the code that breaks it.  The quoted lines are in
`PROJECT.json` under `findings`.

| run | property | what happens |
|---|---|---|
| `ipam_torn_save` | `GrantedDistinct` | a death between truncation and write empties the ledger; a slot in use is granted again |
| `provision_restart` | `SecretsApplied` | after stop, start brings core up without `authorized_keys`: the pair is skipped by the half that stop leaves |
| `workspaces_lost` | `ListedTreesExist` | two overlapping workspace commands: the second writes back the table it loaded before it had the lock |
| `setup_update_runsc` | `UpdateRefreshesTrust` | `--update-runsc` runs L6a alone; the fapolicyd trust file, whose phase is documented to be included, keeps the old sha |

A fifth disagreement is one of lock order.  `docs/locking.md:30` says "No code path may
acquire `state.lock` while holding any inner lock", and
`openspec/specs/instance-registry/spec.md:104` that none does and that the rule is what
prevents AB/BA deadlocks.  `destroy` does it: it holds `backup.lock` from
`cli/main.py:3645`, where it took it under `state.lock`, to the end, and acquires
`state.lock` again at `cli/main.py:3683` (`DestroyLock`).  Both orders occur, so by the
documented argument two commands on one instance could wait for each other.
`NobodyWaits` says that they do not, and its mutant why: both acquisitions are
`LOCK_NB`, and with a blocking one in `DestroyLock` a command does wait.  What the
broken order costs is a `destroy` that fails there, after its containers are down and
its backup is made, because another command took `state.lock` in the meantime.

The properties of 4.1 also show their edges.  Where a property is qualified, the
qualification is what the code needs, not what its documentation states: a query may
deny a live backup that is past the grace or whose metadata a contender truncated;
`peek_next_slot` and `get` read files another call may have truncated; a start that
failed behind helper-cp, or a destroy that aborted at its backup, makes the next
start fail until a destroy goes through; a half-done rmtree leaves a registered
instance whose config destroy cannot load, though it is torn down by then
(`UnloadableIsTornDown`); an exception the handler of start does not name skips the
revocation; `MountsAgree` and `DestroyFreesSlot` hold only when commands follow each
other, since the stopped check and the registry lookup come before the lock;
`BackupSeesStoppedInstance` speaks of destroy's backup only, since `remove --backup`
copies without `state.lock`; `ListedTreesExist` excludes deaths, since a rename cut
between tree and table is not repeatable; a death inside the rewrite of
`sandbox.toml` leaves an empty file, on which every later command fails
(`AtLeastOneWorkspace` says that nothing else empties it); and a workspace command asks
for a running backup before it takes `state.lock`, though
`openspec/specs/cli-workspace/spec.md:466` wants it asked afterwards, so that one which
asked in time may change a tree while `destroy` copies it.

A `destroy` whose release of the slot raises (a contended `ipam.json.lock`, an unreadable
ledger) warns, removes the registry entry all the same, as
`openspec/specs/cli-destroy/spec.md:149` wants it, and then prints "IPAM slot freed for
reuse" (`cli/main.py:3752`).  The slot stays booked under a name that no command finds
any more, except a new instance of that name, which takes it over: `DestroyFreesSlot` excludes it by `kept`.

`Setup` shows edges of its own, which `Servable` excludes from
`UnharmedSetupSucceeds`, or which no property states:

* a death inside `_write_manifest` leaves a manifest on which `read_manifest` raises
  (its docstring: "`None` if absent or unreadable JSON"), and every later setup is
  refused;
* a wheel with another runsc pin makes plain setup fail at L6a, since the reverify of
  the drift that was left in place is false, while `docs/setup.md` only speaks of a
  note in the summary;
* an effect whose file is written but which failed (sysctl, daemon-reload, the
  immutable bit, the reload of an extra) is not probed, so the next run reports
  "already correct" (`Unprobed`);
* without a subgid range, operator-rootless setup ends in an exception before it can
  propose the batch item that adds one;
* the fapolicyd extra is refused on a fresh host, as its probe reads binaries that the
  same setup would install, and in operator-rootless the extras cannot write under
  `/etc`;
* for the same reason operator-rootless setup fails on a host with the fapolicyd
  drop-in whose runsc has to be replaced: the batch places the new binary, which makes
  the trust file stale, and the extra, selected because its drop-in is there, cannot
  render it again (this takes two faults and was met in the attempt to prove
  `UnharmedSetupSucceeds`);
* "Nothing to apply" is never reached in separate-user, as L3a and L8 always report
  MISSING, although `docs/setup-guide.md` gives it as the result on a converged host;
* `docs/setup-guide.md` says Ctrl-C at any point applies no mutations; it ends setup
  with 130 only between phases, some of which have been applied by then;
* `--update-runsc` ignores `--dry-run`.

`Dispatch`: an op whose last line has no newline pushes the trailer off the beginning
of its line, and the call fails with "exit sentinel not found" although the op
succeeded (`UnharmedCallSucceeds` speaks of complete lines, `OkMeansDone` of all); a
warning on stderr during the runtimes query makes its JSON unreadable and the gate
refuses a healthy daemon (`HealthyGateOpens` excludes it); a `probe` that timed out
leaves the op running.

`Doctor`: it exits with 1 on a host that setup has just called ready, until the first
`init`, because `check_acl_support`, `check_state_dir_writable`,
`check_per_user_tree_exists` and `check_ancestor_traverse` want directories that only
`init` makes; in separate-user it also fails while the tree is closed to the daemon's user
and the daemon runs any project, another operator's included (`TreeReady` is exactly
this).  In operator-rootless it fails for a missing `machinectl`, for kernel features that
setup does not ask for in that mode, and for a bridge group out of range of which the
operator is a member already, with which setup is content
(`core/setup/host_batch.py:507` against `core/doctor/checks/workspace_bridge.py:92`);
`DoctorAgrees` excludes these three; a torn
manifest, or a bridge group without a subgid range, ends it with an exception; it does
not look at the helper image, the loaded sysctl, the delegation or the lingering.

### 4.3 Bounds, and why they are enough

* `BackupLock`: the stale branch needs a holder, a contender and a clock past the
  grace; `Grace = 1`, `MaxTime = 3` gives metadata of every age class (fresh, at the
  grace, beyond).  Two deaths let a takeover of a dead owner be cut short as well.
* `Ipam`: two slots for three instances, so that exhaustion, a gap and its reuse all
  occur.  `Registry`: two names, two processes, overwriting and not.  One death is
  enough to tear a file; the properties that survive it are stated for that case.
* `Provision`: commands repeat without limit; `MaxFaults = 2`, since the
  clean-up after a failed start can itself fail.  `FailedStartRevokes`,
  `RunningHoldsSlot` and `UnloadableIsTornDown` are claims about a single fault and
  say so; the others hold for both, `harm` being reset by a destroy that goes through.
* `Workspaces`: commands repeat without limit.  Two processes are enough for a check
  that goes stale and for every pair of lock orders; the proofs cover any number.
  `LongBackups` is FALSE in the runs; the theorems that do not assume otherwise hold
  for both values.  Processes are symmetric.
* `Setup`: setups repeat without limit.  `MaxObstacles = 2` in the `setup` run: enough
  for a group out of range with the operator in it, and for every pair of a missing
  prerequisite and a missing range; 1 in `setup_update_runsc`, which needs none.  The
  theorems hold for any number.  `MaxFaults = 1`: the properties are about what one interrupted
  setup leaves for the next; a rollback that fails after the fault is not counted, so
  that double failure is covered.  `MaxUpgrades = 1` lets every probe meet content
  that was right once.  Facts that no step or probe tells apart are one fact.
* `Dispatch`: a second crossing is enough for stale nonces; two lines of noise
  put one forged line before or behind another, or an unfinished one before the
  trailer.  One instance is called `instances`, like the directory above it, on which
  a confinement by names could stumble.  `FwdSlots` are the first slot, one whose
  networks straddle a carry, and the last.  Nonces are numbers that the op cannot
  guess: 64 random bits in the code.
* `Doctor` adds no state; its `Sites` are all cuts of `ensure_per_user_state`, with
  ancestors open or closed and with or without a running project.
* Deadlock is checked except in `Workspaces`, where nothing can be run on a destroyed
  instance, and in `Dispatch`, which ends with its last crossing.
* The type invariants of the detailed modules are proved.

### 4.4 Fairness

`BackupLock!FairSpec`: weak fairness of a process's own steps inside a call - no
step of `locks.py` waits, so the operating system's scheduler is all it assumes.
Entering the lock, the length of a backup and deaths are left free.
`Registry!FairSpec`: weak fairness of the steps under the lock, strong fairness of
the blocking `flock`, which the kernel hands to a waiter when it becomes free.
Nothing else assumes fairness.

## 5. Proofs

All theorems are checked by TLAPS for every value of the constants that satisfies
the named assumption of the module (`LockAssumption`, `IpamAssumption`,
`RegistryAssumption`, `ProvisionAssumption`, `WorkspacesAssumption`,
`DispatchAssumption`, `SetupAssumption`): any processes, names, instances and slots, any
bound on faults, deaths, calls, noise and upgrades.  Every inductive invariant was checked by TLC on the runs'
instances before it was proved.

**`BackupLockProofs`.**  `Inv` is `TypeOK`, `FlockMatchesControl` and
`MetadataIsTheInsiders`.  Mutual exclusion alone is not inductive: it follows because
the flock is with exactly the process whose control is between flock and unlock.
Staleness never enters that argument, which is why wrong judgements of age cannot
break it.  `Refinement`: each step maps to an entry, an exit or a stutter of
`BackupMutex`.  `FalseNeedsStaleRecord` is an action property; it needs `Witness`: a
query that has seen one and the same process inside since it began (`seen`) has that
process inside now, and the lock file exists while anyone is in a call.
`CallsAreShort`: `CallsLeft` decreases with every step of a process in a call, so the
takeover of a stale lock is tried once.

**`IpamProofs`.**  `NoDuplicateInLedger` (deaths included) rests on the lock and on
`LowestFree` returning only unused slots; the invariant covers the copies in memory
as well as the file.  `Copies` says what the copy of the lock's holder has to do with
the file at each control point; no death disturbs it, and with it every step maps to a
step of `SlotPool` (`Refinement`, in which `LowestFree`, a CHOOSE, has to be shown to be
the one member of the pool's `Lowest`).  `GrantsBooked` ties the slots in use to the
booked ones.  It is inductive until a death cuts a rewrite short: a death anywhere else
can only leave a slot booked that nobody uses.  From it follow `SlotsInUseDistinct` and,
with the arithmetic of `Subnets`, `NetworksInUseDisjoint`, the "non-overlapping /24
subnet quintuples" of the networking document for whatever is in use together.
`PeekFinds` needs `TornInTheGap` in addition.  Before the first death the ledger is
exactly what has been granted (`LedgerExact`).  `ipam_torn_save` is the counterexample
once a rewrite has been cut short.

**`RegistryProofs`.**  `Inv` (types, and the flock is with the process between flock and
unlock) is inductive on its own.  `Exact` says what the file, or the copy that is about
to replace it, has to do with `known` at each control point of the lock's holder; it is
inductive on top of `Inv` until a process dies in a call, and gives `NothingLost` as an
invariant, `NobodyShadowed` and `GetFinds` as action properties (stated in `Registry`,
not in a run: on an instance they follow from `ImplementsTable`).  `Refinement` maps the
table to the file, or to the copy of the process that has truncated it, and the change
to the truncation; `Copies`, its invariant, holds through every death.
`LockIsFreedSoon`: no call goes back to the blocking flock, and the lock is free after
at most four steps of its holder.

**`SubnetsProofs`.**  `SubnetsInRange`, `SubnetsDisjoint` and `AddressesDisjoint` are
integer arithmetic; disjointness goes through the inverse (slot and network can be
computed from the octets).  `WalkMatches` is an induction over the walk with the
carry as its lemma.

**`WorkspacesProofs`.**  `IInv` adds to `TypeOK` and `LocksMatchControl`:
`CommandsInPlace` (which command can be at which control point),
`SnapshotsSuffice` (what a process read before the lock leaves a table that is not
empty), `AtLeastOneWorkspace`, and `GivenUpInOrder` (destroy gives up directory,
slot and entry in this order).  `AtLeastOneWorkspace` is remarkable for holding
although the table is written from a stale copy: the copy itself passed the
last-workspace rule.  `NoOrphanContainers` assumes that `compose down` works
(`"down" \notin Flaky`).  `DestroyBacksUpAtRest` assumes in addition that backups keep a fresh
record in the lock file (`~LongBackups`); its invariant `BackupInv` follows
backup.lock from before the handover to the end of the copy.

`CommandsAreShort`: a command under way never goes back, whatever the others do, and is
over after at most fifteen steps of its own (`StepsLeft`).  Together with `NobodyWaits`
this is why no command hangs.

The properties of `workspaces_serial` are false when commands overlap
(`workspaces_lost`), so their theorems have the form
`Spec /\ []OneAtATime => []P`: a second command begins only when the first has ended,
been refused or died, which is the order `docs/locking.md` promises.
`SerialInv` relates the copy in `snap`, the table, the trees, the mounts and the slot at
each control point of the one command; its part `SlotFollows` says that a slot without an
entry, or one that destroy has passed by, is one whose release raised (`kept`).  `SerialMountsAgree` assumes that the probe of
the containers answers (`"probe" \notin Flaky`); without it the code skips a recreate.

**`ProvisionProofs`.**  Each property speaks of a command that has ended, and holds
because of what its phases had done, so none is inductive.  `IInv` says what is known in
each phase: `InPhase` always, `CleanDestroy` in a destroy that has met no fault,
`Harmless` while nothing has gone wrong since a destroy last went through, `OneFault`
while there has been at most one fault, and `FaultsRecorded` ties `faults`, `harm` and
`last.fault` together.  A clean destroy resets `harm`, so `Harmless` has to be
re-established from nothing but the phases of destroy: that is what `CleanDestroy` is
for.  The building blocks of the actions (begin, go on, fail, end, die) have a lemma
each; the actions then differ only in what they do to the files.  `CommandsGoForward`:
`PhasesLeft` decreases with every step, so that no failure and no clean-up makes a command
repeat a phase.

**`DispatchProofs`.**  Three parts.

*The operators.*  What the dispatcher parses is what the orchestrator expanded
(`ComposeRoundTrip`, `FwdRoundTrip`): the loop over the tokens is a recursive function,
and that it has a value for any number of tokens is an induction.  The library's
induction theorems take an operator as a parameter and are out of reach, but the same
can be said with the set of the numbers that have the property, and is proved here from
the well-foundedness of `<` (`Induction`).  From the round trip, `NotRejected` (the Go side
refuses nothing the validators let through), `CommandIsAsked`, and `RejectedForLink`; from
the arithmetic of `Subnets`, `CoreAddress`, for each of the 7987 slots.  `PerOp` is
unfolded the same way: `PerOpBacked` (what it reports was printed with this nonce) and
`PlaceIsFound` (markers that come once and in order are found).

*The crossing.*  `Inv` is `Crossing` (where a call is), `Frame` (the first line is the
dispatcher's; a trailer with this nonce is the last line and says what happened; a
stream has none; a pipe nobody cut short is complete), `Bundle` (each marker of
preflight comes once, in order, with the exit code of its query, the daemon's answer
before it) and `Verdict` (the properties, for a call that was answered).  The frame is
what makes `SuccessIsReal` independent of what the op prints: `FrameFacts` shows that a
code that is recovered at all is that of the dispatcher's own trailer.  An untrusted line
never carries this crossing's nonce; that the nonce cannot be guessed is the assumption
of the model (`Noise`), not a result.  `DispatchAssumption` asks that no instance is
called `--check`, `--volumes` or malformed, which `_INSTANCE_NAME_REGEX` excludes.

*The refinement.*  `Refinement`: every step of the crossing is a step of `RemoteCall` or
a stutter.  It rests on `RanIsAsked`, which follows from `Inv` and the round trip of the
operators: a command that was executed is the one asked for while the call is still under
way, not only once it has been answered with success.

**`SetupProofs`** (`Setup` and `Doctor`).  Four parts.

*The operators.*  `Keep` and `Order` are loops written as recursive functions; that they
have values is the induction of `DispatchProofs` again.  `KeepFacts` says what is kept and
that the order is that of the original; `OrderIsTopological` that `order_phases` returns
the selected phases, each once and after those it depends on, for every choice of extras
(`SomeoneReady`: the dependencies have no cycle, so the loop never gets stuck).  The acts,
the batch and the probes are tables; `ActsAre`, `PhaseOfFact`, `ProbeFacts` and
`EstablishFacts` state what the proofs need of them.

*The ceremony.*  `IInv` consists of `Lists` (what is left and what is done are in order
of dependency, and no phase went through after a failed one it depends on), `Todos` (the
steps left are of the act or batch in hand, in order, and with a file its effect),
`PhasesSound` (what a phase that went through probes for is still there, the rule unless
L3a took it back), `BatchSound` and `GateClear` (what the batch and the gate have made
sure of), `EffectsFollow` (before the first fault an effect is missing only between the
step that writes its file and its own), `GroupFirst` (the operator is a member only of a group that
exists, and becomes one through setup only of a group that is in range), `StillAble` (a
setup that was able to succeed has nothing failed, meets no refusal and has all of the act in hand done or left to do), and the
properties `FailedSweepRevokes` and `UnharmedSetupSucceeds`.  None of the properties is
inductive: the first because the rule may be installed again only by a phase that is over
(`RuleOnce`), the second because it is about the end of a setup and `Servable` about its
beginning; `StillAble` carries one to the other.  `CommitsLast` and `SuccessReal` are
action properties; `ChainDone` walks the dependencies from L3 back to L0.

*The end.*  `SetupGoesForward`: every step of a setup under way leaves less to do in the
lexicographic order of stages, phases left, parts of the phase in hand (probe, act,
rollback) and steps left.  The order is well-founded, so no setup goes on for ever; that
it does not get stuck on the way is the deadlock check of the run.

*Doctor.*  The results of `run_checks` refer to each other, so that they exist at all has
to be shown: `RegistryIsAcyclic` gives every check a rank, and six rounds settle them
(`RunChecksIs`).  `TreeDecides`: where every other
check neither fails nor raises, the exit code is 0 exactly if `TreeReady`.
`ContentIsGreen`: where setup is content they do neither; it needs of the reachable
states only `GroupFirst`.  `GreenIsUsable` needs no invariant: it holds on
every host and every tree.

Only model-checked: liveness (`CallsEnd`) and `NobodyWaits` (an ENABLED formula),
which this prover does not reach.  The safety half of both is proved: the measures
above, which every step decreases.  The four properties of the runs that expect a
violation are false.

## 6. Not modelled

* The compilation of the dispatcher, its journal record, the shell text of the
  helpers; the executor's `sentinel` mode, by which L5, L6 and L7 of setup run their own commands
  as the daemon's user (`l5_dockerd.py:111` and `200`, `l6_daemon_json.py:211` to `265`,
  `l7_helper_image.py:65` and `109`): `Setup` has these commands as steps that succeed or
  fail, and does not follow how their exit code is recovered.
* The doctor's checks of the modes of the operator's tree, of legacy files, instances and
  backups, image pins and capacity: they look at nothing setup provides and block nothing
  that is modelled.
* The subuid arithmetic and the migration of the per-user tree in host configuration;
  the download and digest check of binary install.
* Several operators at once in `Setup`, and the lock `docs/setup.md` says setups
  serialize on: the code takes none.
* `attach` (but for its stream), `status`, dry runs: they change no state.
* Several instances at once in `Workspaces`: instances share only `state.lock`, the
  ledger and the registry, and the last two have modules of their own.
* The legacy path-keyed registry file, corrupt JSON that is not a torn write.
* Rendered text, rsync options, container images, wording of messages.
* The kernel, docker and the helper container are external: they are modelled from
  how the code calls them (flock goes with its descriptor, a file's owner decides who
  may write it, compose up and down succeed or report failure).
