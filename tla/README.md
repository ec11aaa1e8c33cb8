# Verification of BC-250 Control Center

TLA+ models of BC-250 Control Center, the TLC runs that check small instances
of them, and proofs that TLAPS checks for every value of the constants. Paths
below are relative to the repository root (`src/`); `FanControl` and the like
are modules of this directory; `PROJECT.json` has the map from definitions to
source lines, the mutants, the hazards and the findings with their line numbers.

## 1. The system

A control centre for a board (AMD BC-250) made of unprivileged frontends and
root helpers started through `pkexec`, which share files, a lock and the
hardware registers. Nothing like a broker sits between them: every guarantee is
an agreement about files.

| Component | State it keeps | Operations | What makes it correct |
|---|---|---|---|
| Fan helper, root session (`privileged/helpers/bc250-fan-pwm-helper`, `main`) | none of its own; writes `/var/lib` policy, hand-over marker and replay file, `/run` override, systemd unit | `PWM`, `AUTO`, `POLICY`, `POLICY-CLEAR`, `CONTROL ENABLE/DISABLE`, `EXTERNAL ON/OFF` | a channel is never half switched; a takeover is recorded; a hand-over ends everything |
| Fan helper, control loop (`FanController`, `run_control_loop`) | followed policy, driven channel, last duty / source / temperature, three timers | `step` every 2 s: marker, policy, plan, override, write or verify | the fan ends up at the policy, emergencies win, takeovers are respected, a left channel is released |
| Fan helper, boot replay (`restore_boot_state`) | none | replays the recorded duties once, after boot | only when nobody else owns the fan |
| Quick Access helper (`bc250-quick-access-helper`) | none | `fan`, `fan-bank`, `fan-resume`; CPU, compute-unit, governor, CMOS, VRAM actions | rollback of a bank, its takeover recorded and ended without touching the desktop's |
| Per-user daemon (`infrastructure/daemon.py`, `domain/fan/persistence.py`) | memory of its last apply | decides a duty from the same policy and sends `PWM` through the helper | yields to the service, chooses the same duty |
| Web remote access (`frontends/web/server.py`, `ssh.py`, `infrastructure/web_devices.py`, `web_control.py`) | access key, browser registry (files); sessions, terminals, the running action (memory) | sign in and out, `_sync_key`, `action`, SSH terminals, revoke, renew, restart after an update | one hardware action at a time; a revoked browser is out, a trusted one stays; nothing waits for ever |
| OptiScaler Client undo (`infrastructure/opticlient_undo.py`) | backup folders with a manifest, the game's files, the client's record | `remove_opticlient_installation`, `_undo_moves`, `restore_opticlient_backup` | each is an exchange: all or nothing, and no copy is ever lost |
| Self update (`infrastructure/self_update.py`, `update_dialog.py`) | one cached package and its `.part` | download, verify, install | only the published package is installed; SteamOS protection comes back |
| Recovery snapshots (`infrastructure/persistence/recovery_engine.py`) | snapshot folders | capture, restore | a snapshot is consistent and restorable |
| CPU SMU, core unlock, GDDR6, governor, SteamOS helpers (`privileged/helpers`) | hardware and configuration files | one operation each | read back what was written |
| HelixSR, components (`infrastructure`) | game files | fetch, verify, replace | replaced whole or not at all |
| Repositories, telemetry (`infrastructure/*_repository.py`) | none | read sysfs and procfs | parsing |
| Frontends (`frontends`, `integrations/decky`) | views and settings | issue the requests above | - |

### How they interact

* **Registers.** Sessions, loop, replay and Quick Access write `pwmN_enable` and
  `pwmN` of the same chip. A write is mode, read-back, duty, read-back, all
  under one `flock` (`fan_operation_lock`), waited for at most 3 s.
* **Files.** The loop learns of a policy, a takeover or a hand-over by reading
  a file at the top of a cycle. The writers replace whole files (`os.replace`);
  the checks before the lock and the record after it are *not* under the lock.
* **Service manager.** `ENABLE` and `DISABLE` wait for systemd, which waits
  for the loop, which may be waiting for the lock.
* **Web.** Worker threads share the tables of `Web` under `web.lock` and run
  actions under `job_lock`; the desktop renews the key and revokes browsers
  through files the threads re-read; a watcher thread restarts the process.
* **The game folder.** Control Center and OptiScaler Client take turns by the
  client's lock; the game's updater takes no lock at all.
* **Update cache.** The dialog and the terminal interface share one folder, and
  with every other tool one package manager.
* **Daemon.** Reads the same files, decides, and sends its write through a
  root session of its own, some time later.

### What is hard here

Check-then-act on files around a lock that covers only the registers; two
writers of the override file; operations of several register writes that stop
half-way (kill, reboot, I/O error, a register that refuses); a loop with three
timers whose memory is what the next decision is smoothed against; waiting in a
circle; the same arithmetic written twice; a journal of file moves that has to
be readable after a crash between any two of them; terminals and sessions that
end while an action is on its way to them; two updaters deleting each other's
files. The list, each entry at its line, is
`hazards` of `PROJECT.json`.

## 2. The modules

### FanControl: who drives the fan

Every process of the fan (root sessions `Sessions`, of which `Daemons` belong
to a per-user daemon; Quick Access processes `Deckies`; the loop `Svc`; the
replay `Boot`) has a label `pc[p]` and the locals the code keeps across a step:
`req` (its request), `seen` (what it read of the override, or the channels of a
bank still to do) and `wasAuto`. An action is one step another process can
observe: one file read or replaced, the lock taken, one register written.

| Variable | Code |
|---|---|
| `policy`, `external`, `applied` | `POLICY_FILE`, `EXTERNAL_FILE`, `fan-last-applied.json` (survive a reboot) |
| `override` | `OVERRIDE_FILE` of `/run`: channels and one `source` for all of them |
| `enabled`, `stopReq` | the systemd unit; SIGTERM delivered to the loop |
| `hw` | per channel: `Firmware`, a duty, or `Held`, manual mode at a duty nobody asked for |
| `lock` | holder of the flock |
| `hot` | some reading is critical |
| `svcPolicy`, `svcChannel`, `svcLast` | `FanController.policy`, `.channel`, last percent |
| `replay` | what the replay still has to do |
| `by`, `claim`, `untouched`, `torn` | history: who last wrote a channel, whose takeover stands, nobody asked for anything since boot, the channels a failure left half switched |

Actions follow the functions: `Acquire`/`LockTimeout` (the lock), `ModeManual`,
`WriteDuty`, `Remember`, `ReadBackFails`, `WriteErrors` (`apply_pwm`),
`WriteAuto`, `Forget`, `AutoRefused` (`restore_automatic`), `SessionStart` …
`MarkWrite` (`main` and its commands), `SvcTop` … `SvcVerify`
(`FanController.step`), `BankMode`, `BankDuty`, `BankFails`, `Note`, `Resume`
(Quick Access), `BootCheck`, `BootReplay`, and the world: `HeatChanges`,
`Drift`, `Kill`, `Reboot`.

A refused write is rolled back to automatic mode, by `ReadBackFails` for one
channel and by `BankFails` for a bank; with the fault `stuck` that roll back
fails as well, which both helpers only report (fan helper 269-273, Quick Access
helper 3781-3785). A write that raises is not rolled back (`WriteErrors`). `torn`
remembers the channels left so, until the next write that arrives.

Abstractions: several reads of one check are one action (`BootCheck`, `Mark`,
`Note`); `NoteWrite` records the channels of the request, where line 4473 of the
Quick Access helper lists those of the chip again; systemctl obeys: the errors
and timeouts of `ENABLE`, `DISABLE` and `EXTERNAL` (fan helper 986, 994,
1018-1019) acknowledge nothing; timers are choices (`SvcWait`, `SvcWrite`, `SvcVerify`), since FanLoop
keeps the clock; a refused duty leaves the old duty in the register; drift
strikes only while nobody holds the lock; the unit file exists exactly when the
unit is enabled; the OpenRC path has the same effects and is not separate; the
temperature matters only while someone reads a policy; a policy is a channel and
a duty. `MaxOps` bounds the requests and `MaxFaults` the faults of a behaviour
(drift is unbounded).

### FanPolicy, FanLoop, FanParity: which duty, and when

`FanPolicy` is the arithmetic, without state: critical readings, the curve,
hysteresis, deadband, bounded step down, the wait for a missing sensor, once as
`FanController.plan` (`HelperPlan`) and once as `plan_persistent_fan`
(`DaemonPlan`). `FanLoop` extends it with the loop's clock: one cycle of `step`
is one action per outcome (`StepIdle`, `StepWaitDriver`, `StepHold`,
`StepPaused`, `StepWrite`, `StepWait`, `StepTrust`, `StepVerify`), and between
two cycles readings, policies, takeovers, drift and driver reloads happen.
`FanParity` runs both planners side by side.

Abstractions: one channel; a cycle is atomic (FanControl interleaves it); whole
degrees and percents (the register value is injective in the percent); ages count
2 s cycles and stop at the limit they are compared with; `late` and `blind` are
history. The inputs are what the code lets in: policies as `validate_policy`
accepts them and readings as `read_temperatures` yields them (`InputAssumption`).
FanParity feeds readings at least five seconds apart, with every write
taken and a constant policy, so saving a policy — where the two do forget
different things — is outside it.

### OptiSwap, OptiUndo: taking OptiScaler out of a game

`OptiSwap` is what the docstring of `opticlient_undo.py` promises: `TakeOut`
and `PutBack` are atomic exchanges between the game, the client's record and a
backup; after a crash, or a failure while a failure is being undone, the
exchange may stop half-way (`Disturb`), but every content that existed for a
path still exists somewhere. `OptiUndo` is the code: each rename, copy, unlink
and manifest write is an action, each may raise (`RemoveFault`, `UndoFault`,
`PutFault`, `RollFault`, …) and a crash may follow any of them.

| Variable | Code |
|---|---|
| `game`, `saved[b]` | the game folder; `<backup>/files` |
| `rec`, `brec[b]` | the client's record in its place; in `<backup>/client-record` |
| `man[b]` | `<backup>/manifest.json`: state, and what each file was and whether it moved |
| `op` | the operation holding the client's lock: its label, what it still has to do, `moved`/`done`, what stayed |
| `cleanup` | a finished Put back has yet to unlink its manifest (after the lock) |
| `cross` | the game is on another drive: a move is a copy and an unlink |
| `before`, `hurt` | history: the game when the removal began; an operation was cut short |

The refinement `AtomicExchange` maps an operation in progress to the state
before it: the abstract exchange happens when the record moves. Once `hurt`, the
abstract state is what lies on the disk.

Abstractions: a rename is atomic and survives a power cut in order (the code
syncs copies, not directories); originals next to the client's record stay
intact; free space, a running game, the HelixSR route and folder clean-up are
refusals or no-ops; one game, since the lock serialises all of them.
`ClientWaits` says that the client neither installs nor restores while a removal
of this game is cut short; without it see section 5. Edits of the game happen
between operations and, during a removal, on files it has not reached: the
updater of a game takes no lock, so a write to a path in the instant it is moved
is overwritten, which no discipline of this code could prevent.

### WebAccess: browsers, terminals and one hardware action

A browser is its cookie's token; `device` is its entry of the registry with the
key it signed in with. Actions are `Login`, `Poll` (any reading request),
`Logout`, `Admit` (`route` lets an action or a sign-in to SSH in), `TakeLock` …
`Publish` (`Handler.action`, which holds `job_lock` throughout), `SshStart`
(`ssh_start`, a second section of `web.lock` in which nothing is checked again),
`SshClose`, the threads of a terminal (`ReaderEnds`, `JobDone`),
`SyncKey`/`SyncEnd`/`SyncFails` (`_sync_key`), the desktop (`Renew`, `Revoke`), and
`Install`, `RollBack`, `Look`, `Update`, `Restart`. Between `Admit` and `TakeLock`
or `SshStart` the browser may sign out, be revoked or meet a renewed key.

Abstractions: a section under `web.lock` is one step, except `_sync_key`, whose
tables an action changes without the lock; the session check and the check of
the control permission in `route` are one step, and so are a sign-out and the
check before it; `ssh_close` is open to any browser that has signed in, since it
may have been let in long before; whether the version on disk changed is asked of
two looks (`watch`), so one that comes and goes between them is nothing new; expiry is a `Revoke`; waiting
(five seconds for a terminal or a monitor, fifteen idle minutes) is a choice;
`sessions` keeps the tokens that may own terminals; owner and backend are dropped
when the action ends, after which no handler looks at them. Ending a process
ends its terminals and what they run. Not here: monitoring-only browsers, QR
tokens, the ledger of failed attempts, the limit of the registry, a second
server on another port.

### SelfUpdate: two updaters, one cache

Every client runs `download_asset` (`Begin` … `Replace`) and then the command of
`install_command`: `Verify` and either the SteamOS script (`Protect` … `Enable`) or
the rpm-ostree loop (`Wait`, `Ostree`). Files have an identity apart from their
names, as on disk: `open("wb")` of an existing `.part` empties the file another
client is writing, and an unlinked one is still written to. `SystemUpdate` is the
distribution's own transaction. Where rpm-ostree refuses
without a password window, or the mirrors answer 404, the package is opened once
more, by sudo or after a refresh (`OstreeAgain`). Abstractions: one release, a package of
`NumChunks` chunks, transport that may end early but does not corrupt; pacman
elsewhere, dnf and apt are the SteamOS path without the switch.

### Configurations

`MCFanControl`, `MCFanLoop` and `MCFanParity` name the channels, duties, curves
and requests the `.cfg` files choose from; `MCOptiUndo`, `MCWebAccess` and
`MCSelfUpdate` the backups, sign-ins and clients. `Bug…` operators are plausible
mistakes in the code: each property is shown to fail when one of them replaces
the definition it varies.

## 3. What is checked

| Run | Instance | Shows |
|---|---|---|
| `fan_core` | 2 channels, 1 session, 1 Quick Access, 2 requests, all policy and service commands, banks; no faults | `TypeOK`; `ReplayMirrorsHelper`: what the next boot replays is what the helper itself last did; `NothingLeftDriven`: the loop leaves no channel behind |
| `fan_crash` | 2 channels, hand-overs, 1 Quick Access action on the bank, 2 faults of kill, reboot, I/O error, refusal, failing roll back | `LockHeld`; `BootHasOneOwner`, even if the machine went down inside `EXTERNAL ON`; `HeldOnlyIfTorn`: a channel in manual mode at a duty nobody asked for is one whose helper died or failed to write, or whose roll back failed |
| `fan_live` | 1 channel, lock timeouts, fairness | `PolicyReached`, `EmergencyReached`, `CommandsEnd` |
| `fan_yields` | 1 session, 1 Quick Access, 1 daemon, unbounded drift, 1 refusal | `HandOverEndsService`; `DaemonYields`; `TakeoverSettles`, for takeovers recorded under the lock and after it; `ExternalSettles`: after the marker the writes end, also if the hand-over gets no further |
| `loop_bounds` | the code's own timer ratios: rewrite 3, verify 15, sensor timeout 8 cycles; takeovers, drift, reloads, refused and busy writes | `RegulationBound`: a channel that is to be driven is off the decided duty for fewer than `Verify` clean cycles; `BlindBound` |
| `loop_curve` | two curves, rising and falling readings, failing writes | `CurveFloor`, `DownGently`, `NoHunting` |
| `parity` | two curves and a preset, 17 readings | `SameDuty`: service and daemon choose the same duty |
| `undo` | 2 files, 2 backups, 2 installs, 1 edit, 2 failing steps, 1 crash, same and other drive | `AtomicExchange`: the refinement of `OptiSwap`; `ManifestExact`; `GapAtMostOne`; `PutBackExact`; `RecordFollowsFiles` |
| `web` | 2 browsers, 2 worker threads, 2 terminals, 1 renewal, 1 restart | `OneJob`: one unfinished hardware action; `JobPublished`: and the server knows it; `TrustKept`: nothing but sign-out and the owner ends a browser's trust |
| `web_live` | 1 browser, otherwise the same, fairness | `JobsSettle`, `LostTerminalsClose`, `UpdateTaken` |
| `update` | 2 clients, 2 chunks, 3 updates, 1 fault | `InstalledIsWhole`: the package manager opens only the whole package; `ProtectionRestored`; `UpdateEnds` |
| `v_web` | 1 browser, 1 terminal, 1 update | the disagreement of section 5 |

Why the bounds are enough. The protocols involve pairs: a writer and the loop,
two writers, a writer and a boot. Two requests and the loop contain every pair
of them in every order; one channel suffices unless a property is about
several (`fan_core`, `fan_crash`). Two duties tell the asked-for duty from the
failsafe and from another's. The faults strike at every label. `loop_bounds`
keeps the real ratios because the bound it checks *is* one of them; the other
loop runs shrink the timers, keeping their order. A deadlock check is switched
off for FanControl only, where a machine without the service stops when the
requests are spent, and for the three new systems, where everything may be
done and nobody comes. `undo`: two files are one that replaced a file of the game
and one that did not, or two to stop between; two backups, since an operation
touches one and is refused because of another; one crash and two failures are
one in an operation and one in undoing it. `web`: the interference is between
two browsers, or between an action and a change of the key. `update`: two
clients, because the dialog and one terminal interface is what a user has open;
with three, one client can replace a verified package with a half-written one
between another's `sha256sum -c` and its package manager, and `InstalledIsWhole`
fails.

Fairness. `PolicyReached`, `EmergencyReached`, `CommandsEnd`, those of `web_live`
and `UpdateEnds` need some; the other liveness properties hold without any. FanControl assumes
weak fairness of each process's own steps (a sequential program that can go on
does), and strong fairness of three steps of the loop: `SvcWrite` and
`SvcVerify`, because their timers run out in any case, and `Acquire(Svc)`,
because the lock is polled every 25 ms. Nothing is assumed of users, daemons'
decisions, heat, drift or faults. `CommandsEnd` relies on the 3 s lock timeout
(`LockTimeouts`): without it a session may starve behind the loop. FanLoop
assumes that cycles go on. WebAccess assumes weak fairness of the thread inside
`Handler.action` (`Work`), of the reader of an idle terminal that no signed-in
browser can keep from being idle (`IdleEnds`), of the thread waiting for a reader
that ended (`Disconnected`), and of the watcher (`Look`, `Update`); nothing of
browsers, nor that an action ends, since it may wait for an answer. SelfUpdate
assumes it of each started client: reads have a timeout, installers end. Nothing
is assumed of the distribution's transactions.

## 4. What is proved

TLAPS proves, for every value of the constants, each safety invariant that a
run checks, and five action properties. The constants are constrained only by the
named `ASSUME`s of the modules (`None` is no value of another kind, processes are
disjoint, requests are well formed, policies validated, bounds natural numbers),
which TLC evaluates in the runs. A theorem that needs more says so in its own
`ASSUME`, explained below. No property but the typing of FanLoop and FanParity is
inductive as it stands; the strengthening is what each proof is about.

Typing. `TypesHold` is `Spec => []TypeOK` in each of `FanControl_proofs`,
`FanLoop_proofs`, `FanParity_proofs`, `WebAccess_proofs`, `OptiUndo_proofs` and
`SelfUpdate_proofs`. Where labels decide what a local variable holds,
`TypeInv` says it: an operation that writes a duty carries one, a client has a
`.part` open exactly while it downloads, a removal has a file to move where it
says so, and a free file exists whenever one is created (counted in
`FreeFileExists`, from the number of clients). In FanLoop the content is that a validated
curve yields percentages between 0 and 100 and that smoothing keeps them there
(`CurveWanted`, `SmoothedBounded` of `FanPolicy_proofs`, which has the arithmetic).

Fan arbitration (`FanControl_proofs`, `FanControl_safety`):

* `MutualExclusion`: `LockHeld`. `Acquire` needs a free lock, every step out of
  `LockedLabels` releases it, and `Kill` and `Reboot` take it away with the label.
* `NoChannelLeftHeld`: `HeldOnlyIfTorn`, for all faults and without an assumption. A
  channel is half switched only in the hands of the process changing it, or since
  a death, a write that raised or a failed roll back left it so (`torn`). A
  refused duty that is rolled back leaves nothing only because `wasAuto` remembers
  that the operation itself left automatic mode, and a bank that succeeds leaves
  nothing only because its second pass covers every channel its first switched
  (`HeldWork`).
* `BootOwned`: `BootHasOneOwner`, for all faults. Until somebody asks for
  something only the loop and the replay run; either the service follows a
  policy, and the replay finds nothing to do, or the loop goes round without
  one, and the replay writes what the file says (`BootInv`).
* `ReplayMirrors`, assuming `SoundWrites` (faults are at most reboots and drift)
  and `NoHandOver` (nobody asks for `EXTERNAL ON`): `ReplayMirrorsHelper`.
  `MirrorInv` excuses the one channel whose writer still holds the lock and has
  yet to record it. Both assumptions are needed: a kill between write and record,
  or a refused duty, leaves the file behind the register, and `external_command`
  clears the file without the lock (section 5).
* `NothingDrivenHolds`, assuming these and that no lock times out:
  `NothingLeftDriven`. `DrivenInv` follows the one channel the loop drives
  through being planned, written, and released. A timeout in `release` is swallowed (section 5, 4).
* `HandOverEnds`, assuming `OneCommander` (one session besides daemons) and
  `Unbroken` (no kill, no reboot): `HandOverEndsService`, through any refusals, I/O
  errors, timeouts and drift. `HandInv` says how far the hand-over is once its
  marker exists. With two commanders, one that looked at the marker before it
  appeared saves a policy after the hand-over; a killed hand-over leaves the
  marker and the service.

Fan regulation (`FanLoop_proofs`, `FanParity_proofs`):

* `RegulationHolds`: `RegulationBound`, for all intervals. `LateInv` bounds the
  cycles off the duty by the age of the last write and the last verification.
* `BlindHolds`: `BlindBound`. `BlindInv` bounds the blind cycles by the
  timer of the missing reading, and shows that it runs whenever there are any.
* `StepsDownGently`: the action property `DownGently`, from `SourceInv`: what is
  remembered as a curve's decision comes with a duty to step down from.
* `FloorHolds`, assuming `Undisturbed` (no drift, no unloaded driver, no takeover):
  `CurveFloor`, from `CurveInv`: the remembered duty is in the register, and no further
  below the curve at the remembered temperature than the deadband. The assumption is needed: see section 5, 10.
* `Parity`, assuming `Calm` (every reading set readable and none critical):
  `SameDuty`. Both memories agree on percent and temperature, and what the
  helper remembers comes from the mode of the policy: only then does "smooth if
  the last duty came from the curve" equal "smooth if anything was applied".

Web access (`WebAccess_proofs`):

* `OneJobHolds`, `JobPublishedHolds`: `OneJob` and `JobPublished`, from `JobInv`,
  which says where the one decider is. While nobody decides, only the published
  terminal may be at work; from the moment a handler found it idle until it
  starts one itself, none is; after that only the one it started, published or not.
* `TrustKeptHolds`: the action property `TrustKept`. The server clears the registry
  when it reads a renewed key, possibly long after the renewal. No trusted browser
  with the current key can be there to lose it, because nobody signs in with a
  key the server has not read: `device[t] <= srv <= key` (`KeyInv`).

OptiScaler Client undo (`OptiUndo_proofs`):

* `ReleasesNamed`: manifests and records in a backup name a release, so that a
  missing file is never taken for the client's because both are missing.
* `ManifestsExact`: `ManifestExact`, for any number of files, backups and undone
  failures. `ExactInv` follows an operation: at each label, which files are in
  the backup and which of them the manifest names.
* `GapsAtMostOne`: `GapAtMostOne`, at most one file after any number of crashes. A running
  removal's manifest lags behind by the file on its way (`GapTake`); an
  interrupted one keeps that gap, and no later operation adds to it.
* `RecordsFollow`, assuming `ClientWaits`: the action property
  `RecordFollowsFiles`. `JournalInv` holds whatever is cut short: at most one
  manifest is "moving"; a record in a backup is of the release its manifest
  names; what a running operation still has to move lies where its label says;
  and what a finished Put back leaves behind until its folder is gone
  (`Returned`) holds no file. `FollowInv` adds that while a removal whose record
  has not moved is cut short, the client's record is of the same release. Without
  `ClientWaits` that is false (section 5).
* `PutBacksExact`: the action property `PutBackExact`, for any faults, crashes
  and backups, whether the client waits or not. `FoundInv` says where what the
  removal found can still be read off: what moved was the client's (`Found`);
  what did not is in the game, or in the record once that has moved; and while
  another backup is being put back, the game is as that backup's manifest says
  except for what has gone in (`AsItWas`), so that its roll back restores what
  the interrupted removal left.

Self update (`SelfUpdate_proofs`):

* `ProtectionHolds`: `ProtectionRestored`, for any number of clients: only a
  protection that was on is turned off or on, and while it is off without a
  fault some installer owes it (`SwitchInv`).
* `InstalledWhole`, assuming `TwoClients`: the action property
  `InstalledIsWhole`. `PackageInv` says who may still shorten a file that another
  has verified; a third client makes it false (section 5, 8).

The least and greatest elements these proofs need come from well-founded
induction over the naturals (`LeastNatural` of `FanPolicy_proofs`), instantiated
without an operator parameter.

What stays with TLC: liveness, since the prover handles neither fairness nor
`ENABLED` here, and with it `DaemonYields`, `TakeoverSettles`, `ExternalSettles` and `NoHunting`,
whose formulas say "eventually"; and so far the refinement `AtomicExchange` of
`OptiUndo`. No module uses recursion.

## 5. Disagreements between the code and what it says

One has a run, `v_web`, and an entry under `findings`:

1. The watcher of an update looks for a running action and then stops the
   server; an action that begins in between is killed, while `UpdateWatch` says "a
   running hardware job is left to finish".

Met while modelling, each by a counterexample, without a run of their own:

2. After a large temperature drop the bounded step down (helper line 701)
   remembers the *new* temperature with the intermediate duty (730), and
   hysteresis then holds that duty for good (90 % where the curve says 63 %).
3. An `OSError` of the duty write, or of its read-back, returns (318) without the
   rollback that a refused read-back gets: a channel that was automatic stays
   manual at a duty nobody asked for, while `restore_previous_automatic_mode`
   says (255-257) that a failed transition "must not leave a board fan in an
   unverified manual state". A failing rollback is only reported (269-273).
   `HeldOnlyIfTorn` is what does hold.
4. `release()` (790-798) forgets the channel before it waits for the lock and
   swallows the timeout.
5. One `source` for all channels of the override file: a Quick Access takeover
   makes the desktop's takeover its own, and `fan-resume` ends both.
6. A late write of the daemon is recorded as a user's takeover.
7. `opticlient_undo.py` 494-496 says the manifest "names exactly what left the
   game". A crash between a move and the manifest leaves one file unnamed; a
   later Put back returns the others and the record, and that file stays behind
   in the backup folder (`GapAtMostOne` and `PutBackExact` say how far it goes).
8. `download_asset` says only a verified file "becomes `<name>`". A second client
   that opens the same `.part` empties what the first has verified and is about
   to rename. With two clients the install command's second check catches it
   (`InstalledIsWhole`). With three it need not: the third opens, and empties, a `.part`
   that the second has completed and then renames over the package the first has
   already checked, which on rpm-ostree happened up to three waits before the
   installation, although the comment (`self_update.py` 605) says "right before".
9. Two clients installing one after the other on SteamOS: one that finds
   protection already off leaves its restoration to the other; if that one is
   killed, nobody restores it (`ProtectionRestored` excludes faults).
10. The verification of the loop rewrites a drifted channel with the duty of the
   current plan and remembers the current temperature with it. Where hysteresis
   kept the old duty, every such rewrite moves the temperature the hysteresis
   compares with, so that drift repeated in time with slowly rising readings
   takes the duty further below the curve than hysteresis and deadband allow
   (`FloorHolds` assumes `Undisturbed`).

OptiUndo shows how a removal can get stuck: a crash in the middle of a Put back
leaves a manifest whose files are in the game, which reads as "incomplete" (or,
if the removal was complete, as broken); so does a crash at the very end of a
removal followed by a new installation. Such a backup can never be put back, and
an incomplete one refuses every later removal of that game. Nothing is lost in
either case. With `ClientWaits` FALSE, the client's own Restore, run while a
removal is cut short, and then a Put back can overwrite the last copy of a file,
and `AtomicExchange` fails; and that Put back leaves the client's files in the
game without a record, so `RecordFollowsFiles` fails too.

The fan models show more of the same kind: a writer
that read the marker before it appeared still writes after (helper lines 49-53
promise none; `ExternalSettles` is what does hold); a verification decided
before a Quick Access takeover was recorded undoes it once (`TakeoverSettles` is
what holds); two takeovers at once may lose one record; a write that passed
its check before `EXTERNAL ON` records its duty after the replay file was
cleared; in an emergency a takeover removed by the loop leaves the user's duty
until the next verification if the loop's last duty was the failsafe already;
after a critical reading the service drops to the curve at once and the daemon
steps down.

## 6. Not modelled

Text: parsing of policies and curves, sysfs paths, messages, translations, user
interfaces, telemetry. The component list of `PROJECT.json` gives the reason for
each part. The SteamOS helper, a second writer of the fan on that system, the
other Quick Access actions, recovery snapshots and the helpers of CPU, GDDR6 and
governor are not modelled yet.

The map covers a small share of the repository's lines, and cannot cover a large
one: of some 170,000 lines most are pages, widgets, themes and translation
catalogues, without behaviour a state machine would say anything about. The
code in which processes, threads, crashes and shared files meet is a few
thousand lines; the fan helper and the Quick Access helper, which hold most of
what is modelled of it, are scripts without a file extension.

In the daemon, the rate limit of repeated applies and the read-back of its own
register are outside FanParity, which feeds readings at least five seconds
apart.

## 7. Plan

1. *(done)* `FanControl`: arbitration, with `MCFanControl` and two proof modules.
2. *(done)* `FanPolicy`, `FanLoop`, `FanParity`: arithmetic, timing, agreement.
3. *(done)* `OptiSwap`, `OptiUndo`: the crash journal and what it implements.
4. *(done)* `WebAccess`, `WebAccess_proofs`: sessions, terminals, actions, updates.
5. *(done)* `SelfUpdate`: two updaters over one cache and one switch.
6. *(done)* Proofs of typing for every system, and of every safety invariant the
   runs check, under the assumptions section 4 names; of `TrustKept`,
   `DownGently`, `InstalledIsWhole`, `RecordFollowsFiles` and `PutBackExact`.
7. Proofs left: that each step of `OptiUndo` is a step of `OptiSwap` or a stutter
   (`AtomicExchange`).
8. `FanDaemon`: the per-user daemon's rate limit and read-back, composed with
   `FanLoop`; QR tokens and the bounded registry in `WebAccess`.
9. `Recovery`: snapshot capture and restore under concurrent changes.
