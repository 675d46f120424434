# Verification of ice-box

ice-box is a desktop client for sing-box: it manages subscriptions, generates a
core configuration, runs the core, and sends the computer's traffic to it, either
through the OS system proxy or through a TUN interface. This directory holds TLA+
models of the parts of it where a mistake costs the user his network or his data: who
captures traffic, what is written to disk before the OS is changed, which processes
run, what the user is told, which node and which subscription the core works with, and
what becomes of each of these when a call fails, the process dies, another thread is
faster, or the app quits. TLC checks the models on small instances, TLAPS proves
their safety properties for every value of the constants.

Paths below are relative to the repository (`src/` in `PROJECT.json`); `D/` stands for
`apps/desktop/src-tauri/src/`.

| Module | What it is | Checked by | Proved in |
|---|---|---|---|
| `ProxyLease` | abstract: a loan of the user's OS proxy setting | refined by `SystemProxy` | |
| `SystemProxy` | the OS proxy and its record, call by call | `MCSystemProxy` (3 cfgs) | `SystemProxyProofs` |
| `TunLedger` | abstract: note before you take, drop the note when nothing is left | refined by `CaptureController` | |
| `CaptureController` | the capture controller, every job under the orchestrate lock, the watchdog | `MCCaptureController` (2 cfgs) | `CaptureProofs` |
| `WorkerSupervisor` | worker threads, pauses, cancellation, the wake signal | through `Shutdown` | `ShutdownProofs` |
| `Shutdown` | composes the supervisor with quit, update, stop, start and the workers' passes | `MCShutdown` (2 cfgs) | `ShutdownProofs` |
| `RuntimeReadModel` | what a status read says of the OS proxy: memo, sample, probes | `MCReadModel.cfg` | `RuntimeReadModelProofs` |
| `NodeSelection` | picking a node, its rollbacks, and the reads of the member in use | `MCNodeSelection.cfg` | `NodeSelectionProofs` |
| `CoreProcess` | the sing-box processes: controller, pid file, root daemon | `MCCoreProcess.cfg` | `CoreProcessProofs` |
| `TunResolvers` | the system resolvers while TUN captures on macOS | `MCTunResolvers.cfg` | `TunResolversProofs` |
| `SubscriptionStore` | abstract: ids and bodies; only an ordered removal loses one | refined by `Subscriptions` | |
| `Subscriptions` | the subscription store, its use cases, the parsed profile and the build from it | `MCSubscriptions` | `SubscriptionsProofs` |

A module whose constants are small sets of model values or bounds is its own TLC root and
has only a `.cfg`; the `MC` modules exist where a definition is needed (values, symmetry).

## 1. Inventory

### System proxy backend and record (modelled)
`crates/ice-proxy-sys`, called from `D/orchestrate.rs`, `D/capture/`, `D/shutdown.rs`,
`D/core_watch.rs`, `D/session_end.rs`.
*State*: the OS setting; `proxy-backup.json` with the user's setting and the flags
`pending` and `applied`. *Operations*: `apply_and_record`, `restore_and_clear_flag`,
`recover_if_applied_hinted`, `recover_unknown_backup`. *Interaction*: the app calls them
under the `state.proxy` mutex; the Windows session-end thread builds its own backend
and takes no mutex. *Hard*: each operation is several OS and file calls, any of which
can fail or be the last one before the process dies; a failed OS call can leave a
mixture, and a restore can answer Ok without having put everything back. *Correct when*: an
OS setting that is not the user's always has a record that holds the user's; what is given
back is what is owed; no record is a trap. Where the code falls short of this, section 6
says so.

### Traffic capture controller (partly modelled)
`D/capture/{mod,transition,recovery,journal}.rs`.
*State*: `CaptureInner` (the claimed backend and the TUN status), the mutation journal
`tun-state.json`, `settings.json` and `settings.pending.json`. *Operations*:
`enable_tun`, `disable_tun`, `enable_system_proxy`, `disable_active_backend`, `recover`,
`apply_while_tun_active`, `transition_tun_settings`, the release after a dead core.
*Interaction*: callers hold the orchestrate lock; it calls the TUN backend, the core
controller and the proxy backend. *Hard*: four stores (memory, journal, settings, OS)
change one at a time; every rollback can fail in turn; a crash can fall between any two
writes. *Correct when*: what is on the OS is noted on disk first; enabled means verified
and journaled; settings follow a healthy backend; a live switch ends on one side or in
`recovery_required`; TUN and the proxy exclude each other; recovery gets out of
`recovery_required` and never captures.

### Service lifecycle use cases (partly modelled)
`D/application/{core,settings}.rs`, `D/orchestrate.rs`, `D/shutdown.rs`, `D/core_watch.rs`.
*State*: the orchestrate lock, `shutdown_requested`, the watchdog's step. *Operations*:
start, start core, stop, stop core, quit, save settings, reload, launch recovery, the
watchdog's reconciliation. *Interaction*: the outermost callers of everything above.
*Hard*: the watchdog uses `try_lock` twice and acts between; the shutdown flag is shared.
*Correct when*: the lock is always given back, a start that reports success captures,
a dead core is noticed, what a quit tears down stays down.

### Core process controller (modelled)
`crates/ice-core`. *State*: the status, the child handle, `sing-box.pid`. *Operations*:
start, stop, reload by restart, adoption of the elevated core, reclaim at launch (by pid
file and by a scan of the process table), reaping. *Interaction*: `CaptureController` uses
its outcomes (`StartOutcomes`, `StopOutcomes`). *Hard*: the app dies between the spawn and
the write of the pid; a kill is refused; a pid is given to another program, also between a
look at it and the kill; the process table cannot be listed. *Correct when*: the core held
is named on disk, no core of the user's is forgotten, no stranger is signalled.

### Privileged helper (partly modelled)
`crates/ice-helper`, `ice-tun-helper-proto`, `crates/ice-tun-sys/src/helper.rs`. A root
daemon that starts and stops the elevated core and sets the resolvers for the app. *State*:
its child handle, which it loses when it is restarted. *Hard*: a client gives up on a
request that is served later; a core that is not its child is stopped by bare pid, with
seconds between SIGTERM and SIGKILL. *Correct when*: a release it confirms has found the
core, and it ends nothing but cores.
Authentication of the peer, path checks and the config pin are not modelled.

### TUN backends, coordinator and journal (partly modelled)
`crates/ice-tun-sys`, `crates/ice-tun-journal`. Elevated start and stop of the core,
interface and route verification, resolvers, the journal's records and the recovery driver.
The steps that change the OS or the journal's state are in `CaptureController`; the
resolvers, with the self-heal that a wake triggers (`D/core_watch.rs`), are in
`TunResolvers`. *Correct when*: our resolvers can always be given back, and a journal that
says clean means that they were.

### Runtime read model and probes (partly modelled)
`D/runtime_status.rs`, `D/core_snapshot.rs`, `D/application/common.rs`. *State*: the memo of
the live proxy check, the sample, its epoch, the pending refresh request, the probe in
flight. *Operations*: a mutation that invalidates, probes by the worker and by MCP, the
tray's look, status reads. *Hard*: a probe takes no lock while it looks, so it begins before
a mutation and lands after it. *Correct when*: nothing older than the last mutation is
served as current, and no request for a refresh is lost.

### Node selection and live reads of the core (partly modelled)
`D/application/nodes.rs`, `LiveCache` in `D/application/common.rs`. A pick is written to the
group selections, `settings.json` and `config.json` and then switched live; a refused pick
takes the files back; readers ask the core over HTTP without the lock. *Correct when*: a
reader is shown the member in use, a refused pick leaves nothing, a promised one survives a
restart of the core.

### Subscriptions (partly modelled)
`crates/ice-subscription`, `D/application/subscription.rs`, `D/subscription_watch.rs`.
*State*: a directory per subscription with its `.old-` during a replacement, `index.json`
with the validators (ETag), the parsed profile in memory, the configuration built from the
active one. *Operations*: add, update, remove, activate, apply, the hourly pass, UI reads.
*Hard*: bodies are fetched without a lock and written under it; directories, index and
configuration change one at a time; the UI reads with no lock at all. *Correct when*: what
was removed stays removed, what is listed has its content, validators are never ahead of
the body, cache and configuration are what the files say.

### Background workers (modelled)
`D/workers.rs`. *State*: `Phase {stopping, pauses}` under one mutex and condition variable,
the list of threads, `WakeSignal`. *Operations*: `spawn`, `wait`, `wait_or_wake`, `pause`
and the guard's drop, `shutdown`, `wake`, restart after a panic. *Hard*: the wake flag is
written without the mutex; pauses nest; a spawn can race the shutdown. *Correct when*: no
wake is slept over, a cancellation reaches every sleeper, nobody is left after a complete
shutdown.

### Quit, update and the workers' passes (partly modelled)
`D/shutdown.rs`, `D/app_update.rs`, `D/subscription_watch.rs`, `D/rule_set_watch.rs`. Quit and
update pause the workers, raise the signal, take the lock and tear down; a pass fetches
without the lock and applies under it after a second look. *Correct when*: nothing is
applied after a teardown.

### Not modelled
| Component | Why |
|---|---|
| Rule sets (`crates/ice-rule-set`, the flags of `D/rule_set_watch.rs`) | parsing and download; the pass itself is one of `Shutdown`'s workers, its own flags are in the plan |
| Config generation and engine (`crates/ice-config`, `ice-config-guard`, `ice-engine`, `ice-app`) | pure conversions, better tested than model-checked; which profile and which default they start from is in `Subscriptions` and `NodeSelection` |
| Shared types, process spawning (`crates/ice-types`, `ice-spawn`) | plain data and thin OS wrappers |
| MCP service (`D/mcp`) | a local HTTP service over the same use cases; its status call is in `RuntimeReadModel`, its shutdown and approvals are planned last |
| App update beyond its pause and stop | download, signature and prompts |
| Tray, logs, views, mobile app, frontend, website | presentation, or a thin host |

The hazards of all of these, each at its line, are in `PROJECT.json` under `hazards`; a
hazard no property covers says why.

## 2. How the models correspond to the code

Conventions: one action per call that changes something durable or shared, so that a
crash or another thread can fall between any two; a guard is the code's condition or
early return; a call that can fail has a second outcome, and what a failure may leave
behind is a set (`FailedWrite`, `AfterFailedRestore`, `StopOutcomes`, ...).
`PROJECT.json` maps every definition to its lines.

### `SystemProxy`
`os` is the OS setting as one value: a setting of the user's (`Originals`), this
installation's inbound for a port (`Endpoints`), or `Partial`, the mixture that a write
over several services or protocols leaves when it fails half way. `file` is
`proxy-backup.json`: its two flags as one value, and the backup; `corrupt` is what every
reader treats as "unknown, never as not applied". `pc`, `held`, `cont` are the control and
the locals of the app (one actor, since `state.proxy` is held for an operation) and of the
session-end thread. `owed` is a history variable: the user's own setting, which no code
keeps except in the record.

A restore that answers Ok need not have put the setting back. On macOS the services that are
not listed as enabled are passed over, and when the listing fails that is all of them
(`crates/ice-proxy-sys/src/macos.rs:430`); on Windows a named connection, or the WinHTTP
setting, that cannot be written is. So `RestoreOk` and `RollbackOk` leave the setting as it
is, mixed or given back (`Restored`). Two more history variables follow what comes of it:
`skipped`, whose last restore passed something over, and `loan`, which becomes `forfeited` when
the record is let go on such an answer and `kept` again when the user chooses a setting with
no record outstanding.

`BeginRestore` is the first half of `restore_and_clear_flag` and of
`recover_if_applied_hinted`; each caller (`Launch`, `EnableSystemProxy`,
`SyncAfterReload`, `Disable`, `SessionEnd`) says where it goes on. Then
`Snapshot → SavePending → Apply → SaveApplied` with rollback, and
`restore → saveCleared`. The checks of the live setting that decide nothing but an early
return, and the retries inside one OS call, are not visible at this level.

### `CaptureController`
`active`/`status` are `CaptureInner`; `journal` is the journal's state and whether it
names what TUN created (`IntentSaved` does not, `NamesSaved` does), which decides what
recovery can look for; `tun` and `proxied` are the OS; `record`, `desired`, `pending` are
the other files. `desired` stands for `tun.enabled` in `settings.json`, the one field the
controller's decisions depend on. `core` is the app's handle, `tun = "held"` the elevated
core's process.

A job holds the orchestrate lock from its first to its last step, so `job` is one
variable. Jobs call procedures (`EnableTun`, `DisableTun`, `SystemProxy`, `Drive`), which
end at `"return"`; the job's `...Returns` action is the code after the call. This is what
keeps eleven callers and four procedures in one module that is shorter than the code.
The watchdog is separate: it reaps under the lock, lets it go, decides from a core status
it reads later, and restores the OS proxy with only the `proxy` mutex.

`Faults` selects what can go wrong besides a crash: a set of kinds rather than a flag for
each call, so that a run can say "whatever fails, except ...". Crashes, dying cores and
edits of the settings are always on. A crash inside a change of the OS proxy
(`ProxyCutShort`) leaves what a failure there can leave, without the fault `proxy` too: to be
killed is not to be refused. The fault `proxy` includes the restore that answers Ok and has
given nothing back (`GivenBack`).

### `WorkerSupervisor` and `Shutdown`
A critical section of `phase` is one step, with one exception: the check that precedes a
timed wait. It reads the wake flag, an atomic written without the mutex, so the mutex is
seen held (`holder`) between the check and the wait that releases it. That window is where
a wake could be lost. A wake is four steps: store, find the bound phase, lock and unlock
it, notify. Spurious and timed wake-ups are `Timeout`. `spawn` holds the list's mutex from
its look at `stopping` to the push.

`Shutdown` EXTENDS the supervisor and adds the use cases. Every actor is a thread: quit,
update (whose installation pause surrounds that of its stop), stop, start, and the passes of
the workers other than `Waiter`. What the teardown does is `CaptureController`'s matter;
here it succeeds or fails. `torn` records who has torn the runtime down and not given up,
`gone` that a shutdown returned complete. The end of the process is not a step: a behaviour
stops where `std::process::exit` would be reached.

### `RuntimeReadModel`
`truth` is the OS; `memo` is `proxy_applied_cache`; `sample` is the `ProbeSample` that status
reads serve. Epochs, core generations and settings signatures only grow and are only
compared for equality, so each copy of one is kept as the answer to "is it still current?"
(`epoch`, `world`), and a mutation sets that to FALSE in every copy. A sample that was
invalidated, that failed or that was never taken is `Withheld`: nothing of it is served
and a refresh is due. A probe is six steps, from its claim (`begin_refresh`) over the memo
and the live look under the proxy mutex to `complete_probe`. A job is a mutation under
`MutationGuard`: a toggle clears the memo, a live `switch` does not and moves the core's
generation, and `fail` returns before it announces anything, so that the memo stays until
its 30 seconds are over. The signal that wakes the probe worker is not state here: the
worker may look again at any time. `cleared`, `clean` and `asked` are history.

### `NodeSelection`
`selection`, `selected` and `config` are the three files; `live` is what the core uses;
`before` holds the copies that `select_node` keeps for its rollback. A profile is flat or has
one strategy group (`grouped`). `groupsFetch` and `nowFetch` are reads in flight, single
flight each; `RecordNow` waits for both, as `record_group_now` does by taking both fetch
locks. `promised` is what the user was last told is selected; `broken` says that an earlier
or the present refusal could not take a file back.

### `CoreProcess`
`proc` is the process table: free, a core of the `user`'s or of `root`, `exited` and not yet
reaped, `dying` (signalled, and perhaps unkillable), or a stranger's (`other`). The app is
one thread of jobs that can be killed between any two steps; the daemon has its own
child handle and its own crashes, and may serve a request after its client gave up
(`late`). Only pids that something still names are given to strangers, since no other
reuse can be seen.

A stop of the daemon's own child is one step for everybody else, however long it takes: a
child keeps its pid until it is waited for. A stop of a core it has lost the handle of is two:
`StopBegins` looks at the image of the pid in the file and sends SIGTERM, `Terminated` or
`Outlived` is the SIGKILL that `terminate_pid` sends to the bare pid seconds later, and what is
found of it. In between `victim` holds the pid, the runner mutex keeps other commands
out, and the app waits (`reclaimWait`, `releaseWait`), gives up, or dies, in which case
the daemon goes on alone (`ServeOn`). The sweep of a launch takes one listing of `ps` (`Scan`,
which may fail: fault `scan`) and goes down it pid by pid (`SweepPid`) with up to a second for
each kill, and asks of each only whether it can be signalled by now; a refused kill is
passed over. `listed` is what is left of the listing, and the history variable `missed` the
user's cores that this launch could not list or kill. Elsewhere (`identity_still_holds`,
`reclaim_orphan_pid`, the first look of the daemon) a check of the identity and the signal
that follows it without a wait are one step.

### `TunResolvers`
`dns` is what the primary service points at, `file` the journal with the resolvers before
and after, `held` the `AppliedTun` of the job. Enable goes `startCore` → `nameIt` →
`readBefore` → `pointAtOurs` → `recordDns` → `probe` → `verify` with its two rollbacks;
disable, the release after a dead core, the undo of a failed verification and recovery share
`stop` → `gone` → `compare` → `giveBack` → `forget` → `close`. `Heal` is `heal_tun_dns`. `Change`
is the user, DHCP or a wake. `owed` is what the user should find after a release:
what was there before, or what was chosen since. `slips` records that one of two windows
was hit (section 6).

### `Subscriptions`
`dir` and `old` are the bodies in a subscription's directory and in its `.old-` directory;
`index` is `index.json`; `draft` is the copy the lock's holder is about to save. A body is the
version of the provider's document it came from, and the ETag too. A signature (mtime and
length) that was read of a file is kept as "is it still that file?" (`fits`). Two actors:
the user's use cases, and beside them the hourly pass or a removal from elsewhere (MCP). A
replacement is two renames, with every failure of either. `Generate` is
`generate_config` with the parsed-profile cache; the UI's read is three steps without any
lock and leaves a copy without rule bodies (`slim`). `slips` names the three excuses of
section 6.

`SubscriptionStore` is what all that promises: a table of ids and one body for each, changed
at once by `Put`, `List`, `Order` (a removal), `Drop` and `Unlist`. The mapping
(`Subscriptions!Store`) takes the two directories of an id for the body that a recovery finds
in them, and the index for the table.


## 3. The runs

Every run takes about a minute at most. Passing runs check for deadlock: nothing in
these models may get stuck. Type invariants are proved (`TypeCorrect` in every proof
module), not run.

### `MCSystemProxy.tla`: two user settings, two ports
| Run | Instance | What it shows |
|---|---|---|
| `MCSystemProxy` | readable record, no session thread, `FairSpec`; 5,556 states | whatever call fails and wherever the process dies, the record holds the user's setting while the OS uses another (`UserSettingRecoverable`); the operations refine `ProxyLease` (`ImplementsLease`); a setting put back is the owed one (`GivesBackTheOwed`); all three until a loan is forfeited; an outstanding record is cleared in the end (`RecordEventuallyClears`) |
| `MCSystemProxyListing` | readable record, one port | **violation** of `LetGoOnlyRestored`: the record is let go with the OS on ice-box's endpoints |
| `MCSystemProxyUnreadable` | `Corruption`, session thread | an unreadable record is replaced only by a clean one, and nothing is applied over it |

Two user settings, one of them "all off", are what tells "gave back the owed setting" from
"switched proxies off"; two ports are what a change of port needs. More values add
nothing, since the code only compares and copies them; the proofs confirm it for all sets.

### `MCCaptureController.tla`: every crash, with a choice of faults
| Run | `Faults` | What it shows |
|---|---|---|
| `MCCapture` | all but `elevated`; 444 thousand states | `EnabledIsJournaled`, `ReportsOwnedProxy`, `CommittedAfterHealthy`, `SwitchIsAtomic`, `RecoveryNeverCaptures`; nothing of TUN is on the OS without an outstanding journal (`EvidenceKept`); refinement of `TunLedger` (`ImplementsLedger`) |
| `MCCaptureLive` | all but `corrupt`, `proxy`; `FairSpec` | `Exclusive`; a recovery that reports success leaves `recovery_required` (`RecoverySettles`); every job gives the lock back (`LockReleased`); recovery, retried, gets out of `recovery_required` (`RecoveryUnblocks`) |

There is no bound here: the state is finite, one controller on one machine, and every job
can follow every other for ever. Why a fault is left out is said in section 6, with what
happens when it is put back. `elevated` is left out of `MCCapture` for the sake of its last two
properties only; the other five are proved under every set of faults.

### `MCShutdown.tla`: the probe worker, one updating worker, one waker
| Run | What it shows |
|---|---|
| `MCShutdown` | `NoLostWake`, `NoApplyAfterTeardown`, `GoneForGood`, `NobodySleepsOn` through every interleaving of both workers, a waker, quit, update, stop and start (1.5 million states) |
| `MCShutdownFlag` | **violation** of `StaysDown` |

One worker that waits for the signal and one that does not are the two kinds there are;
`subscription_watch` and `rule_set_watch` have the same pass. The pauses reach three (quit's
one and update's two), which is what nesting needs. Stop and start can be repeated without
bound, quit and update only after they failed. `ShutdownProofs` shows the same for any
number of workers and wakers.

### The other components
| Run | Instance | What it shows |
|---|---|---|
| `MCReadModel` | one mutation of each kind, one change by another program; `FairSpec`; 446 thousand states | a dropped memo is never filled with an older look (`MemoAfterClear`); what is served outside mutations is true (`ServedIsTrue`); a request outlives the probe it arrived in (`RequestKept`); what is served becomes the truth or nothing (`TruthSettles`) |
| `MCNodeSelection` | two nodes, every fault; 961 thousand states | `ShownIsLive`, `RefusedPickIsUndone`, `PromiseSurvivesRestart` |
| `MCCoreProcess` | three pids, every fault; 316 thousand states | `StrangersLive`, `HeldIsNamed`, `NoneForgotten`, `ReleasedMeansGone` |
| `MCTunResolvers` | ours and two others, every fault; 17 thousand states | `ResolversRecoverable`, `CleanMeansGivenBack`, `HealsOnlyCaptures` |
| `MCSubscriptions` | two interchangeable subscriptions, one change of a document, every fault but `config`; 2.3 million states | `NoneResurrected`, `ContentSurvives`, `TagNeverAhead`, `CacheIsCurrent`, `ConfigFollows`; refinement of `SubscriptionStore` (`ImplementsStore`) |

- `MCReadModel`: a probe can overlap at most one mutation that matters, since the first
  already makes it stale; one change by another program is what makes a memo wrong
  without anybody's clear. The safety properties are proved for any bounds.
- `MCNodeSelection`: a pick, its rollback and the reads in flight tell apart the new node and
  the one before; a third would be another "before".
- `MCCoreProcess`: the core held, the one that replaces it, and a pid that something still
  names and a stranger has got.
- `MCTunResolvers`: two choices of the user's tell "given back" from "overwritten with an
  older one".
- `MCSubscriptions`: one subscription is replaced while the other is active, removed or
  added; one version tells a new body from an old one, but for `TagNeverAhead`, whose
  order of versions the proof covers for any `MaxVersion`. The fault `config`, a build that
  fails after the index was saved, would double the states; a build already fails when the
  active body is missing, and the proofs include the fault.

## 4. Fairness

*`SystemProxy`*: weak fairness of `apply_and_record`'s steps, since it is straight-line code
that runs on. Strong fairness of `Launch` and `Disable` says that the user goes on using the
app, which is the only way anything is ever retried: there is no timer for it. Strong fairness of `RestoreOk` and
`SaveCleared` says that the OS and the disk do not refuse the same call for ever. Without
any of these the record simply stays outstanding, which is what it is for.

*`CaptureController`*: weak fairness of the steps of a running job, which is a thread that
never waits for anything while it holds the lock except for calls with timeouts. Strong
fairness of `RecoverTun` is the user's retry: the watchdog does not recover. Strong fairness of a `Drive` that succeeds:
verification does not fail every time. `RecoverTun` needs the strong form because other
jobs can hold the lock now and then.

*`RuntimeReadModel`*: weak fairness of the steps of a mutation and of a probe, which are
threads that run on, of the probe worker, whose wait has a timeout, of the watchdog's tick
while a refresh is asked for, and of `SampleAges`, which is the clock. Strong fairness of
`JobTakesProxy`, since a probe may hold the proxy mutex now and then but always lets it go,
and of `MemoExpires`: a memo that is cleared and filled again ages all the same. Nothing
says that anybody mutates, looks at a window, calls MCP or changes the OS proxy.

*`Shutdown`* states no fairness. Its liveness claims are put as safety:
`NoLostWake` (somebody is on the way to wake the sleeper) and `NobodySleepsOn` (a
cancellation leaves nobody asleep) say all that the condition variable can be held to; the
rest would be the scheduler's. `NodeSelection`, `CoreProcess`, `TunResolvers` and
`Subscriptions` state none either: every one of their jobs may also end with the app.

## 5. What is proved

`SystemProxyProofs` assumes `ProxyAssumption` (the user's settings, the endpoints and the
mixture are different values; the flags are Booleans). For any sets of settings and ports,
with both actors and whatever becomes of the record:
- `TypeCorrect`: `Spec => []TypeOK`;
- `NothingOverCorrupt`: `Spec => NothingAppliedOverCorrupt`.

They rest on `CorruptInvariant`: while the record is unreadable, an actor inside an operation
is replacing it, and none carries on with what it read before. With the assumption
`Faultless`, which is `~Corruption /\ ~SessionEndHook` (section 6 says what each breaks):
- `Recoverable`: `Spec => []UserSettingRecoverable`;
- `BackupOfUser`: `Spec => []BackupIsUsers`;
- `GivesBack`: `Spec => GivesBackTheOwed`;
- `KeepsTheLoan`: `Spec => ImplementsLease`.

All four excuse a forfeited loan and nothing else: they say that the user loses his setting
only through a restore that answered Ok, had passed services over, and was followed by the
write that lets the record go. For `KeepsTheLoan` that is a step of the abstract loan
(`Forfeit`), after which it promises nothing until the user chooses again (`Astray`, `Edit`).

They rest on `RecordInvariant`. `UserSettingRecoverable` is not inductive: after a step that
writes a clear record it would not be known that the OS is back. `RecordInv` adds, for a loan
that is kept, that without an outstanding record the OS holds the owed setting, that between the first and
the last record write of an operation the record is outstanding and what the app holds in
memory is the owed setting, that before the first write it is the owed setting already, and
that before the record is cleared the OS is back or the actor is in `skipped`.
The refinement then maps each write to a step of the loan: `savePending` opens it, OS
writes divert or give back, the cleared record closes it.

`CaptureProofs` proves, for every set of faults and with no assumption:
- `TypeCorrect`: `Spec => []TypeOK`;
- `EnabledAlwaysJournaled`: `Spec => []EnabledIsJournaled`;
- `OwnedProxyReported`: `Spec => []ReportsOwnedProxy`.

The last two rest on `ClaimsInvariant`. Neither is inductive, because both speak of what is
claimed and a job changes the claim and the disk at different steps: `Claimed` says
what is claimed at each step of each procedure, and `Owned` says `ReportsOwnedProxy` of every
step and not only between jobs.
- `CommitsAfterHealthy`: `Spec => CommittedAfterHealthy`;
- `SwitchesAreAtomic`: `Spec => SwitchIsAtomic`;
- `RecoveryTakesNothing`: `Spec => RecoveryNeverCaptures`;
- `JobsComeToAnEnd`: `Spec => JobsEnd`.

These are properties of steps, and what makes them true is which job calls which procedure
with which wish, so they need `FlowInvariant` besides: `Ran`, that a step that takes a backend
belongs to a job that may take one; and `Switched`, that until it commits a switch has not
touched the setting, takes the backend of the setting it wants, and has it when that call
succeeds. `JobsEnd` is the half of `LockReleased` that needs no fairness: every step of a job
ends it or brings its end nearer, and no other actor's step moves it back. The measure is a
pair, the calls left and the steps left in the call (`CallsLeft`, `StepsLeft`), at most 74
steps in all, whatever fails and whatever the watchdog does meanwhile.

With the assumption `NoElevated`, that the coordinator can
stop the elevated core, and whatever else fails:
- `EvidenceAlwaysKept`: `Spec => []EvidenceKept`;
- `KeepsTheLedger`: `Spec => ImplementsLedger`.

They rest on `EvidenceInvariant`. `EvidenceInv` joins to `EvidenceKept`: `Quiet`, between
jobs and before the intent nothing but the elevated core can be there; `Noted`, from the
saved intent to the end of enable or disable the journal is outstanding; `Named`, what
outlives the elevated core was named; `Resting`, a released TUN has left nothing behind
before the journal is closed. With the assumption `NoProxyFault`, that the OS proxy and its
record can be changed, and whatever else fails:
- `AlwaysExclusive`: `Spec => []Exclusive`;
- `RecoveryAlwaysSettles`: `Spec => []RecoverySettles`.

The first rests on `Proxied` (a proxied OS has an applied record, but for the last step of an
apply; while TUN is held no record says applied, which is what a crash inside a re-apply
needs) and `Held` (where no elevated core can be, and that no core of the app's own runs
beside it); the claim excludes the rest. The second rests on `Settled`: where
`recovery_required` is declared nothing of the proxy is left, but over a journal that became
unreadable, which no recovery succeeds on.

`ShutdownProofs` proves, for any sets of workers and wakers, under `SupervisorAssumption` and
`ShutdownAssumption` (the waiter is a worker; threads, use cases and "nobody" are
different values):
- `TypeCorrect`: `Spec => []TypeOK`;
- `WakesArrive`: `Spec => []NoLostWake`;
- `TeardownIsFinal`: `Spec => []NoApplyAfterTeardown`;
- `CompleteShutdown`: `Spec => []GoneForGood`;
- `CancellationReaches`: `Spec => []NobodySleepsOn`.

They rest on `ShutdownInvariant`, whose parts are the mechanisms of the code: `Guarded`, the
pause count is the number of guards held (without it a pause could end early);
`Ending`, who has torn down has not gone back, and the workers are cancelled before they
are joined; `Locked`, the orchestrate lock is held where the code believes it is; `Awake`,
the phase mutex is held between the check and the wait, so a cancellation cannot fall in
between; `Joined`, every living thread is in the list; `Waking`, while the waiter holds
that mutex with a wake pending, the waker has not passed it. The proof of `TeardownIsFinal`
needs both locks: a pass that is applying holds the orchestrate lock, so no teardown
happens meanwhile, and a later pass sees the pause.

`RuntimeReadModelProofs` proves, for any `MaxJobs` and `MaxDrifts`, `TypeCorrect`,
`MemoIsAfterClear` (`Spec => []MemoAfterClear`), `ServedAfterMutation`
(`Spec => []ServedIsTrue`) and `RequestsKept` (`Spec => []RequestKept`), from
`ReadModelInvariant`. Its parts: `Locked`, which step holds which lock; `Looked`, a look
under the proxy mutex is still true when it becomes the memo, since nobody changes the OS
without that mutex; `Sampled`, outside mutations a probe whose epoch is current saw the
truth, and so did the sample that is served.

`NodeSelectionProofs` proves, for any nodes and faults, `TypeCorrect`, `ShownAlwaysLive`
(`Spec => []ShownIsLive`), `RefusalUndone` (`Spec => RefusedPickIsUndone`) and `PromiseKept`
(`Spec => PromiseSurvivesRestart`), from `SelectionInvariant`. Its parts: `Read`, whatever was
read of the present core is what it uses, but between a switch and its record; `Filed`, what
the files say at each step of a pick; `Promised`, the last promise is in the files or in the
copies taken of them.

`CoreProcessProofs` proves, for any pids and faults, `TypeCorrect`, `HeldAlwaysNamed`
(`Spec => []HeldIsNamed`), `NothingForgotten` (`Spec => []NoneForgotten`), `StrangersLeftAlone`
(`Spec => StrangersLive`) and `ReleaseIsComplete` (`Spec => ReleasedMeansGone`), from
`ProcessInvariant`. Its parts: `Processes`, one core holds the ports, and no root core is
beside the daemon's own or the one it is terminating; `Replaced`, whoever replaces the child
finds no live one in its place; `Swept`, from the sweep of a launch on every core of the
user's is the child, in the job's hand, still on the listing, or one that was missed.
`StrangersLeftAlone` says two things of a stranger: it is ended by nobody unless its pid is
`victim` or on the listing, and its pid does not become either.

`TunResolversProofs` proves, for any resolvers and faults, `TypeCorrect`, `Recoverable`
(`Spec => []ResolversRecoverable`), `CleanIsGivenBack` (`Spec => []CleanMeansGivenBack`) and
`HealsCapturesOnly` (`Spec => HealsOnlyCaptures`), from `ResolversInvariant`. Its parts:
`Staged`, a job runs and a claim stands only while the journal is outstanding; `Recorded`,
both sides are known together, and a restore works with what the journal says; `Owing`, as
long as nothing slipped, the user is owed what the journal or the enable in progress holds.

`SubscriptionsProofs` proves, for any subscriptions, versions and faults, `TypeCorrect`,
`NoneComesBack` (`Spec => []NoneResurrected`), `ContentKept` (`Spec => []ContentSurvives`),
`TagsFollow` (`Spec => []TagNeverAhead`), `CacheFollows` (`Spec => []CacheIsCurrent`) and
`ConfigAlwaysFollows` (`Spec => []ConfigFollows`), from `SubscriptionInvariant`. Its parts:
`Staged`, who writes holds the lock; `Fetching`, what was fetched is written only for what is
listed or for a new id, and a draft brings nothing back; `Kept`, listed content is in one
place or the other; `Cached`, outside a swap no `.old-` directory is left, and what fits is
what was read; `Built`, until something is changed, and again once it was built, the
configuration is the one wanted; `Tagged`, neither the index nor a draft has validators
newer than the body.

It also proves `KeepsTheStore`: `Spec => ImplementsStore`, from that invariant and
`StoreInvariant`. This says more than `ContentSurvives`: it excuses none of the slips, it holds for
ids that are not listed too, and it speaks of every step: a body that is there is lost by a
removal that was ordered and by nothing else, and is replaced at once. The store itself
allows an older body over a newer one (the slip `overtaken`) and a body without an
entry. `StoreInvariant` adds what the renames need: `Single`, no subscription is in both of
its directories; `Fresh`, no leftover is in the way of a swap; `Served`, what was fetched was
served; `Drafted`, a draft differs from the index by the one id of its operation.

TLC checked every inductive invariant on a small instance before it was proved. Each proof
of preservation has one lemma for each group of actions and one step for each action.

Only model-checked: liveness under fairness, `RecordEventuallyClears`, `LockReleased`,
`RecoveryUnblocks` and `TruthSettles`. TLAPS does not reason about `ENABLED`; `JobsEnd` is as far
as it gets towards the second. `StaysDown` is the property of the violation run. Nor
would induction over data or RECURSIVE operators be in its reach; these models use neither.

## 6. Disagreements between the code and what it says of itself

With runs of their own:
- `MCShutdownFlag`: `shutdown_requested` is one flag for every use case; a stop that waited
  behind a quit or an update lowers it when it ends (`D/application/core.rs:175`), and a start
  goes through on a runtime that was torn down.
- `MCSystemProxyListing`: when the services cannot be listed, `restore` says that it is
  "restoring all backed-up services" (`crates/ice-proxy-sys/src/macos.rs:433`), passes over
  every one of them and answers Ok. The record is let go, the OS keeps ice-box's endpoints,
  and the next apply saves them as the user's setting.

Seen by changing one line of a cfg, without a run of their own:
- `UnrelatedNeverTerminated` of `CoreProcess`, in `MCCoreProcess.cfg`, without any fault too. "Unrelated
  process; never terminate it" (`crates/ice-helper/src/lib.rs:904`) holds for the look that
  `stop_orphan_from_pid_file` takes. If the core exits after the SIGTERM and its pid is taken
  by another program before the next poll, within 100 ms, that program gets the SIGKILL of
  `terminate_pid` five seconds later, as root (line 1161).
- `UserSettingRecoverable` with the session thread. It restores and clears the record
  in the middle of the app's apply (`D/session_end.rs:129`); the endpoints written next have
  no record, so the next launch does not undo them.
- `Exclusive` with the fault `proxy`. A pending record reads as not applied
  (`crates/ice-proxy-sys/src/backup_file.rs:63`). If the record of a finished apply could
  not be written, TUN is enabled while the OS proxy still points at ice-box.
  `docs/tun.md:20`: "System proxy and TUN are mutually exclusive".
- `BackupIsUsers` with `Corruption`: an unreadable record over a proxied OS is replaced by a
  clean one when the endpoints no longer match, and the next apply takes the app's own
  endpoints for the user's setting.
- `EvidenceKept` with the fault `elevated`: apply fails after the elevated core started and
  before the journal names anything, its rollback cannot stop the core, and recovery, which
  looks only for what the journal names, calls that clean.
- `RecoverySettles` with `proxy`: settings cannot be written after a switch, the new proxy
  cannot be released, the status becomes `recovery_required`, and since the record says
  applied, recovery returns Ok and leaves the status (`D/capture/recovery.rs:229`). Only
  stopping the core, which restores the proxy, gets out.

In the traces of `CaptureController`, as statements that do not hold and are not kept:
- A start that reports success has applied the proxy. `graceful_stop_locked` restores the OS
  proxy and leaves `active = SystemProxy` (`D/shutdown.rs:129`); the next start finds it
  enabled already (`D/capture/transition.rs:36`), answers Ok and applies nothing.
- A dead capture is noticed. The watchdog reaps a dead elevated core, loses the second
  `try_lock` to a job and never looks again (`D/core_watch.rs:50`), though it says
  "watchdog retries". A status read that holds the lock for a moment has the same effect.

Excepted by name in a property, because the code leaves the window:
- `UserSettingRecoverable`, `BackupIsUsers`, `GivesBackTheOwed`: the forfeited loan of
  `MCSystemProxyListing`. A single service that was disabled since the apply and is enabled
  again later is passed over in the same way.
- `StrangersLive`: the pid of `UnrelatedNeverTerminated`, and the pids further down the sweep's
  listing, which are killed without a second look at the image
  (`crates/ice-core/src/lib.rs:842`).
- `NoneForgotten`: the cores a sweep `missed`, because `ps` could not run
  (`crates/ice-core/src/lib.rs:823`) or a kill was refused (line 853). The sweep answers as if
  there had been none; the next launch looks again.
- `ResolversRecoverable`: the resolvers are changed before the journal holds the previous
  ones (`crates/ice-tun-sys/src/macos.rs:993`). A crash between the two, or a rollback that
  fails there (slip `unjournaled`), leaves ours in place with nothing that says so.
- `CleanMeansGivenBack`: between a look at the resolvers and the write that relies on it a
  change by somebody else is overwritten unseen (slip `overwritten`). The self-heal takes
  every change for drift, the user's own included (`docs/tun.md:50` and following).
- `RefusedPickIsUndone`: when `settings.json` cannot be written, `select_node` returns at once
  (`D/application/nodes.rs:835`) and leaves the group's new member on disk (`broken`).
- `ContentSurvives`: a removal that stops half way leaves an id listed without content
  (`crates/ice-subscription/src/store.rs:434`, slip `halfRemoved`), and a provider that answers
  304 "refreshes" it.
- `TagNeverAhead`: a fetch of the hourly pass that began before a manual update is written
  over the newer body (`crates/ice-subscription/src/manager.rs:702`, slip `overtaken`).
- `CacheIsCurrent`, `ConfigFollows`: a swap that failed and was taken back under a reader leaves
  the signature of the missing directory in the cache (slip `undone`), against the comment
  at `crates/ice-subscription/src/merge.rs:18`.
- `MemoAfterClear` speaks of a memo that was cleared since the truth last changed, and
  `ServedIsTrue` of a sample whose probe did not use an older memo: a comment in
  `D/application/common.rs` says that mutations invalidate the memo at once, but a live switch
  does not clear it, and a use case that fails returns before it does. `TruthSettles` bounds
  the damage: the memo's 30 seconds and one probe.
- `ReleasedMeansGone` speaks of cores that somebody can still name: a stop from Stopped
  removes the pid file without a look at it (`crates/ice-core/src/lib.rs:395`).

Met while reading, not modelled:
- `docs/tun.md:54` says that the watchdog can retry cleanup; it never calls `recover`.
- A live switch of nodes whose answer is lost after the core made it: the files are taken
  back and the core uses the new member (`D/application/nodes.rs:884`).
- `refresh_pass` answers true when it meets a pause at its second look, so what it has
  fetched waits for the next hourly pass if the quit then fails
  (`D/rule_set_watch.rs:108`).
- A panic under the orchestrate lock poisons it: every later use case is refused and quit
  leaves without a teardown.
- A leftover `.old-` directory of a subscription that is no longer listed is put back as an
  orphan at the next launch.

## 7. What the models leave out

- `SystemProxy`: the single fields of the OS setting (services, protocols, bypass list,
  PAC), and the wording of errors. A restore that passed something over leaves the old
  setting or the mixture; which service kept what is not told apart.
- `CaptureController`: the resolvers (in `TunResolvers`), the processes behind `core` and
  `tun` (in `CoreProcess`), the proxy mode and config generation of a reload, the rollback of
  the config file, the status view. A foreign journal is present from the start; other
  installations do not act.
- `WorkerSupervisor`, `Shutdown`: restart counts, thread names, the clock (a deadline may
  pass at any time), the Windows `on_before_exit` hook that repeats the stop of an update,
  poisoned mutexes.
- `RuntimeReadModel`: the sampled values other than the proxy, which travel with it; the
  published revisions, memory figures, and the use cases that take the orchestrate lock
  without a `MutationGuard` (`stop_core_with_binary`).
- `NodeSelection`: delay tests, nested groups, a profile that changes its groups.
- `CoreProcess`: log files, health endpoints, the hint to restore the proxy, authentication
  of the helper's peer, the pin of the config, Windows scheduled tasks. The sweep is the Unix
  one; on Windows each command line is read just before its kill, so only `missed` applies.
  A look at an image and a signal right after it are one step, as section 2 says. A pid
  that is still written down is reused by strangers only, not by another core.
- `TunResolvers`: addresses and routes, which live and die with the adapter, and more than
  one network service. Windows has no such step.
- `Subscriptions`: parsing and share links, imported files, per-subscription options,
  entries of the former `nodes.json`, the error texts of a failed fetch.

## 8. Plan

1. The coordinator beside the daemon (`crates/ice-tun-sys/src/coordinator.rs`): replacement of
   a helper, the config pin; then `CoreProcess` shown to have just the outcomes that
   `CaptureController` assumes (`StartOutcomes`, `StopOutcomes`).
2. The rule-set worker's `REQUESTED`, `FORCE` and `APPLY_PENDING` (`D/rule_set_watch.rs`).
3. Config apply and rollback of `D/orchestrate.rs`: the backup of `config.json`, the proxy mode
   patched in place, a failed reload.
4. The MCP service: its approvals and its own shutdown.
5. A live switch of nodes whose answer is lost, once `NodeSelection` has a way to say what the
   user should then be told.

Theorems, in order: that an operation of `SystemProxy` ends (a measure as in `JobsEnd`, the
safety half of `RecordEventuallyClears`); the same for a pick of `NodeSelection` and a job of
`CoreProcess`; then, with point 1, that `CoreProcess` implements the outcomes
`CaptureController` takes from it.
