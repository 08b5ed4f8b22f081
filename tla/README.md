# A verification project for HWControl

HWControl reads hardware telemetry and controls fans, power modes and a native
audio studio. A privileged Go service (the *bridge*) owns the hardware; a Flutter
dashboard sends it authenticated commands over a loopback connection; a second
process (the *guardian*) watches a canary file and can put the bridge into a
fail-closed *panic mode*. This directory holds TLA+ models of that code, the TLC
runs that check them on small instances, and proofs that TLAPS checks for every
instance. Paths are relative to the repository; `PROJECT.json` maps every
definition to the lines it models.

## 1. Inventory

State, operations and interactions of the parts that carry the program's logic.

| Component | State | Operations | Interacts with |
|---|---|---|---|
| Bridge command pipeline (`bridge_service/src/main.go`, `handleConnection`) | replay cache behind `replayMu`; per connection the reply encoder's nonce, two failure counters, time of the last control command | read, decode, validate, authenticate, consume nonce, panic gate, rate limit, dispatch, reply | all handlers through the cache; panic file, integrity flag, both clocks |
| Fan control (`executeHardwareCommand`, `fan_control*.go`, `platform_metrics_linux.go`) | PWM and mode files of the kernel | list channels, read safety telemetry, validate, discover again, write | pipeline, firmware, sensors |
| Power modes (`power_mode*.go`) | the platform's profile | read, set, read back, roll back | pipeline, user, daemon |
| Canary, guardian (`fetch_status_service.go`, `security_guardian/main.go`) | canary file, panic file, `triggered` | check, publish, restart | accept loop, file system |
| Bridge runtime (`bridge_runtime.go`, `integrity_monitor.go`, `service_windows.go`) | listener, stop and ready channels, 64 slots, integrity verdict, service status | start, accept, serve or refuse, violate, stop, exit | pipeline, panic file, service manager, clients |
| Key files and endpoint (`loadOrCreateSecret`, `loadOrCreateVerifyKey`, `listenBridge`) | `bridge.key`, `verify.key`, socket file or port | validate, read, create exclusively, write, remove; unlink, bind, protect, clean up | bridge instances, dashboard |
| Installation inventory (`verify_integrity.go`) | `verify.state`; during a scan the pool of hashing goroutines | baseline, scan, compare, persist | runtime's monitor, installer |
| Health report (`health.go`) and condition index (`healthycore/assessment.go`) | none of their own | collect, judge, advise; score | the same sensors as the fan gate |
| Audio session (`audioProbeControl`, `audio_core/tools/audio_device_probe.cpp`) | child process and pipes behind `audioProbeSessionMu` | launch, send line, await answer, kill | pipeline, probe |
| Audio host (`audio_core/src/audio_device_host.cpp`) | device, engine, lock-free spectrum queue, `isRunning` | enumerate, start, stop, callback, notification, worker | driver, control thread |
| Bridge client of the dashboard (`gui_dashboard/lib/main.dart`) | socket, line iterator, `_connecting`, `_connected`, `_sending` | connect, request, stop audio, time out | bridge |
| Fan curves (`fan_curve.dart`, `fan_channels.dart`) | curve in use, editor's list, stored list | load, edit, preset, save, evaluate | user data store |
| Curve controller, rules (`fan_curve.dart`, `automation_rules.dart`) | sample window, last target, last accepted temperature | next target, reset, rule target | curves, client |
| Fan automation (`_applyAutomaticFanControl`, `_applyGameModeProfile`) | emergency latch, game session, baselines | poll, emergency, curves, apply, restore, roll back | client, user, games |
| User data store (`user_data_store.dart`) | target, `.tmp`, `.old`, legacy file | read, write, migrate | every screen that saves |
| History, game detection, diagnostics, update check | bounded history, game session | sample, list | pipeline |
| AI client and engine, model manager, speech | child processes, model file | request, download, verify | dashboard |

Hard behaviours, and what makes each part correct:

* *Pipeline.* Handlers interleave; a time is sampled before a lock is taken;
  checks precede effects. Correct if a nonce is not accepted again in its cache
  life, the cache refuses rather than evicts, replies are bound to their own
  request, panic lets at most an in-flight command through, and every line is
  answered.
* *Fan control.* Check-then-act on sensors and fan modes. Correct if a low target
  is only written after every source was seen cool, and a firmware fan never.
* *Power modes.* Calls that fail with effect and succeed without. Correct if
  success was true.
* *Panic state.* Two writers of one file, crashes, restarts. Correct if a
  violation ends the service and stays published.
* *Audio.* Three threads, a lock-free queue, a child process that may hang or
  answer late. Correct if the queue is a bounded stream, resets are never shared,
  failed starts release, answers belong to their calls and nothing blocks for good.
* *Client.* A timed-out read that stays pending. Correct if a late reply is never
  taken for another request's and the busy flag is released.
* *Curves and automation.* Merging edits, creeping temperatures, partial failure of
  command sequences. Correct if demand never falls with heat, rises are answered,
  and the latch holds until it is cool.
* *Runtime.* Five goroutines share two channels, a listener and a flag. Correct if a
  changed installation ends the process from wherever it is, only failures make the
  service manager start it again, and slots are given back.
* *Key files and endpoint.* Instances start together, die between two file
  operations and meet each other's leftovers. Correct if they agree on one key,
  leave no broken one, and a bridge that serves can be reached.
* *Inventory.* A scan by several goroutines of files that change meanwhile. Correct if
  it ends, raises no false alarm and misses no lasting deviation.
* *Health.* Report and gate read the machine separately. Correct if they agree, and
  if trouble never improves an index.
* *Store.* Crashes and failures between renames, saves that nobody waits for. Correct if a
  whole copy survives and success is stored.

`PROJECT.json` lists the parts that are not modelled with the reason, and under
`hazards` the 40 places where the code is hardest to test.

## 2. Plan

Built, in this order: `CommandGate` (the privileged boundary), `PanicState`,
`FanSafety`, `BridgeClient`, `PowerProfile`, `SpectrumQueue`/`SpectrumStream`,
`AudioHost`, `AudioProbe`, `CurvePoints`, `FanCurve`, `FanController`,
`DashboardFan`, `UserDataStore`; then `BridgeRuntime`, `BridgeStartup`,
`VerifyInventory`, `Health`, `Assessment`; then the proofs: `CommandGateProofs`,
`HardwareProofs` (`FanSafety`, `PowerProfile`, `Health`, `Assessment`), `ServiceProofs`
(`BridgeRuntime`, `BridgeStartup`, `VerifyInventory`), `AudioHostProofs`,
`AudioProbeProofs`, `BridgeClientProofs`, `DashboardFanProofs`, `UserDataProofs`
(`UserDataStore`, `FanCurve`, `CurvePoints`). Every safety property that a run checks
is a theorem.

Next:

1. The editor composed with the controller (a saved curve does not reset the
   channels' controllers), telemetry history with `UserDataStore`.
2. The audio screen's device selection over re-enumeration, composed with
   `AudioProbe`; the AI client's request loop beside `BridgeClient`; the model
   manager; the bridge's game session and sensor history.

## 3. Modules and the code

| Module | Models | State and actions |
|---|---|---|
| `CommandGate` | `handleConnection`, `validateCommand`, `consumeCommandNonce` | `pc[c]` is where a handler is: `Read`, `Validate`, `Authenticate`, `ConsumeNonce`, `PanicGate`, `RateLimit`, `Dispatch`, `Apply`. Between any two, other handlers, `Tick`, `SetWallClock`, `EnterPanic`, `ClearPanic`, `IntegrityViolated` may happen. A line is form, nonce, timestamp, MAC verdict and kind of action. `time.Now()` is sampled by `Authenticate` and used by `ConsumeNonce` |
| `PanicState` | `triggerPanicModeLocked`, `writePanic`, both start-ups | file names are inodes, so that two writers of one `.tmp` are as in POSIX; `Open`, `Write`, `Rename`, `WriteFails`, `Crash` |
| `FanSafety` | `executeHardwareCommand` for fans, Linux backend | one action per read: panic, channel presence, host sensors, vendor tools, channels, validation, discovery, write; percent in tenths |
| `PowerProfile` | `setPlatformPowerMode`, Linux and Windows | `ReadBefore`, `SetProfile`, `ReadBack`, `ReadCurrent`, `Rollback`; each call may fail, with or without effect |
| `SpectrumQueue` | `enqueueSpectrumSample`, worker loop | every load and store of indices, slots and flags is a step |
| `SpectrumStream` | what that queue promises | `Put`, `Drop` (only when full), `Take` |
| `AudioHost` (extends `SpectrumQueue`) | `AudioDeviceHost` | control thread under `lifecycleMutex` step by step, device thread, worker, hot plug |
| `AudioProbe` | `audioProbeControl`, `--server` loop | handlers, lock, any number of processes with their two pipes |
| `BridgeClient` | `_connectToBridge`, `_requestBridgeData`, `_sendCommand`, `_requestAudioStudioControl` | socket generation, lines in both directions, the pending `moveNext`, the request awaited |
| `CurvePoints` | class `FanCurve`, presets | `Normalized`, `Evaluate`, `FromJson`; sixths of a degree and hundredths of a percent |
| `FanCurve` | `_loadFanCurve`, `FanCurveEditor`, presets | one action per edit |
| `FanController` | `FanCurveController.nextTarget`, `resolveAutomaticFanTarget`, rules | `PollReading`, `PollBlind`, failing commands |
| `DashboardFan` | `_refreshMetrics` and what follows a status | one action per command sent: `EmergencyStep`, `CurveStep`, `ApplyStep`, `RestoreStep`, `RollbackStep` and the end of each loop; the curve's target is any value, its computation is `FanController` |
| `BridgeRuntime` | `runBridge`, `bridgeService`, `bridgeIntegrityMonitor`, `serviceHandler`, console interrupt | `run` is the place in `runBridge`; `monitor` and `control` that of the other goroutines; a step is one access to `stopCh`, `ready`, the listener or the integrity flag. `RequestStop` and `StopListener` are separate steps of every caller but `runBridge` itself, which returns an error after them in any case. `host` says whether service manager, console or (on Unix) nobody asks for a stop |
| `BridgeStartup` | `loadOrCreateSecret`, `loadOrCreateVerifyKey`, `listenBridge`, `cleanupBridgeEndpoint` | one action per file operation of each instance; the key file holds a key, a part of one, or is unsafe or absent; the endpoint belongs to the instance whose listener is behind it; the history `company` has the instances that met another there |
| `VerifyInventory` | `collectVerifyInventory`, `verifyInstallationStateWithKey`, `writeVerifyState` | feeder, workers, results channel and collector step by step (`TakeJob`, `Hash`, `SendResult`, `Collect`); size and digest come from two reads; baseline, comparison, alarm |
| `Health` | `collectMetrics`, `collectHardwareControlSafetyMetrics`, `evaluateHardwareHealth`, the gate | operators of the machine's state, which changes freely |
| `Assessment` | `healthycore.Evaluate` | operators of the evidence, which gets worse; penalties have the width of `int` |
| `UserDataStore` | `writeJsonObject`, `readJsonObject`, start | every awaited file operation is a step that may fail or be the last, and any other save may come between two; the history `alone` (this save has met no other) and `since` (overlap, faults and crashes since the last good save) says what a property may count on |

`MC*` modules give constants their values. `Hardware`, `UserData` and `Service`, with
constants of their own and a specification without fairness for the theorems, each put
modules that share no state together: `part` says which of them a
behaviour exercises, the others rest in one of their initial states. What one of
them leaves to another is a free choice there: `BridgeRuntime` starts with a key or
fails, whatever `BridgeStartup` did, and `Tamper` is whatever the inventory or a
digest notices. The modules with processes of their own have a
`TypeOK`; it is proved for `CommandGate`, `FanSafety`, `BridgeRuntime`,
`BridgeStartup`, `VerifyInventory`, `PowerProfile`, `AudioHost`, `AudioProbe`,
`BridgeClient` and, as a part of `StoreInv`, `UserDataStore`.

## 4. Runs

| Run | Shows | Bounds |
|---|---|---|
| `gate_replay` | no acceptance of a nonce within the skew of its first (`ReplayWindow`), a second acceptance only when the client's clock is ahead, a full cache never evicts early | 2 symmetric connections, 3 nonces for 2 entries (saturation), skew 1, clock to 2 (entries expire), 3 reads |
| `gate_failures` | replies bound to their request, at most one late control command per connection, every line answered | 1 connection, every kind of line, limit 2, one trip, one clock step, 3 reads |
| `panic` | a violation stops the bridge for good and stays published | bridge and guardian, 2 faults, records of 2 lengths, 5 inodes (one per name and descriptor, and one spare) |
| `hardware` | low target only after every source was seen cool, firmware fans untouched, no guess between fans; SUCCESS of a power mode was true during the command; report and gate agree on a machine where they read the same sensors; trouble never improves the index | fans: 2, with 3 sources, targets 0, 50, 100 %, 2 changes; power: both platforms, 2 handlers, 1 change by the user, 2 failing calls; report: up to 2 host sensors at 84, 94, 95 or an invalid 126; index: both sides of every band, 8-bit counts up to the largest |
| `client` | a lagging connection accepts nothing, busy flag released | 5 requests, 3 connections |
| `audio_host` | queue implements the bounded stream in every session, no loudness values after a lost frame but those of a refresh already begun, no reset under a running thread, running streams are reported, requests return | 2 slots, 5 frames (the index wraps twice), refresh every 2 windows, 2 endpoints |
| `audio_probe` | own answers, a successful stop is silent also over a restart of the bridge, calls return | 2 handlers, 3 calls, 2 processes, pipes with room for one line |
| `user_data` | curve safe and its demand monotone after any file and edits, normalisation equals its reference, rises answered; last whole copy survives, success is stored, although saves may overlap | all lists of up to 3 of 6 points, 2 edits; 4 temperature changes around a threshold, 1 failing command; 3 saves, up to 2 at once, 2 failing operations, 1 crash, 4 of these in all |
| `dash` | latch holds until cool, game is a floor, emergency reaches full speed | 2 channels, readings below 92, between 92 and 95, above and none, 2 game changes, 1 failing command, 1 user command |
| `service` | only failures and panic restart the process, a changed installation ends it, refusal only when all slots are at work; one key and no broken one without a crash, a serving bridge reachable and no start kept out by what a crash left; no false alarm, no lasting deviation missed, scans end | all three hosts, 2 clients for 1 slot, 1 fault; 2 instances, 3 starts, each kind of failure once; 2 files of 2 contents, up to 2 workers, 1 change, 2 starts |
| `dash_alarm_doc` | *violated*: after a partly failed emergency the latch is not set and a channel is lowered at 93 °C, against `docs/wiki/Features-Fan-Curve-Editor.md:14` | 2 channels, 1 failing command |
| `health_doc` | *violated*: with two processor sensors the report takes the first, the gate the last; the report advises emergency cooling while the gate accepts 99 %, against `docs/wiki/Features-Health-Diagnostics.md:63` | 2 host sensors |

The bounds are small but each covers the boundary it is about: a cache with more
nonces than entries, a queue that fills and wraps, more processes than the
session, a client more than slots, a fault in each step of a sequence plus one more.
`CHECK_DEADLOCK FALSE` stands in `audio_probe`, `user_data` and `service`, where a
process ends, or bounded calls, saves, starts and faults run out while nothing is
left to happen.

## 5. Fairness

* `CommandGate`: weak for each handler's steps; goroutines are scheduled and each
  call has a deadline. None for reading the next line.
* `PanicState`: weak for the accept loop (it comes round at least every second),
  the guardian's ticker and publications; systemd restarts a failed guardian.
  None for crashes and failures, which are bounded.
* `BridgeClient`: timers fire, an attempt to connect ends, the waiting Stop polls.
  None for the bridge or the network.
* `AudioHost`: control thread, worker, a callback that has begun and a notification
  go on. Strong for `CloseDevice`, since `ma_device_stop` asks for no new callback.
* `AudioProbe`: weak for the handler inside, strong for the lock (a Go mutex hands
  itself to the longest waiter). None for the process.
* `BridgeRuntime`: weak for `runBridge` (Accept has a deadline of one second), for the
  monitor (its ticker) and for the service handler (its timeout). None for clients,
  handlers, files or requests to stop, and none for failures.
* `VerifyInventory`: weak for a scan, whose goroutines nothing holds up but each
  other, and for the periodic check.
* `FanController`, `DashboardFan`: the poll timer, and command timeouts.

## 6. Proofs

`CommandGateProofs`, for any set of connections, nonces and lines and any limits,
from `GateAssumption` alone:

* `TypeCorrect`: `Spec => []TypeOK`.
* `ReplayWindowHolds`: `Spec => []ReplayWindow`. `ReplayWindow` speaks of the
  history of acceptances only and is not inductive. `ReplayInv` adds that a
  sampled `now` never lies ahead of the monotonic clock, and that each accepted
  nonce is either still cached with an expiry of at least its `now + Skew`, or the
  clock is past that. The second is what a held-up handler could break: it purges
  with an old time, which removes less, and inserts only a nonce that is not
  cached, with its own old time. Init, each action and the two clocks preserve it.
* `NoEarlyEvictionHolds`: `Spec => NoEarlyEviction`, from the same invariant: the
  purge compares with a `now` that is not ahead of the clock.
* `ReplyBindingHolds`, `FailClosedHolds`, `SecondAcceptHolds`, `CacheBoundedHolds`,
  `OneAnswerPerLineHolds` (the safety part of `EveryLineAnswered`: no way back to the next
  read without a reply, from `UnansweredInv`: a handler at work has not answered yet).
  `BindingInv` says what the encoder is bound to between
  two answers: nothing before a line is decoded, then the nonce of that line.
  `LateInv` says why a connection cannot complete a second control command: in panic
  mode it does not get past the check before the hardware, after an integrity
  violation not past the read of its next line. `FreshInv` relates the two clocks while
  nobody sets one, and keeps for every accepted command that it was no older than
  the skew when it was checked; with `ReplayInv` the second acceptance follows.

`HardwareProofs`, of `FanSafety`, for any sets of handlers, sensors and targets, any finite set of
fans and any number of changes, from `FanAssumption` (fans and targets exist,
targets lie in 0..100 %):

* `FanTypeCorrect`: `Spec => []TypeOK`.
* `LowTargetHolds`, `FirmwareFansHolds`, `TargetUnambiguousHolds`: the three invariants
  about fans of `hardware`. They speak of a handler at its write only. The inductive `FanInv`
  ties what a handler has read to its history at each step on the way: a source
  that was critical throughout is critical now, hence critical in what the handler
  sensed once it is past that source's read (for the GPU, past the vendor tools,
  which may replace the host's value), hence refused by the validation unless the
  target is full speed; a fan controllable throughout is controllable at the last
  discovery, so that the only fan found there is the only candidate.

Of `PowerProfile`, `Health` and `Assessment`, from `PowerAssumption` (some mode exists and
the foreign one is none of those the bridge can ask for), `HealthAssumption` and
`AssessmentAssumption`:

* `PowerTypeCorrect`; `SuccessWasTrueHolds`. `PowerInv` adds `Recorded`: a handler at
  work whose target is the active profile has it on record, which every write by
  anyone keeps up to date; the success after the read-back follows.
* `HealthAgreesWithGateHolds`. The report and the gate fold the same list of sensors from
  different ends; what either takes is the sensor of the least or the greatest index of
  a kind (`First`, `Last`), which are the same where there is one. The machine changes
  freely, so that the invariant is its type alone and the work is in the operators.
* `IndexIsHonestHolds`. Each penalty is monotone in the evidence where `Times` is exact
  (`TimesExact`), and halving and clamping preserve it.

`ServiceProofs`, of `BridgeRuntime` from `RuntimeAssumption`, for any clients and slots:

* `RuntimeTypeCorrect`; `OnlyFailuresRestartHolds`. The exit code alone says nothing
  about how it came about; `Causes` follows it back: an error that `runBridge` returns
  needs a failure, a broken listener needs a fault or a stop that was requested
  *before* the listener was closed, which every caller does in that order.
* `RefusedOnlyWhenFullHolds`. `SlotsExact`: the semaphore counts exactly the
  connections being served, so that a full one means that many handlers.

Of `BridgeStartup`, from `StartupAssumption` (no instance is called `"absent"`, which is how
the model writes an endpoint without an owner), for any instances:

* `StartupTypeCorrect`; `KeyFileSoundHolds`. `KeyInv` adds that one instance at a time
  is between creating and completing the file (`O_EXCL`), and that nobody else holds a
  key meanwhile.
* `EndpointSoundHolds`. `company` marks the instances that have been at the endpoint
  together with another. An instance out of company still owns what it has bound,
  finds nothing there but a leftover of a crash, which it removes, and gives up only
  over a failing operation. A port is never unlinked, so that there the owner is the one
  that serves in company, too.

Of `VerifyInventory`, from `InventoryAssumption` (the digests of file contents are none of
the marks for a missing, linked, open or unreadable file), for any finite tree, any
number of workers, changes and starts:

* `InventoryTypeCorrect`; `NoFalseAlarmHolds`. A check compares two lists that different
  goroutines put together in different orders. `Honest` says that while the tree has
  not been touched since the baseline was begun, each job, result and record tells the
  truth about its file; `FilesApart` and `Covered` that each file is in exactly one of the
  queue, the workers, the channel and the records, so that a complete scan has one record
  for each;
  `StateSound` carries the same over to the state file. Two such lists are permutations of
  each other, and the canonical order has no second choice (`OrderedIsUnique`, by
  induction over the places): they are equal, and the comparison raises nothing.

`AudioHostProofs`, from `QueueAssumption` and `HostAssumption`, for any number of slots,
frames and endpoints:

* `QueueImplementsStream`, the refinement of `SpectrumStream`: the initial states map to
  an initial state of the stream, publication to `Put`, the counted loss to `Drop`, the
  release of a slot to `Take`, start clears the stream, and every other load and store
  is a stutter. `QueueInv` is what the separate loads and stores could break: between
  `readIndex` and `writeIndex` there are never more frames than slots, the room the
  callback found stays free until it publishes, the frame the worker found stays
  until it releases, and hence (`SlotsApart`: indices less than `Slots` apart fall
  into different slots) neither writes into what the other reads.
* `HostTypeCorrect`, from the same invariant; `NoSharedResetHolds` and
  `StreamIsReportedHolds` from `Lifecycle` (where the control thread is says what device
  and worker may do); `SuppressedAfterLossHolds` from `Loudness` (only the
  refresh under way when the flag was cleared can still publish).

`AudioProbeProofs`, from `ProbeAssumption`, for any handlers, calls and processes:

* `ProbeTypeCorrect`, `OwnAnswerHolds`, `StoppedMeansSilentHolds`, and `WriteFindsRoomHolds`:
  the write that is made with the lock held does not block, since the pipe it goes to is
  empty. `ProbeInv`: the lock is
  held by exactly the handler inside; between two calls both pipes of the session are
  empty, because a call that gives up takes its process with it; while a call waits
  they hold its own line or its own answer; and a process that runs and is not the
  session's has lost its input.

`BridgeClientProofs`, `DashboardFanProofs` and `UserDataProofs`, from `ClientAssumption`,
`DashboardAssumption` (`Channels` is a sequence, targets lie in 20..100 %) and
`StoreAssumption` (a torn file is no setting, savers are finitely many and the start is
none of them):

* `AcceptsOnlyInStepHolds`, `ClientTypeCorrect`. `InOrder`: nonces are fresh and lines stay
  in order, and what the client has still to read is older than what the bridge has
  still to answer; so the awaited nonce can come first only when nothing else is on its
  way.
* `LatchedUntilCoolHolds`, `GameIsAFloorHolds`. `Values` bounds every command from below by
  20 %, `Sessions` says when the baseline may be restored; the rest is a case
  analysis of the commands a poll sends (`Commands`).
* `CopyExistsHolds`, `SuccessIsStoredHolds`, for any settings, any finite number of savers
  and saves that overlap as they like. `CopyExists` allows for one crash or two failing
  operations since the last good save and for no overlap since then; beyond that it does not
  hold. The invariant has two layers. `Base` holds however saves overlap: names stand
  for different files, a save has a file open exactly while it writes, there is always a
  free inode (`FreshInode`, by counting), and `since` remembers every overlap. `Lone` holds
  while `alone`: `Progress` says what the save has written so far, `Guarded` where the last
  whole file is at each place of `writeJsonObject` (the target until it is set aside, then
  the backup; only a save that no further mishap can hit may rely on the temporary file).
  The first save after others, and the start after a crash, establish `Lone` from `Base`.

Of `FanCurve` and `CurvePoints`, from `CurveAssumption` (degrees and percents are natural
numbers), for any stored list, points and edits:

* `NormalizedAsIntendedHolds`. The two loops of `safetyNormalizedPoints` are recursive
  functions of the number of points taken, and each has an invariant of that number:
  `SortedTo` (the clamped points so far, in order, none lost and none added) and `Summary`
  (a safe list whose temperatures are those of the points so far, each with the
  most that any of them up to it asks for: `Peak`). `AllNaturals` carries them to the end
  of the list; the reference `NormalForm` follows, as a greatest element is unique.
* `CurveSafeHolds`. `CurveInv`: the file holds some list of points, the curve in use
  is `Usable` (safe, with two points at least), the editor's list safe. Every way to a
  curve ends in a normalisation but the deletion of a point, which keeps a list safe
  (`RemoveAtIs`), and the built-in curve. That the demand never falls is shown for every
  pair of temperatures, not only the ones `Probes` names (`DemandRises`): within a segment
  the rounded share grows with its part (`ShareIs`), and from one segment to a later one
  the point between them separates the two.

`HardwareProofs`, `ServiceProofs` and `UserDataProofs` are about `HardwareSpec`, `ServiceSpec` and
`UserDataSpec`, whose properties the runs check. A behaviour stays with the part it began
with, and the other parts' variables do not change (`PowerPart`, `InventoryPart`,
`EditorPart` and the like); a theorem about the component, taken through `INSTANCE`,
thereby becomes one about the whole. The bounds
(`MaxReads`, `MaxFaults` and the like) are constants: the theorems hold for every
value of them.

Induction over the length of a list is done without the library's rules, which the
prover cannot instantiate: the set of lengths for which a statement holds contains 0 and
with each number the next, so that it is `Nat` (`AllNaturals`, from the well-foundedness
of `<`). That is why `CurvePoints` and `VerifyInventory` state sorting by what it yields
(`Place`, `CHOOSE` of an order) and loops as recursive functions.

Only model-checked: liveness under fairness, which is out of the prover's reach
(that every line *comes* to its answer in `EveryLineAnswered`, `ViolationStopsBridge`, `ViolationPublished`, `SendingReleased`,
`RequestReturns`, `CallReturns`, `RiseIsAnswered`, `EmergencyCools`, `TamperEndsService`,
`DeviationStops`, `ScanEnds`); and `PanicState` and `FanController` as a whole, whose
properties are of that kind.

## 7. Disagreements met while modelling

Two are kept as violation runs (`dash_alarm_doc`, `health_doc`). The others were seen in
counterexamples with the same modules and are recorded here; properties are worded
to what the code does.

* Replay: an entry lives until acceptance + skew, a command until its timestamp +
  skew. A command dated ahead of the bridge is accepted twice in its window;
  `SECURITY.md:30` says "accepted only once during their validity window". The code's exact
  bound is `SecondAcceptNeedsClientAhead`.
* Stop Audio Studio is denied in panic mode (`main.go:1452`);
  `docs/AUDIO-CONTROLLER-STUDIO.md:16` says "Stopping is allowed even when
  security panic mode is active".
* Bridge and guardian share `panic-mode.json.tmp`; an overlap can leave a record
  that does not parse, and a failed write is dropped after `triggered` was set
  (`fetch_status_service.go:143`). The bridge alone then goes on serving;
  `SECURITY.md:148` says it enters panic mode. With the guardian it ends well (`panic`).
* A target below 0.393 % is truncated to duty cycle 0 (`fan_control_linux.go:241`),
  although `fan_control.go:42` refuses zero because it "can stop the fan".
* The gate counts the last of several sensors of one kind, the report the first
  (`main.go:436`, `main.go:276`): `health_doc`. `hardware` has one sensor of each kind
  for the fan commands, and `HealthAgreesWithGate` names the machines where the two agree.
* A stalled fan makes the report CRITICAL (`health.go:180`), and the gate goes on
  accepting any target; `Features-Health-Diagnostics.md:56` says "hardware-control
  action is blocked while the system cools".
* After an integrity violation on Unix the process ends with code 0, and systemd's
  `Restart=on-failure` leaves it down; started again by hand, by a crash or by panic
  mode it takes the changed files for its baseline, since there is no inventory there.
* A target that cannot be read once counts as a violation (`integrity_monitor.go:216`).
* A second instance on Unix unlinks the socket of a running one, and the end of
  either unlinks the other's (`bridge_listener_unix.go:64`, `95`); `EndpointSound`
  makes that company its exception. Nothing handles signals on Unix
  (`service_nonwindows.go`), so every stop leaves a stale socket, which the next start removes.
* A crash between creation and write of a key file leaves one that every later start
  refuses (`main.go:842`, `verify_key_windows.go:53`): the exception in `KeyFileSound`.
* Error or throttling counts above the largest `int` divided by 20 or 5 wrap around in
  the penalty (`assessment.go:111`, `124`): the exception in `IndexIsHonest`.
* The installer removes `verify.key` from `security\state` (`deploy/windows/HWControl.wxs:89`),
  while the bridge keeps it in `security` (`verify_key_windows.go:26`), so the key stays;
  `SECURITY.md:86` says the MSI refreshes it together with the inventory.
* The power rollback can overwrite another actor's choice made between its last
  look and its set; the comment at `power_mode_linux.go:139` says "Never".
* A loudness refresh that has begun publishes after a lost frame suppressed the
  values (`audio_device_host.cpp:112` against the comment at 164), and its value stays until the
  next loss or session: the exception in `SuppressedAfterLoss`.
* A device lost between `ma_device_start` and the store to `isRunning`
  (`audio_device_host.cpp:389`) is reported as running for good;
  `docs/AUDIO-CONTROLLER-STUDIO.md:39` says the notification clears it.
* A failed fan command is not repeated at a steady temperature
  (`fan_curve.dart:183` against the comment at 146): the exception in `RiseIsAnswered`.
* Game Mode may lower a channel that the poll's status had at full speed, and the
  emergency of the same poll then skips it (`main.dart:1246`); the next poll mends it.
* After a partly applied game profile whose rollback failed as well, the game's own
  values are stored as those to restore (`main.dart:1160`).
* Overlapping saves share `.tmp` and `.old` and can leave no readable file; after a
  crash between the renames a start reads neither (`user_data_store.dart:103`, `113`).
  The dashboard does not wait for a save before it begins the next (`main.dart:845`, `856`,
  `3998`). `user_data` lets saves overlap; overlap since the last good save is the exception
  in `CopyExists`, and `SuccessIsStored` speaks of saves that met no other. `CopyExists` says
  a copy is on the disk, not that the start finds it.
* A `verify.state` removed while the bridge runs, by whoever may write there, makes the next
  periodic check take the tree as it is for the new baseline and pass
  (`verify_integrity.go:243`): `RemoveState` may happen at any time, and `DeviationStops`
  speaks of deviations from a state that is there.

## 8. Not modelled

* Float rounding, DSP, FFT; formatting, wording, logging, redaction.
* Weaker than sequentially consistent orders of the audio atomics.
* Windows' rename semantics (the panic file), Go panics and their recovery.
* A wall clock set back under `DateTime.now()` in the curve controller.
* The dashboard's single-fan path for a bridge without channels, which no shipped
  backend takes; fan backends of Windows and macOS, which only refuse.
* The `ui.ini` import of the store; the one-shot `--json` enumeration of the probe.
* The capability table and status texts of the health snapshot; checkpoints and
  interrogation replies to the service manager; the directory checks of `listenBridge`, a
  link or another file at the socket's path, which it refuses, and the loopback port of
  `HWCONTROL_TCP_COMPAT`, which behaves as the Windows one.
* Starts the probe refuses for their arguments: the bridge sends none of them.
* Writing `verify.state` through a temporary file is one step: the rename is atomic and
  the name is unique, so only the file before or after it can be seen.
* The bridge's game session and sensor history: values for display behind a mutex.
* Everything `PROJECT.json` lists as `not_modelled`.
