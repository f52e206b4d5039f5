# FreshCoreNative: a TLA+ verification project

FreshCoreNative is a root daemon for Android that removes application caches
while the device is unused. This directory holds TLA+ models of its core, the
TLC configurations that check them, and TLAPS proofs. Paths below are relative
to the repository root.

## 1. The system

### Components

| Component (source) | State it keeps | Operations | What makes it correct |
|---|---|---|---|
| Scheduler (`core/scheduler.cpp`) | `g_running`, a one-shot timerfd | `RunScheduler`, `SetTimer`, `SignalHandler` | it never sleeps for ever; a stop signal is obeyed |
| Decision engine (`core/decision_engine.cpp`) | `g_current_state` | `EvaluateAndTransition`, `PerformMaintenance` | maintenance starts only when allowed, is always left and recurs |
| Idle detector (`power/idle_detector.cpp`) | `g_screen_off_time` | `EvaluateIdleState` | the delay is really a delay without use |
| Screen and activity sensors (`android/power_state.cpp`, `activity_state.cpp`) | cached backlight node | `IsScreenOn`, `IsHeavyForegroundActivity` | an unreadable node is not mistaken for a dark screen |
| Hardware gates (`power/battery_monitor.cpp`, `thermal_monitor.cpp`, `memory/psi_monitor.cpp`) | detected nodes | `IsBatterySafe`, `IsThermalSafe`, `IsMemoryPressureSafe` | no hot zone is overlooked in either unit; a failed detection is not held against the device for ever |
| System tweaks (`system/system_tweaks.cpp`) | none; the doze mode of the device | `OptimizeDoze`, `WakeFromDoze`, `ApplyBootTweaks` | a forced doze is released |
| Microphone fixer (`audio/mic_fixer.cpp`) | `g_running`, `stream_count`, `active`, `pre_init`, a thread | `StartPolling`, `StopPolling`, two loops | the line is not left muted; one routing per first stream; stop joins |
| Package history (`cache/state_storage.cpp`) | `g_states`, `state.bin`, `state.tmp` | load, get, update, `SaveStateAtomic` | the file is always whole; history survives |
| Cache cleaner (`cache/cache_cleaner.cpp`) | the recursion's batches | `CleanDirectorySafely`, `RunSystemMaintenanceSweeps`, `RemoveRecursiveBatched` | it stops when the device wakes; what is recorded as clean is clean |
| Diagnostics (`diagnostics/diagnostics.cpp`) | totals of bytes and files | `StartBatch`, `EndBatch` | the quota counts everything a run removes and stops that run |
| Cache analyzer (`cache/cache_analyzer.cpp`) | writes the package history | `AnalyzeCaches` | the cooldown is kept, and still every due cache is cleaned in the end |
| Path policy, scanner (`cache/cache_policy.cpp`, `package_scanner.cpp`, `android/package_manager.cpp`) | none | which directories are candidates | nothing outside an application's cache is one |
| Configuration (`config/config.cpp`) | `g_config` | parse once at start | ranges of its values |
| Logger (`logging/logger.cpp`) | file, level, mutex | `Initialize`, `Log`, `Shutdown` | no use of a closed file, no lost line, bounded size |
| main (`core/main.cpp`) | none | starts and stops everything | order of start and stop |

`memory_monitor`, `zram_monitor`, `storage_monitor` and `binder_interface` are
called by nothing in the daemon. The scripts in `module/` install it.

### Interaction

`main` reads the configuration, starts the microphone fixer's thread and runs
the scheduler in the main thread. Each timer expiry calls
`EvaluateAndTransition`, which calls the idle detector; in `DEEP_IDLE` it calls
`PerformMaintenance`, which runs the sweeps, the scan, the analyzer and the
cleaner in the same thread, and each of these reads the screen again before
every larger step. The analyzer and the cleaner update the package history and
save it. Doze commands are started in background shells. The two threads share
only the logger and the signal mask; a signal may be delivered to either.

### What is hard

* The screen, the gates and the applications change between any two steps of a
  maintenance run; `IsScreenOn` read directly and `EvaluateIdleState` differ in
  what they do to the idle clock.
* The timer is one-shot, a signal may miss the wait, and every exit of an
  evaluation has to lead back to `SetTimer`.
* Two states of the engine act on a gate verdict several minutes old.
* inotify merges equal events and drops them when its queue is full; polling
  sees transitions of the audio mode that never happened.
* The process may be killed, and power lost, between two calls of a save.
* A recursive removal races the applications that own the files.
* Directories of one package share the history that decides about each of them,
  and the wall clock it is measured with may be set back.
* Sensor nodes appear late, disappear or cannot be read, and some are looked for
  only once.
* Two threads write one log that is closed, renamed and reopened under them.

`PROJECT.json` lists these at their lines under `hazards`.

## 2. The modules

| Module | Models | Checked by |
|---|---|---|
| `Engine` | scheduler, decision engine, idle clock, doze commands, one main thread with a program counter | `engine`, `engine_doze` |
| `IdleDetector` | `EvaluateIdleState` with the screen, battery, thermal and memory sensors and what each remembers | `idle_detector` |
| `MicFixer` | the audio thread, the inotify queue, the audio mode | `mic_fixer`, `mic_fixer_muted_call` |
| `AtomicStore` | abstract: a table replaced on disk in one step | refined by `StateStorage` |
| `StateStorage` | the package history, its two files, kills and power losses | `state_storage`, `state_storage_disk_full`, `state_storage_restart` |
| `Analyzer` | scan, analysis and the loop over the targets, run after run | `analyzer` |
| `Cleaner` | the removal recursion, its two callers, batches and quota, over several runs | `cleaner`, `cleaner_quota_per_run` |
| `Daemon` | `main`, the two threads and the logger they share | `daemon` |
| `EngineProofs`, `IdleDetectorProofs`, `MicFixerProofs`, `StateStorageProofs`, `AnalyzerProofs`, `CleanerProofs`, `DaemonProofs` | theorems about the module each is named after | tlapm |
| `MCEngine`, `MCIdleDetector`, `MCMicFixer`, `MCStateStorage`, `MCAnalyzer`, `MCCleaner`, `MCDaemon` | instances for TLC | |

The modules meet where one leaves out what another models: `Engine` reduces the
gates to one Boolean (`IdleDetector` opens it) and the cleaning to its checks
(`Cleaner`); `Analyzer` cleans a directory in one step (`Cleaner`) and keeps the
history in memory (`StateStorage`); `Daemon` reduces the loops of the two threads
to logging and returning (`Engine`, `MicFixer`).

A definition named "Mutant of X" is X with a plausible mistake in it. It is used
by no specification; `PROJECT.json` pairs it with the property that notices it.

### Engine

`pc` is the main thread's position: `loop`, `epoll`, `eval`, `gates` and `arm`
in `RunScheduler`/`EvaluateAndTransition`, and `fstrim`, `paths`, `children`,
`swept`, `scan`, `targets`, `clean` inside `PerformMaintenance`. `offAge` is the
age of `g_screen_off_time` (`NotTracked` for zero) and `timer` the time left on
the timerfd (0: readable, `Disarmed` after it was read). `left` and `inner` count
what is left of the current loop and of the current directory. The sweeps, the
scan and the cleaning are reduced to the checks they make and what each may
decide; `Cleaner` models what they do to files. `safe` is the conjunction of the
battery, thermal and memory gates that `IdleDetector` models. `quiet`, `lateEvals` and
`gateAge` are history variables: the time since the daemon last found the device in
use (an evaluation that answers `NOT_IDLE`, or a check that aborts a run), the
evaluations begun after the stop signal, and the evaluations begun since one passed
every gate (`NeverPassed` after more than two, after one that found the device in
use, and once a run has started). No action reads them.

### IdleDetector

The device is its screen (`lit`), whether the backlight node, `dumpsys` and the
battery's capacity node (`supply`) answer, the charge, whether the status node says
that the battery is charging, which is read on its own, and for each thermal zone a
reading, `Unreadable` (the node opens) or `Missing` (it does not). `g_backlight_path`,
`g_battery_path` and `g_thermal_zones` are what the daemon remembers: the screen
node is looked for once (`DetectScreenNode`), the battery node until it is found,
the zones while none was. `EvaluateOn`, `EvaluateTooEarly` and `EvaluateGates`
are the three ways through `EvaluateIdleState`; the gates are tried in the code's
order, so a battery gate that fails leaves the zones undetected. `Degrees` guesses the
unit of a reading as the code does, while `Unit` is the unit it really has. `Fit`
is said of the device alone, never of what the daemon remembers: dark with a sensor
that says so, a sufficient battery, every zone it has readable and within the limit.
`litAge` and `steady` are history variables.

### MicFixer

One thread runs either `AlsaInotifyLoop` or `PollLoop`, chosen at start.
`queue` is the kernel's event queue, in which an event equal to the last one may
be merged with it and which overflows at `QueueCap`; `batch` is what one `read` returned. `lost` records that
the events no longer determine which streams are open. The mixer is its mute
switch, set by `ApplyPreInit` and cleared by `ApplyMicFix`; it may refuse either
command, and the code only logs that. Two history variables say what muted the line
last (`mutedBy`: a routing, a ring, or a ring sampled while `active`) and whether
the last attempt to unmute it was refused (`refused`). A `dumpsys` that times
out returns an empty answer, which takes the last branch of `PollLoop`.

### StateStorage and AtomicStore

A file is missing, torn or whole. `SaveStateAtomic` is five steps (open with
truncation, write, fsync, rename, or a failed rename); `durable` is the set of
contents a power loss could leave as `state.bin`: the directory is never synced,
so a rename adds a possibility, and `Writeback` by the kernel removes the older
ones. `StartDaemon` is what `main` does (nothing is loaded),
`InitializeStateStorage` what the test program does. The refinement mapping takes
the whole table in `bin` for the stored one; the abstract `Save` is the rename and
every other call of the save stutters.

### Analyzer

`Scan` is the loop over `ScanPackageCache`, `NotScanned` and `AnalyzeDir` the rounds of the loop in
`AnalyzeCaches` (`InCooldown`, `Growth`, `Priority`, `ShouldCleanCache` are its
tests), `Analyzed` the save and the sort, and `CleanTarget`, `Vanished` and
`Aborted` the outcomes of `CleanDirectorySafely` for a target of the highest
priority. A clean may leave any part of a directory, since failed removals are
passed over, and records it as empty all the same. `g_total_bytes_freed_run` counts
what the sweeps and the cleans of all runs have freed; nothing resets it. The times of the history are kept as ages, so that a clock set back
(`ClockSetBack`) makes them smaller or negative and the zero of a fresh entry is
`EpochAge`. A package stands for an entry of the table: directories of one
package share it, and so do packages whose 32-bit hashes are equal. `Stuck`
directories hold a plain file, on which the recursion fails. `Bulky` ones fill a
batch whenever they are due, and are refused once the total is above the quota; the
others never fill one. (A refused directory has lost a batch of files each time, so
one that is not written to gets small in the end; the model assumes the worse case
of one that is refilled.) `dirAge` is a history
variable: how long ago this process really cleaned each directory.

### Cleaner

`StartRun` is a call of `PerformMaintenance`, `Begin` the next directory it sweeps
or, once it is through with that, cleans; a clean that returns false ends the run
(`over`). The recursion is an explicit stack of frames, each with the children
listed once when it was entered. `TakeTop` is an iteration of the caller's loop,
`IdleCheck` the check before each child, `RemoveFile`, `SkipChild` and `Descend`
what follows it, `BatchCheck` the test for a full batch after each child, whatever
became of it, `RemoveDirectory` the end of a frame. Applications create and delete
entries (`AppWrites`) as often as they like, and the screen toggles, between any two
steps. A refusal of `EndBatch` for memory use may happen at any full batch. The
history variables `base`, `removed` and `aborted` belong to the current run. `Pending` counts what the
frames have freed since their last batch ended (`Units`: one pair of frame and
number per unit). `taken` is a history variable: the paths this clean or
sweep has handled so far.

### Daemon

`main` is the position in `main.cpp`: `stat`, `unlink` and `open` inside the
logger's `Initialize`, `boot` until the configuration is read, `schedule`, `stop`,
`join`, `shutdown`, and `exit` between the logger's `Shutdown` and the end of the
process. `at` is where each thread is in `Log`: `Enter` takes the
mutex and returns without a file, `CheckSize` closes a file that is too large,
`Rename`, `Reopen` and `Write` follow. The report and the rotated one are sequences
of line numbers. `Kill` may strike at any step; `Signal` is SIGTERM or SIGINT after
the handlers are installed. `Day` ages the report, which `StatReport` and
`UnlinkOld` delete with the rotated one; either unlink may fail. `cut` is a history
variable: such a purge removed the report and not the rotated one.

## 3. The runs

Passing runs:

* **engine** (about 236,000 states). The loop never waits on a disarmed timer
  (`NeverSleepsForever`). `MAINTENANCE` is the state exactly while
  `PerformMaintenance` runs, and `ERROR_BACKOFF` is never reached
  (`MaintenanceAlwaysLeft`). At most one evaluation begins after the signal
  (`StopsAfterOneEvaluation`) and the loop ends (`StopIsObeyed`). Maintenance
  starts only after a delay in which the daemon did not find the device in use
  (`StartsOnlyAfterQuiet`), at most two evaluations after one that passed every gate,
  and never on a verdict an earlier run relied on (`GatesPassedRecently`); and on a device that stays dark and healthy it recurs
  (`MaintenanceRecurs`). A forced doze is released once the screen is on, in
  every state but `ACTIVE` (`WakesFromDozeUnlessActive`).
* **idle_detector** (about 304,000). A device that was lit at an evaluation within
  the delay is no candidate, whichever sensor answered (`CandidateWasDark`). A zone
  that could be read from the start and is a degree too hot, in either unit, defers
  maintenance (`CandidateIsCool`). `ServesFit` says what one evaluation owes to a fit
  device, exactly: its idle clock runs on unless the screen node was missed at its
  only detection and `dumpsys` gives no answer either; after the delay it is a
  candidate unless a zone below one degree has its millidegrees taken for degrees.
  But for these two, a device that stays fit becomes a candidate and stays one,
  whatever failed before (`NotBlindForEver`).
* **mic_fixer** (about 198,000). Between rounds the line is muted, unless the mixer
  refused to unmute it, only by a ring that was sampled: one that no routed call has
  followed, or one sampled while an earlier call still counted as active
  (`MutedOnlyForRing`). While no event is lost, the count equals the open streams
  (`CountConserved`) and the routing runs exactly for the first of them
  (`RoutesExactlyFirst`, `FirstStreamRouted`). A call that finds the loop inactive is
  unmuted despite time-outs, or the mixer refuses (`NewCallUnmuted`); a stop joins
  (`StopJoins`).
* **state_storage** (about 4,000). No kill and no power loss leaves a torn state
  file (`BinNeverTorn`), and the save implements `AtomicStore`
  (`ImplementsAtomicStore`).
* **analyzer** (about 281,000). A directory that was cleaned becomes a target again
  only after the cooldown, unless the rate known before was massive or the clock
  was set back (`CooldownKept`). One that is due is passed over only because a
  directory of its package was cleaned within the cooldown
  (`PassedOverOnlyIfRecent`). Every due directory gets below the threshold in the end
  (`DueIsCleaned`), provided that from some time on no directory the code gives up on
  is due: one with a plain file, or one with full batches that the rest of the quota
  does not cover. A run is given up at such a directory, and lower priorities never
  get their turn.
* **cleaner** (about 1,032,000). After the screen turns on at most one more file
  goes (`AtMostOneFileAfterWake`). A directory recorded as clean was left by no
  failed check and, if only the daemon touched it and no removal failed, is empty
  (`RecordedMeansEmptied`). Everything a run unlinks is counted until one of its
  recursions is aborted (`RemovalsCounted`, against the total at the start of the
  run). No path is taken twice by one clean, although applications put back what was
  removed (`NothingTakenTwice`), and every clean ends although they go on doing so
  for ever (`CleanEnds`).
* **daemon** (about 87,000). No thread uses a closed report (`NoUseAfterClose`); no
  line is dropped unless the report cannot be opened (`NoLineDropped`); the two
  files hold consecutive lines up to the last one, except after a purge that removed
  the report and, killed or failing, not the rotated one (`ReportIsContiguous`), and
  stay bounded unless a rename fails (`ReportIsBounded`). A signal ends the daemon (`SignalEndsDaemon`).

Runs that show a disagreement between the code and what the repository says of it:

* **engine_doze**: the doze forced at the end of a run stays in force while the
  screen is on and found on, since the run ends in `ACTIVE` and only other states
  call `WakeFromDoze`; it is released when the screen has been found off and then on
  once more. The repository's README promises an `unforce` when the display turns on.
* **mic_fixer_muted_call**: a ring sampled while the previous call still counts
  as active mutes the line, and the next call finds nothing to do.
* **state_storage_disk_full**: a failed write is not noticed and a torn file is
  renamed over the good one.
* **state_storage_restart**: nothing loads the stored history, and the first save
  after a start deletes it.
* **cleaner_quota_per_run**: a run that has removed less than the maximum is refused
  with "Reached max cleanup MB for this run", because the total is that of all runs
  since the process started.

Limits of what the passing runs say, each in the model and visible when the
condition is dropped from the property. Some of them disagree with the repository's
own words as well:

* with an idle delay above 41.5 minutes (`IdleDelay = 10` here) an abort by a direct
  `IsScreenOn` leaves the idle clock running, and the next run starts early;
* only `SCREEN_OFF` waits for every gate: when the screen turns on after an
  evaluation has read it dark, or a gate fails, `IDLE_CANDIDATE` and `DEEP_IDLE` go
  on, so a run may start on a device just picked up, and is stopped by its own
  checks, or with a gate that fails at that moment, although `README.md:38` says that
  the gates are verified before the disk is touched;
* when the count has missed a stream (opened before the watch, or merged), the
  open of a second one starts the muting route;
* once the quota of the process is used up, directories with full batches are
  aborted at every attempt until it is restarted;
* the verdict of a directory's last batch is ignored, and the sweeps ignore every one,
  so a run goes on unlinking after `EndBatch` was to "Stop further batches"
  (`diagnostics.cpp:74`);
* what could not be removed is recorded as clean, and waits for the cooldown;
* thermal zones that appear after the first detection are not watched, and a device
  none of whose zones can be read passes the thermal gate, although
  `thermal_monitor.cpp:43` finds it safer to defer when the temperature is unknown;
* growth is measured against the size of whichever directory of the entry was
  scanned last, so two directories of different size look like growth; and where
  one of them was just cleaned, the others wait for the cooldown;
* the report is deleted by the age of its last line and at a start only, when that
  is three days old (`logger.cpp:35-40`); `README.md:69` and `102` say seven days.

### Bounds

* Engine: intervals keep the order of the real ones (active > screen off > deep
  idle), and `IdleDelay = 9` is exactly `AbortSec + ActiveSec + 2 * ScreenOffSec +
  DeepIdleSec`, the largest value for which `StartsOnlyAfterQuiet` holds. The
  violation run uses 3 to be short. The clock values saturate at `IdleDelay`,
  beyond which nothing compares them. Two swept paths, one package, one target and
  one inner check let every loop end normally, be left early, and be entered again.
* IdleDetector: one zone in degrees and one in millidegrees, each on both sides of
  the limit, the second also below a thousand, where its unit is misjudged. A
  charge at and one above the minimum, charging or not. The delay is one unit: ages are
  compared with it only.
* MicFixer: three streams are the fewest with a second and a third open while the
  first is closed; a queue of four and a buffer of two make both a full queue and
  a partial read happen. `MaxCount` stops the drift of the count after merged closes.
* StateStorage: two keys tell "one entry replaced" from "the table replaced"; one
  value is enough because entries are opaque.
* Cleaner: the tree below the root has three levels and two branches; every
  assignment of absent, file or directory to it is an initial state. A batch of
  two files and a quota of two units make a batch end both inside and at the end
  of a directory. Two directories are taken, in one run or in two, as sweeps or as
  cleans: the second shows the total that is never reset. Writes are not
  bounded.
* Analyzer: one package with the three directories the scanner looks for, the
  external one stuck, which makes them share an entry and fall behind one
  another. Sizes 0 to 2 and a threshold of 1 give three priorities with the growth
  bonus; `Massive = 2` is reached by growth within a day. A quota of one unit and
  one bulky directory make it be cleaned and, later, be refused. Ages saturate at the
  cooldown, and one setback of the clock makes them negative.
* Daemon: files of at most two lines before a rotation, six lines and three starts,
  so that a second rotation replaces the first and a report ages between starts.
  Ages go one day beyond the one at which a start purges.

Deadlock is checked except for MicFixer, whose thread really stops and is joined,
and for Daemon, whose starts are bounded.

### Fairness

* Engine: weak fairness of the main thread (it is scheduled), of `Tick` (time
  passes) and of `RunCommand` (dumpsys ends); strong fairness of `ReadTimer`,
  because the read of a readable timerfd may fail but not for ever. None of the
  screen, the gates, the signal or an epoll error.
* MicFixer: weak fairness of the thread and of the join, strong fairness of
  `Sample` (a `dumpsys` that times out at every sample would hide every call).
  None of the environment or of `StopPolling`.
* IdleDetector: weak fairness of the evaluation (the scheduler repeats it, shown
  for Engine) and of time. None of the device.
* Analyzer: weak fairness of the daemon and of time, strong fairness of `Scan` and
  of a clean that brings a directory below the threshold, where the code does not
  itself give up on it (`Stuck`, `Blocked`): a device that is woken, or on which
  removals fail, at every attempt is never cleaned, and the code promises no more.
* Daemon: weak fairness of both threads. None of logging, signals or starts.
* Cleaner: weak fairness of the cleaning thread only, none of the applications or
  of the start of a run.
* StateStorage: none; its properties are safety properties.

## 4. The proofs

For every value of the constants that satisfies the modules' assumptions:

* `ControlInvariant`: `ControlInv` is inductive. It joins the checked invariants
  with four facts they need. `LoopCounts`: a loop body that runs has an iteration
  left, so the counters stay natural. `LateEvalsInv`: inside the wait no
  late evaluation has been counted yet, because the flag is tested before every
  wait. `DelayPassedInv`: in `IDLE_CANDIDATE`, `DEEP_IDLE` and at the gates the
  clock has run for the whole delay. `GateInv`: the two states that look at no gate
  are entered from an evaluation that did, and each is left by the next one.
  `TypeCorrect`, `LoopNeverSleepsForever`, `MaintenanceLeft`, `OneLateEvaluation` and
  `RecentGates` follow.
* `QuietBeforeMaintenance`: under `DelayCovered` (the intervals from `ABORTING`
  back to `MAINTENANCE` add up to the idle delay; with the defaults,
  `idle_delay_minutes <= 41`) maintenance starts only after a quiet delay. The
  idle clock alone does not give this, since an abort leaves it running.
  `QuietInv` says that either the clock is honest (`Fresh`) or the quiet time so
  far plus the least time still ahead (`Ahead`: the timer and the intervals of
  the states to pass, `Rest`) covers the delay.
* `SaveInvariant`, `StorageTypeCorrect`, `NeverTorn`: if writes do not fail, no
  possible content of the state file is torn. The invariant ties the temporary
  file to the position in the save (`TmpInv`): written before `sync`, written and
  synced before `rename`.
* `Refinement`: under the same condition `StateStorage` implements `AtomicStore`.
* `DetectorInvariant`: a running idle clock is never older than the last lit
  evaluation (`ClockInv`), because a lit device is seen as lit by whichever sensor
  answers; zones readable from the start are among the detected ones
  (`SteadyInv`), because the first detection with any zone finds them all.
  `DetectorTypeCorrect`, `DarkBeforeCandidate` and `CoolBeforeCandidate` follow, the
  last for every reading below a thousand degrees in either unit.
* `FitIsServed`: every evaluation has the property `ServesFit`, for every set of
  zones, units and readings. `CoolExactly` is the arithmetic behind it: a zone within
  the limit in its own unit passes the code's comparison exactly when it is not
  misread. This is the step on which `NotBlindForEver` rests.
* `MicTypeCorrect`, `MuteIsForRing`: the invariant (`LoopInv`, `MuteInv`) says
  which of the two loops a position belongs to, that a line muted by a routing is
  unmuted, or refused, before the round ends, and that one muted by a ring sampled
  while inactive is not yet followed by a call, since a call makes the loop active
  and goes through the routing.
* `CountInvariant`, `CountIsConserved`, `RoutesFirstOnly`: for every size of the queue
  and of the read buffer, while no event was merged, dropped or missed. The sum alone
  (`CountConserved`) is not inductive: `IN_CLOSE` ignores a close at count zero, and
  nothing in the sum excludes that the next unread event is one. `LevelInv` says that
  some function of the unread events (the level before each) leads from
  `stream_count` to the streams that are open, never below zero, and that an event is
  marked `first` exactly where the level is zero. So a close never meets a
  count of zero, and the routing runs at the first streams only. `BatchInv` places
  the events that were read and not handled. How the number of events of a kind
  changes when one is appended or handled (`CountAppend`, `CountTail`) is proved with
  bijections between the sets of their places.
* `CleanerTypeCorrect`, `OneFileAfterWake`, `RecordedIsEmpty`: for every tree.
  `StackInv` ties the frames to the position; `WakeInv`: a file is unlinked in
  a lit room only by the one step after a check; `CleanedInv`: what is left in
  the directory is still to be taken or is the outermost frame, and no check and no
  removal has failed, so that an empty list at the end means an empty directory.
* `EveryRemovalCounted`: for every tree, batch size and quota, what a run
  has unlinked is what the total has grown by since the run began plus what the frames
  have pending, until one of its recursions is aborted.
  `CountedInv` adds that the pending units are finite, without which their
  cardinality would be no number; `UnitsSplit` and `TopUnitsAdd` say what the top
  frame contributes.
* `TakenInvariant`, `TakenOnce`: no path is taken twice by one clean or sweep. What the
  outer loop and the frames have left lies in their directory and was not taken
  (`TopInv`, `FramesInv`), a path is taken after the directory it lies in
  (`TreeInv`), and a child about to be entered has no frame and nothing below it was
  taken (`ChildInv`): a directory is therefore listed once. The proof does not
  assume that the tree is acyclic. This is why `CleanEnds` can hold while
  applications keep writing.
* `AnalyzerTypeCorrect`, `CooldownIsKept`: for every set of packages and
  directories. `AgeInv`: while the clock was not set back, the recorded age of an
  entry is at most the true age of each directory cleaned within the cooldown, and
  positive when an analysis begins (the code tests it against zero). That it may be
  smaller is what sharing an entry means.
* `OnlyRecentPassedOver` needs the converse, `RecentInv`: an entry younger than the
  cooldown is at least as old as some directory of its package, so a due directory
  that is passed over has a sibling that really was cleaned.
* `LogInvariant`: the mutex has one holder (`MutexInv`), the file is open for it
  except between the two steps of a rotation (`HandleInv`), the threads that may
  log run only while main has not shut the logger down (`ThreadInv`), and a file
  about to be written is below the rotation size (`SizeInv`). `DaemonTypeCorrect`,
  `ReportOpenWhenUsed`, `LinesKept` and `ReportBounded` follow.
* `ReportContiguous`: `OrderInv` speaks of the two files apart (each consecutive, the
  report ending with the last line, the rotated one where the report begins) and
  of the window between the two unlinks, in which the rotated file is older; `cut`
  records that the window was left with that file still there.

The condition on failing writes is needed: `state_storage_disk_full` is its
counterexample. `DelayCovered` is needed too: with `IdleDelay = 10` TLC refutes
`StartsOnlyAfterQuiet`.

Only model-checked: the liveness properties `StopIsObeyed`, `MaintenanceRecurs`,
`WakesFromDozeUnlessActive`, `NotBlindForEver`, `FirstStreamRouted`,
`NewCallUnmuted`, `StopJoins`, `DueIsCleaned`, `CleanEnds` and `SignalEndsDaemon`
(fairness and `ENABLED` are beyond the prover), and the five runs that end in a
counterexample.

## 5. Assumptions of the models

* The scheduler's intervals are positive; they have no configuration key.
  Negative configuration values are excluded, except for `max_files_per_batch`.
* A doze command ends within one unit of model time (a real unit is about half
  a minute; `dumpsys` gives up after ten seconds).
* The two mute controls of the mixer are one switch: they are refused together.
* A torn state file is recognised by its header, length or byte sum.
* The wall clock is set back at most once, between runs; the analysis uses the
  one time it read at its start.
* The backlight and battery nodes, where they can be opened, can be read; thermal
  zones tell the two apart. No zone is hotter than a thousand degrees. In
  `IdleDetector` an evaluation is one step; `Engine` interleaves its parts with the
  screen.
* Writing a line does not fail, and nobody else deletes the log.
* A removed file counts one unit of the quota. In `Analyzer` a directory either
  fills a batch whenever it is due (`Bulky`) or never does.

## 6. What is not modelled, and the plan

Not modelled:

* the path policy's canonicalisation and the parsing of `packages.list`: string
  functions without state; their result is the list of candidates in `Analyzer`;
* parsing of the configuration: its values are constants of the modules;
* the text of `dumpsys` beyond what it decides, and the wording of logs;
* `fstrim` itself and `ApplyBootTweaks`, which writes constants once;
* the monitors nothing calls, and the installation scripts.

Remaining work, in order:

1. `IdleDetector` in place of `safe` in `Engine`, with the evaluation's parts
   interleaved with the sensors.
2. A path policy over abstract paths (components, links, `..`), with "nothing outside
   an application's cache is accepted" as the question.
3. Safety steps behind the other liveness properties, as `TakenOnce` and `FitIsServed`
   are: for `StopJoins` and `SignalEndsDaemon`, that no step taken after the stop
   leads back to a wait.
