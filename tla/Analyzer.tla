------------------------------ MODULE Analyzer ------------------------------
(***************************************************************************)
(* Which caches are cleaned, and when: ScanPackageCache                    *)
(* (cache/package_scanner.cpp), AnalyzeCaches (cache/cache_analyzer.cpp)   *)
(* and the loop over its targets in PerformMaintenance, run after run, on  *)
(* the package history they share.                                         *)
(*                                                                         *)
(* A package here is an entry of the history: packages whose names have    *)
(* the same 32-bit hash share one, like the directories of one package.    *)
(* Times of the history are kept as ages, the current time minus the       *)
(* recorded one: negative after the clock was set back, EpochAge where     *)
(* nothing was recorded.  Sizes and rates are counted in units.  What      *)
(* cleaning does to the files is module Cleaner's, how the history is      *)
(* saved module StateStorage's; here a run may end between any two targets. *)
(***************************************************************************)
EXTENDS Integers, Sequences

CONSTANTS
  Packages,
  SystemApps,   \* packages with a uid below 10000
  Order,        \* the candidates ScanPackageCache looks at, in its order
  Owner,        \* function: the package of each of them
  External,     \* those of them under /sdcard
  Stuck,        \* directories whose cleaning fails: they hold a plain file
  Bulky,        \* directories that fill a batch whenever they are due
  Quota,        \* max_cleanup_mb_per_run
  include_user_apps, include_system_apps, include_external_cache,
  Threshold,    \* cache_threshold_mb
  Large, Huge,  \* 500 MB and 1 GB
  Fast,         \* 250 MB per day
  Massive,      \* 500 MB per day
  Width,        \* 2^32, the range of growth_rate_bytes_per_day
  Cooldown,     \* MIN_CLEANUP_INTERVAL_MS
  Day,
  EpochAge,     \* age of the zero in a fresh PackageState
  MaxAge,       \* bound: ages saturate here
  MaxSize,      \* bound: size of a directory
  Setback       \* how far the clock may be set back, once

Dirs == {Order[i] : i \in 1..Len(Order)}

\* Decades lie between the epoch and now: the rate computed from a fresh
\* entry is zero.  A saturated age is past the cooldown.
ASSUME AnalyzerAssumption ==
  /\ Order \in Seq(Dirs) /\ Owner \in [Dirs -> Packages] /\ Stuck \subseteq Dirs
  /\ Bulky \subseteq Dirs /\ Quota \in Nat
  /\ SystemApps \subseteq Packages /\ External \subseteq Dirs
  /\ include_user_apps \in BOOLEAN /\ include_system_apps \in BOOLEAN
  /\ include_external_cache \in BOOLEAN
  /\ Threshold \in Nat \ {0} /\ Large \in Nat /\ Huge \in Nat /\ Fast \in Nat
  /\ Massive \in Nat \ {0} /\ Width \in Nat \ {0}
  /\ Cooldown \in Nat \ {0} /\ Day \in Nat \ {0} /\ MaxSize \in Nat
  /\ MaxAge \in Nat /\ MaxAge >= Cooldown
  /\ EpochAge \in Nat /\ EpochAge > MaxAge /\ EpochAge \div Day > MaxSize
  /\ Setback \in Nat

VARIABLES
  pc,         \* "wait", "ready", "analyze" or "clean"
  next,       \* index of the directory to be analyzed
  targets,    \* the targets not yet cleaned
  g_states,   \* the package history
  size,       \* what each directory holds now; Absent if there is none
  g_total_bytes_freed_run,  \* since the process started, up to Quota + 1
  \* History variables, read by no action.
  stepped,    \* the clock was set back
  dirAge      \* time since this process cleaned each directory, up to Cooldown

vars == <<pc, next, targets, g_states, size, g_total_bytes_freed_run, stepped, dirAge>>

PackageState == [last_scan : Int, last_cleanup : Int, last_size : Nat, growth : Nat]
Fresh == [last_scan |-> EpochAge, last_cleanup |-> EpochAge, last_size |-> 0, growth |-> 0]
Absent == -1
Target == [dir : Dirs, priority : 1..4]

\* EndBatch adds up what was freed; nothing resets the total.
Counted(bytes) ==
  LET total == g_total_bytes_freed_run + bytes IN IF total > Quota THEN Quota + 1 ELSE total

Older(age) == IF age >= MaxAge THEN age ELSE age + 1

-----------------------------------------------------------------------------
\* Mutant of InCooldown: the time of the last scan is compared.
InCooldownSinceScan(state) ==
  state.last_scan > 0 /\ state.last_scan < Cooldown /\ state.growth < Massive

\* Mutant of InCooldown: the cooldown is one unit short.
InCooldownShort(state) ==
  state.last_cleanup > 0 /\ state.last_cleanup < Cooldown - 1 /\ state.growth < Massive

\* "Check cooldown".
InCooldown(state) ==
  state.last_cleanup > 0 /\ state.last_cleanup < Cooldown /\ state.growth < Massive

\* time_diff_days of an age, and the growth rate after a measurement.
Days(age) == IF age > 0 THEN age \div Day ELSE 0
Growth(state, bytes) ==
  IF Days(state.last_scan) > 0 /\ bytes > state.last_size
    THEN ((bytes - state.last_size) \div Days(state.last_scan)) % Width
    ELSE state.growth

\* Mutant of Priority: a huge cache gets the bonus of a large one as well.
PriorityAdds(bytes, growth) ==
  1 + (IF bytes > Huge THEN 2 ELSE 0) + (IF bytes > Large THEN 1 ELSE 0)
    + (IF growth > Fast THEN 1 ELSE 0)

Priority(bytes, growth) ==
  1 + (IF bytes > Huge THEN 2 ELSE IF bytes > Large THEN 1 ELSE 0)
    + (IF growth > Fast THEN 1 ELSE 0)

\* Mutant of ShouldCleanCache: a cache of exactly the threshold is left alone.
ShouldCleanCacheStrict(bytes) == bytes > Threshold

ShouldCleanCache(bytes) == bytes >= Threshold

\* "Honor configuration values".
Included(dir) ==
  /\ IF Owner[dir] \in SystemApps THEN include_system_apps ELSE include_user_apps
  /\ dir \in External => include_external_cache

\* RunSystemMaintenanceSweeps: what the sweeps free is counted as well.
Sweep == g_total_bytes_freed_run' \in g_total_bytes_freed_run..(Quota + 1)

\* PerformMaintenance sweeps and scans the packages; a screen that is on ends
\* the run.
Scan ==
  /\ pc = "ready"
  /\ pc' = "analyze"
  /\ Sweep
  /\ UNCHANGED <<next, targets, g_states, size, stepped, dirAge>>

ScanAborted ==
  /\ pc = "ready"
  /\ pc' = "wait"
  /\ Sweep
  /\ UNCHANGED <<next, targets, g_states, size, stepped, dirAge>>

\* Directories that are excluded, or that lstat does not find to be a
\* directory, are not among scanned_dirs.
NotScanned ==
  /\ pc = "analyze"
  /\ next <= Len(Order)
  /\ ~Included(Order[next]) \/ size[Order[next]] = Absent
  /\ next' = next + 1
  /\ UNCHANGED <<pc, targets, g_states, size, g_total_bytes_freed_run, stepped, dirAge>>

\* CalculateCacheSize: a directory deleted since the scan measures zero.
Measured(dir) == IF size[dir] = Absent THEN 0 ELSE size[dir]

\* One round of the loop over scanned_dirs.
AnalyzeDir ==
  /\ pc = "analyze"
  /\ next <= Len(Order)
  /\ Included(Order[next])
  /\ next' = next + 1
  /\ LET dir    == Order[next]
         bytes  == Measured(dir)
         state  == g_states[Owner[dir]]
         growth == Growth(state, bytes) IN
       IF InCooldown(state)
         THEN UNCHANGED <<g_states, targets>>
         ELSE /\ g_states' = [g_states EXCEPT ![Owner[dir]] =
                    [@ EXCEPT !.last_scan = 0, !.last_size = bytes, !.growth = growth]]
              /\ targets' = IF ShouldCleanCache(bytes)
                   THEN targets \cup {[dir |-> dir, priority |-> Priority(bytes, growth)]}
                   ELSE targets
  /\ UNCHANGED <<pc, size, g_total_bytes_freed_run, stepped, dirAge>>

\* SaveStateAtomic and the sort; equal priorities may come in any order.
Analyzed ==
  /\ pc = "analyze"
  /\ next > Len(Order)
  /\ pc' = "clean"
  /\ next' = 1
  /\ UNCHANGED <<targets, g_states, size, g_total_bytes_freed_run, stepped, dirAge>>

\* The run ends and the scheduler's timer runs.
Wait == pc' = "wait" /\ targets' = {}

First(target) == \A other \in targets : other.priority <= target.priority

\* CleanDirectorySafely empties the directory, but for what could not be removed,
\* and records it as empty.  Once the quota is used up the first full batch is
\* refused, in this run and in every later one.
CleanTarget(target) ==
  /\ pc = "clean"
  /\ target \in targets /\ First(target)
  /\ target.dir \notin Stuck /\ size[target.dir] # Absent
  /\ target.dir \in Bulky => g_total_bytes_freed_run <= Quota
  /\ \E left \in 0..size[target.dir] :
       /\ size' = [size EXCEPT ![target.dir] = left]
       /\ g_total_bytes_freed_run' = Counted(size[target.dir] - left)
  /\ g_states' = [g_states EXCEPT ![Owner[target.dir]] =
        [@ EXCEPT !.last_cleanup = 0, !.last_size = 0]]
  /\ targets' = targets \ {target}
  /\ dirAge' = [dirAge EXCEPT ![target.dir] = 0]
  /\ UNCHANGED <<pc, next, stepped>>

\* GetDirectoryChildren fails: a directory that is gone counts as done and is
\* not recorded.
Vanished(target) ==
  /\ pc = "clean"
  /\ target \in targets /\ First(target)
  /\ size[target.dir] = Absent
  /\ targets' = targets \ {target}
  /\ UNCHANGED <<pc, next, g_states, size, g_total_bytes_freed_run, stepped, dirAge>>

\* The device wakes, a full batch is refused, or the directory cannot be
\* emptied: the whole run is given up with the directory partly deleted.  What
\* the frames that are left had not yet ended a batch with is not counted.
Aborted(target) ==
  /\ pc = "clean"
  /\ target \in targets /\ First(target)
  /\ size[target.dir] # Absent
  /\ \E bytes \in 0..size[target.dir] :
       /\ size' = [size EXCEPT ![target.dir] = bytes]
       /\ \E counted \in 0..(size[target.dir] - bytes) :
            g_total_bytes_freed_run' = Counted(counted)
  /\ Wait
  /\ UNCHANGED <<next, g_states, stepped, dirAge>>

Finished ==
  /\ pc = "clean"
  /\ targets = {}
  /\ Wait
  /\ UNCHANGED <<next, g_states, size, g_total_bytes_freed_run, stepped, dirAge>>

-----------------------------------------------------------------------------
Shift(Age(_)) ==
  g_states' = [p \in Packages |->
    [g_states[p] EXCEPT !.last_scan = Age(@), !.last_cleanup = Age(@)]]

\* An interval of the scheduler passes, or time during the cleaning.  The
\* analysis uses the one time it read at its start.
Tick ==
  /\ pc \in {"wait", "clean"}
  /\ pc' = IF pc = "wait" THEN "ready" ELSE pc
  /\ Shift(Older)
  /\ dirAge' = [d \in Dirs |-> IF dirAge[d] < Cooldown THEN dirAge[d] + 1 ELSE Cooldown]
  /\ UNCHANGED <<next, targets, size, g_total_bytes_freed_run, stepped>>

\* CLOCK_REALTIME is set back.
ClockSetBack ==
  /\ ~stepped /\ Setback > 0 /\ pc = "wait"
  /\ stepped' = TRUE
  /\ LET Back(age) == IF age = EpochAge THEN age ELSE age - Setback IN Shift(Back)
  /\ UNCHANGED <<pc, next, targets, size, g_total_bytes_freed_run, dirAge>>

\* An application fills, clears or removes its cache.  A write during the
\* run is equivalent to one before or after it: each directory is measured
\* once and emptied once.  A removal is not.
AppWrites ==
  /\ pc = "wait"
  /\ \E d \in Dirs, bytes \in Absent..MaxSize : size' = [size EXCEPT ![d] = bytes]
  /\ UNCHANGED <<pc, next, targets, g_states, g_total_bytes_freed_run, stepped, dirAge>>

AppRemoves ==
  /\ pc = "clean"
  /\ \E d \in Dirs : size' = [size EXCEPT ![d] = Absent]
  /\ UNCHANGED <<pc, next, targets, g_states, g_total_bytes_freed_run, stepped, dirAge>>

-----------------------------------------------------------------------------
Init ==
  /\ pc = "wait"
  /\ next = 1
  /\ targets = {}
  /\ g_states = [p \in Packages |-> Fresh]
  /\ size \in [Dirs -> Absent..MaxSize]
  /\ g_total_bytes_freed_run = 0
  /\ stepped = FALSE
  /\ dirAge = [d \in Dirs |-> Cooldown]

Due(d) == size[d] >= Threshold

\* The code itself gives up on d whenever it is due, or may: it holds a plain
\* file, or batches that what is left of the quota does not cover.
Blocked(d) == d \in Stuck \/ (d \in Bulky /\ g_total_bytes_freed_run + size[d] > Quota)

\* A clean of d that is not refused and whose removals do not fail.
CleanDir(d) ==
  /\ ~Blocked(d)
  /\ \E target \in targets : target.dir = d /\ CleanTarget(target)
  /\ size'[d] < Threshold

Clean == \E target \in targets : CleanTarget(target) \/ Vanished(target) \/ Aborted(target)
Daemon == Scan \/ ScanAborted \/ NotScanned \/ AnalyzeDir \/ Analyzed \/ Clean \/ Finished
Next == Daemon \/ Tick \/ ClockSetBack \/ AppWrites \/ AppRemoves

\* The daemon runs while the device is dark, time passes, and neither the scan
\* nor the cleaning of a directory is interrupted, or fails to remove what is in
\* it, at every attempt.  Nothing is assumed where the code refuses to clean.
Fairness ==
  /\ WF_vars(Daemon)
  /\ WF_vars(Tick)
  /\ SF_vars(Scan)
  /\ \A d \in Dirs \ Stuck : SF_vars(CleanDir(d))

Spec == Init /\ [][Next]_vars /\ Fairness

-----------------------------------------------------------------------------
TypeOK ==
  /\ pc \in {"wait", "ready", "analyze", "clean"}
  /\ next \in 1..(Len(Order) + 1)
  /\ targets \subseteq Target
  /\ g_states \in [Packages -> PackageState]
  /\ size \in [Dirs -> Absent..MaxSize]
  /\ g_total_bytes_freed_run \in 0..(Quota + 1)
  /\ stepped \in BOOLEAN
  /\ dirAge \in [Dirs -> 0..Cooldown]

\* A directory this process has cleaned becomes a target again only after the
\* cooldown, through whatever aborts, other directories of its package and
\* growing caches lie between, except where the rate known before was massive
\* or the clock was set back.
CooldownKept ==
  [][\A target \in targets' \ targets :
       \/ dirAge[target.dir] >= Cooldown
       \/ g_states[Owner[target.dir]].growth >= Massive
       \/ stepped]_vars

\* A directory that is due is passed over only because this process cleaned a
\* directory of the same package within the cooldown: no history outlives it.
PassedOverOnlyIfRecent ==
  [][AnalyzeDir /\ ~stepped /\ size[Order[next]] >= Threshold =>
       \/ \E target \in targets' : target.dir = Order[next]
       \/ \E d \in Dirs : Owner[d] = Owner[Order[next]] /\ dirAge[d] < Cooldown]_vars

\* Every due directory is cleaned in the end, by priority and in spite of aborts,
\* cooldowns, the wrong clock and what other directories used of the quota, as
\* long as no directory the code gives up on stays due: one that holds a plain
\* file, or one with full batches when the total of all the runs is too high.
DueIsCleaned ==
  LET included == {d \in Dirs : Included(d)} IN
    <>[](\A d \in included : Due(d) => ~Blocked(d)) =>
      \A d \in included \ Stuck : Due(d) ~> ~Due(d)
=============================================================================
