------------------------------- MODULE Engine -------------------------------
(***************************************************************************)
(* The maintenance engine of the daemon: the timerfd/epoll loop            *)
(* (core/scheduler.cpp), the state machine it drives                       *)
(* (core/decision_engine.cpp), the idle detector (power/idle_detector.cpp) *)
(* and the doze commands it issues (system/system_tweaks.cpp).             *)
(*                                                                         *)
(* One process, the main thread, runs through the program counter pc.  It  *)
(* reads the screen and the hardware gates, which change under it at any   *)
(* moment; every read of the screen is a step of its own.  Time is counted *)
(* in units the constants are expressed in; the clock may advance between  *)
(* any two steps, also in the middle of a maintenance run.                 *)
(*                                                                         *)
(* The cleaning work is abstracted to its control: how many checks each    *)
(* loop makes, and what each check may decide.                             *)
(***************************************************************************)
EXTENDS Integers

CONSTANTS
  IdleDelay,      \* idle_delay_minutes * 60
  ActiveSec,      \* check_interval_active_sec
  ScreenOffSec,   \* check_interval_screen_off_sec
  DeepIdleSec,    \* check_interval_deep_idle_sec
  AbortSec,       \* the literal 30 of the ABORTING case
  BackoffSec,     \* the literal 300 of the ERROR_BACKOFF case
  DefaultSec,     \* the literal 60 of the default case
  BootSec,        \* the literal 1 armed before the loop
  SweepPaths,     \* length of paths_to_sweep
  MaxPackages,    \* bound: packages GetInstalledPackages returns
  MaxTargets,     \* bound: targets AnalyzeCaches returns
  MaxChildren     \* bound: idle checks made inside one directory

\* An interval of zero would disarm the timerfd: the defaults are positive
\* and none of them can be set from the configuration file.
ASSUME IntervalAssumption ==
  /\ ActiveSec \in Nat \ {0}   /\ ScreenOffSec \in Nat \ {0}
  /\ DeepIdleSec \in Nat \ {0} /\ AbortSec \in Nat \ {0}
  /\ BackoffSec \in Nat \ {0}  /\ DefaultSec \in Nat \ {0}
  /\ BootSec \in Nat \ {0}

ASSUME BoundAssumption ==
  /\ IdleDelay \in Nat   /\ SweepPaths \in Nat
  /\ MaxPackages \in Nat /\ MaxTargets \in Nat /\ MaxChildren \in Nat

VARIABLES
  pc,               \* where the main thread is
  g_current_state,  \* EngineState
  offAge,           \* now - g_screen_off_time; NotTracked when that is 0
  timer,            \* time to expiry; 0 readable, Disarmed after a read
  g_running,
  left,             \* iterations left of PerformMaintenance's current loop
  inner,            \* idle checks left inside the current directory
  screenOn,         \* what IsScreenOn would return now
  safe,             \* battery, thermal and memory gates all pass now
  cmd,              \* the background "dumpsys deviceidle" not yet finished
  doze,             \* deep doze is forced
  \* History variables, read by no action.
  quiet,            \* time since the daemon last found the device in use: an
                    \* idle evaluation or an abort check that read "screen on"
  lateEvals,        \* evaluations begun after g_running became false, up to 2
  gateAge           \* evaluations since one passed every gate; NeverPassed if
                    \* more than two, or if one since found the device in use
                    \* or started maintenance

engineVars == <<g_current_state, offAge, left, inner>>
envVars    == <<screenOn, safe>>
dozeVars   == <<cmd, doze>>
evalVars   == <<lateEvals, gateAge>>
auxVars    == <<quiet, evalVars>>
vars == <<pc, g_current_state, offAge, timer, g_running, left, inner,
          screenOn, safe, cmd, doze, quiet, lateEvals, gateAge>>

EngineState == {"BOOT", "ACTIVE", "SCREEN_OFF", "IDLE_CANDIDATE", "DEEP_IDLE",
                "MAINTENANCE", "ABORTING", "ERROR_BACKOFF"}

NotTracked == -1
Disarmed   == -1
NeverPassed == 3

\* Inside PerformMaintenance.
MaintenancePcs == {"fstrim", "paths", "children", "swept", "scan", "targets", "clean"}
Pcs == {"init", "loop", "epoll", "eval", "gates", "arm", "stopped"} \cup MaintenancePcs

AtMost(a, b) == IF a <= b THEN a ELSE b

-----------------------------------------------------------------------------
\* The next_sleep_sec switch of RunScheduler.
Interval(state) ==
  [ BOOT           |-> DefaultSec,
    ACTIVE         |-> ActiveSec,
    SCREEN_OFF     |-> ScreenOffSec,
    IDLE_CANDIDATE |-> DeepIdleSec,
    DEEP_IDLE      |-> ScreenOffSec,
    MAINTENANCE    |-> ScreenOffSec,
    ABORTING       |-> AbortSec,
    ERROR_BACKOFF  |-> BackoffSec ][state]

\* timerfd_settime with a zero it_value disarms the timer.
SetTimer(seconds) == timer' = IF seconds = 0 THEN Disarmed ELSE seconds

\* Mutant of SampleOn: the screen-off clock is not reset.
SampleOnKeepsClock ==
  /\ screenOn
  /\ UNCHANGED offAge
  /\ quiet' = 0

\* EvaluateIdleState up to its first return: the screen reads on.
SampleOn ==
  /\ screenOn
  /\ offAge' = NotTracked
  /\ quiet' = 0

\* Its other path: the first sample with the screen off starts the clock.
OffAgeNow == IF offAge = NotTracked THEN 0 ELSE offAge
SampleOff ==
  /\ ~screenOn
  /\ offAge' = OffAgeNow
  /\ UNCHANGED quiet

\* EvaluateIdleState where only NOT_IDLE matters to the caller.
SampleAny == SampleOn \/ SampleOff

\* A direct call of IsScreenOn that reads on: g_screen_off_time is not reset.
SeesScreenOn ==
  /\ screenOn
  /\ quiet' = 0
  /\ UNCHANGED offAge

-----------------------------------------------------------------------------
\* RunScheduler before its loop: install the handlers, create the
\* descriptors, arm the first evaluation.  Any of the three calls may fail.
SchedulerInit ==
  /\ pc = "init"
  /\ \/ pc' = "loop" /\ SetTimer(BootSec)
     \/ pc' = "stopped" /\ UNCHANGED timer
  /\ UNCHANGED <<engineVars, envVars, dozeVars, auxVars, g_running>>

\* Mutant of LoopTest: the flag is not tested.
LoopForever ==
  /\ pc = "loop"
  /\ pc' = "epoll"
  /\ UNCHANGED <<engineVars, envVars, dozeVars, auxVars, timer, g_running>>

LoopTest ==
  /\ pc = "loop"
  /\ pc' = IF g_running THEN "epoll" ELSE "stopped"
  /\ UNCHANGED <<engineVars, envVars, dozeVars, auxVars, timer, g_running>>

\* epoll_wait fails with something other than EINTR.
EpollError ==
  /\ pc = "epoll"
  /\ pc' = "stopped"
  /\ UNCHANGED <<engineVars, envVars, dozeVars, auxVars, timer, g_running>>

\* epoll_wait reports the timer and the read clears it.
ReadTimer ==
  /\ pc = "epoll"
  /\ timer = 0
  /\ timer' = Disarmed
  /\ pc' = "eval"
  /\ lateEvals' = IF g_running THEN lateEvals ELSE AtMost(lateEvals + 1, 2)
  /\ gateAge' = AtMost(gateAge + 1, NeverPassed)
  /\ UNCHANGED <<engineVars, envVars, dozeVars, quiet, g_running>>

\* The read returns -1: the timer stays readable and nothing re-arms it.
ReadFails ==
  /\ pc = "epoll"
  /\ timer = 0
  /\ pc' = "loop"
  /\ UNCHANGED <<engineVars, envVars, dozeVars, auxVars, timer, g_running>>

\* SIGINT or SIGTERM.  A signal that finds the main thread inside epoll_wait
\* interrupts it (EINTR, continue); one that arrives just before the wait, or
\* that the kernel gives to the audio thread, does not.
SignalHandler ==
  /\ pc \notin {"init", "stopped"}
  /\ g_running
  /\ g_running' = FALSE
  /\ \/ UNCHANGED pc
     \/ pc = "epoll" /\ pc' = "loop"
  /\ UNCHANGED <<engineVars, envVars, dozeVars, auxVars, timer>>

\* Mutant of Arm: an abort returns from the branch before SetTimer.
ArmUnlessAborting ==
  /\ pc = "arm"
  /\ pc' = "loop"
  /\ IF g_current_state = "ABORTING" THEN UNCHANGED timer ELSE SetTimer(Interval(g_current_state))
  /\ UNCHANGED <<engineVars, envVars, dozeVars, auxVars, g_running>>

\* The end of the timer branch.
Arm ==
  /\ pc = "arm"
  /\ pc' = "loop"
  /\ SetTimer(Interval(g_current_state))
  /\ UNCHANGED <<engineVars, envVars, dozeVars, auxVars, g_running>>

-----------------------------------------------------------------------------
\* Mutant of WakeUp: the doze is not released.
WakeUpWithoutUnforce ==
  /\ pc' = "arm"
  /\ g_current_state' = "ACTIVE"
  /\ UNCHANGED <<left, inner, cmd>>

\* EvaluateAndTransition, result NOT_IDLE.
WakeUp ==
  /\ pc' = "arm"
  /\ IF g_current_state # "ACTIVE"
       THEN g_current_state' = "ACTIVE" /\ cmd' = "unforce"
       ELSE UNCHANGED <<g_current_state, cmd>>
  /\ UNCHANGED <<left, inner>>

\* Mutant of NextState: ABORTING has no way out of a dark screen.
NextStateStuck(idle_state) ==
  [ BOOT           |-> "SCREEN_OFF",
    ACTIVE         |-> "SCREEN_OFF",
    SCREEN_OFF     |-> IF idle_state = "IDLE_CANDIDATE" THEN "IDLE_CANDIDATE" ELSE "SCREEN_OFF",
    IDLE_CANDIDATE |-> "DEEP_IDLE",
    DEEP_IDLE      |-> "MAINTENANCE",
    MAINTENANCE    |-> "MAINTENANCE",
    ABORTING       |-> "ABORTING",
    ERROR_BACKOFF  |-> "ACTIVE" ][g_current_state]

\* Mutant of NextState: SCREEN_OFF ignores the idle state as well.
NextStateUngated(idle_state) ==
  [ BOOT           |-> "SCREEN_OFF",
    ACTIVE         |-> "SCREEN_OFF",
    SCREEN_OFF     |-> "IDLE_CANDIDATE",
    IDLE_CANDIDATE |-> "DEEP_IDLE",
    DEEP_IDLE      |-> "MAINTENANCE",
    MAINTENANCE    |-> "MAINTENANCE",
    ABORTING       |-> "ACTIVE",
    ERROR_BACKOFF  |-> "ACTIVE" ][g_current_state]

\* EvaluateAndTransition, any other result: the switch on the current state.
NextState(idle_state) ==
  [ BOOT           |-> "SCREEN_OFF",
    ACTIVE         |-> "SCREEN_OFF",
    SCREEN_OFF     |-> IF idle_state = "IDLE_CANDIDATE" THEN "IDLE_CANDIDATE" ELSE "SCREEN_OFF",
    IDLE_CANDIDATE |-> "DEEP_IDLE",
    DEEP_IDLE      |-> "MAINTENANCE",
    MAINTENANCE    |-> "MAINTENANCE",
    ABORTING       |-> "ACTIVE",
    ERROR_BACKOFF  |-> "ACTIVE" ][g_current_state]

Decide(idle_state) ==
  /\ g_current_state' = NextState(idle_state)
  /\ IF g_current_state = "DEEP_IDLE"
       THEN pc' = "fstrim" /\ left' = 2
       ELSE pc' = "arm" /\ UNCHANGED left
  /\ UNCHANGED <<inner, cmd>>

EvaluateNotIdle ==
  /\ pc = "eval"
  /\ SampleOn
  /\ WakeUp
  /\ gateAge' = NeverPassed
  /\ UNCHANGED <<envVars, timer, g_running, doze, lateEvals>>

\* The delay has not passed: SCREEN_OFF without looking at the gates.
EvaluateTooEarly ==
  /\ pc = "eval"
  /\ SampleOff
  /\ OffAgeNow < IdleDelay
  /\ Decide("SCREEN_OFF")
  /\ UNCHANGED <<envVars, timer, g_running, doze, evalVars>>

EvaluateDelayPassed ==
  /\ pc = "eval"
  /\ SampleOff
  /\ OffAgeNow >= IdleDelay
  /\ pc' = "gates"
  /\ UNCHANGED <<envVars, dozeVars, timer, g_running, g_current_state, left, inner, evalVars>>

\* Battery, thermal and memory gates, then IsHeavyForegroundActivity, which
\* reads the screen again: only a screen that came on since can show a heavy
\* application.
Gates(idle_state) ==
  IF idle_state = "IDLE_CANDIDATE" THEN safe ELSE ~safe \/ screenOn

EvaluateGates ==
  /\ pc = "gates"
  /\ \E idle_state \in {"SCREEN_OFF", "IDLE_CANDIDATE"} :
       /\ Gates(idle_state) /\ Decide(idle_state)
       /\ gateAge' = IF g_current_state = "DEEP_IDLE" THEN NeverPassed
                     ELSE IF idle_state = "IDLE_CANDIDATE" THEN 0 ELSE gateAge
  /\ UNCHANGED <<envVars, timer, g_running, doze, offAge, quiet, lateEvals>>

-----------------------------------------------------------------------------
\* PerformMaintenance.
GoTo(next, count) == pc' = next /\ left' = count

\* Mutant of Abort: PerformMaintenance returns without a transition.
AbortWithoutTransition ==
  /\ pc' = "arm"
  /\ UNCHANGED <<g_current_state, left, inner>>

\* TransitionTo(ABORTING); return.
Abort ==
  /\ g_current_state' = "ABORTING"
  /\ pc' = "arm"
  /\ UNCHANGED <<left, inner>>

\* NativeFstrim of /data, then of /cache; a screen that is on only skips one.
NativeFstrim ==
  /\ pc = "fstrim"
  /\ SampleAny
  /\ IF left = 1 THEN GoTo("paths", SweepPaths) ELSE GoTo("fstrim", left - 1)
  /\ UNCHANGED <<envVars, dozeVars, timer, g_running, g_current_state, inner, evalVars>>

\* The check before each swept path: a screen that is on ends the sweeps.
SweepPath ==
  /\ pc = "paths"
  /\ left > 0
  /\ \/ SampleOn /\ pc' = "swept" /\ UNCHANGED inner
     \/ SampleOff /\ pc' = "children" /\ inner' \in 0..MaxChildren
  /\ UNCHANGED <<envVars, dozeVars, timer, g_running, g_current_state, left, evalVars>>

\* Inside a swept path the result of RemoveRecursiveBatched is dropped: a
\* check that reads on ends one child, and the loop takes the next.
SweepChild ==
  /\ pc = "children"
  /\ inner > 0
  /\ SampleAny
  /\ inner' = inner - 1
  /\ UNCHANGED <<envVars, dozeVars, timer, g_running, g_current_state, pc, left, evalVars>>

SweepPathDone ==
  /\ pc = "children"
  /\ inner = 0
  /\ GoTo("paths", left - 1)
  /\ UNCHANGED <<envVars, dozeVars, auxVars, timer, g_running, g_current_state, offAge, inner>>

SweepsCompleted ==
  /\ pc = "paths"
  /\ left = 0
  /\ pc' = "swept"
  /\ UNCHANGED <<engineVars, envVars, dozeVars, auxVars, timer, g_running>>

\* "Check if we got interrupted during sweeps", then GetInstalledPackages.
AfterSweeps ==
  /\ pc = "swept"
  /\ \/ SeesScreenOn /\ Abort
     \/ /\ ~screenOn
        /\ \E n \in 0..MaxPackages : GoTo("scan", n)
        /\ UNCHANGED <<g_current_state, offAge, inner, quiet>>
  /\ UNCHANGED <<envVars, dozeVars, timer, g_running, evalVars>>

ScanPackage ==
  /\ pc = "scan"
  /\ left > 0
  /\ \/ SeesScreenOn /\ Abort
     \/ /\ ~screenOn
        /\ left' = left - 1
        /\ UNCHANGED <<pc, g_current_state, offAge, inner, quiet>>
  /\ UNCHANGED <<envVars, dozeVars, timer, g_running, evalVars>>

\* AnalyzeCaches measures every directory without looking at the screen.
AnalyzeCaches ==
  /\ pc = "scan"
  /\ left = 0
  /\ \E n \in 0..MaxTargets : GoTo("targets", n)
  /\ UNCHANGED <<envVars, dozeVars, auxVars, timer, g_running, g_current_state, offAge, inner>>

\* Mutant of CleanTarget: the loop runs once too often.
CleanTargetPastEnd ==
  /\ pc = "targets"
  /\ \/ SampleOn /\ Abort
     \/ /\ SampleOff
        /\ pc' = "clean"
        /\ inner' \in 0..MaxChildren
        /\ UNCHANGED <<g_current_state, left>>
  /\ UNCHANGED <<envVars, dozeVars, timer, g_running, evalVars>>

\* "Double check idle before cleaning".
CleanTarget ==
  /\ pc = "targets"
  /\ left > 0
  /\ \/ SampleOn /\ Abort
     \/ /\ SampleOff
        /\ pc' = "clean"
        /\ inner' \in 0..MaxChildren
        /\ UNCHANGED <<g_current_state, left>>
  /\ UNCHANGED <<envVars, dozeVars, timer, g_running, evalVars>>

\* The check RemoveRecursiveBatched makes before each child of a target.
RemoveChild ==
  /\ pc = "clean"
  /\ inner > 0
  /\ \/ SampleOn /\ Abort
     \/ SampleOff /\ inner' = inner - 1 /\ UNCHANGED <<pc, g_current_state, left>>
  /\ UNCHANGED <<envVars, dozeVars, timer, g_running, evalVars>>

\* CleanDirectorySafely returns false for a reason of its own: a child that
\* is no directory, or a limit of diagnostics::EndBatch.
CleanFails ==
  /\ pc = "clean"
  /\ Abort
  /\ UNCHANGED <<envVars, dozeVars, auxVars, timer, g_running, offAge>>

TargetDone ==
  /\ pc = "clean"
  /\ inner = 0
  /\ GoTo("targets", left - 1)
  /\ UNCHANGED <<envVars, dozeVars, auxVars, timer, g_running, g_current_state, offAge, inner>>

\* OptimizeDoze, then TransitionTo(ACTIVE).
Finish ==
  /\ pc = "targets"
  /\ left = 0
  /\ cmd' = "force"
  /\ g_current_state' = "ACTIVE"
  /\ pc' = "arm"
  /\ UNCHANGED <<envVars, auxVars, timer, g_running, doze, offAge, left, inner>>

-----------------------------------------------------------------------------
\* The environment.
ScreenToggle ==
  /\ screenOn' = ~screenOn
  /\ UNCHANGED <<pc, engineVars, dozeVars, auxVars, timer, g_running, safe>>

GatesToggle ==
  /\ safe' = ~safe
  /\ UNCHANGED <<pc, engineVars, dozeVars, auxVars, timer, g_running, screenOn>>

\* The shell started in the background finishes its dumpsys.  Forced idle
\* outlives the screen turning on: only unforce takes it back.
RunCommand ==
  /\ cmd # "none"
  /\ doze' = (cmd = "force")
  /\ cmd' = "none"
  /\ UNCHANGED <<pc, engineVars, envVars, auxVars, timer, g_running>>

\* A unit of time passes.  A command takes less than one unit (dumpsys gives
\* up after ten seconds, the shortest interval is thirty).
Tick ==
  /\ cmd = "none"
  /\ timer' = IF timer > 0 THEN timer - 1 ELSE timer
  /\ offAge' = IF offAge = NotTracked THEN offAge ELSE AtMost(offAge + 1, IdleDelay)
  /\ quiet' = AtMost(quiet + 1, IdleDelay)
  /\ UNCHANGED <<pc, g_current_state, left, inner, envVars, dozeVars, g_running, evalVars>>

-----------------------------------------------------------------------------
Init ==
  /\ pc = "init"
  /\ g_current_state = "BOOT"
  /\ offAge = NotTracked
  /\ timer = Disarmed
  /\ g_running = TRUE
  /\ left = 0
  /\ inner = 0
  /\ screenOn \in BOOLEAN
  /\ safe \in BOOLEAN
  /\ cmd = "none"
  /\ doze = FALSE
  /\ quiet = 0
  /\ lateEvals = 0
  /\ gateAge = NeverPassed

Scheduler == SchedulerInit \/ LoopTest \/ Arm
Evaluate == EvaluateNotIdle \/ EvaluateTooEarly \/ EvaluateDelayPassed \/ EvaluateGates
Sweeps == NativeFstrim \/ SweepPath \/ SweepChild \/ SweepPathDone \/ SweepsCompleted
PerformMaintenance ==
  \/ Sweeps \/ AfterSweeps \/ ScanPackage \/ AnalyzeCaches
  \/ CleanTarget \/ RemoveChild \/ CleanFails \/ TargetDone \/ Finish

MainThread == Scheduler \/ Evaluate \/ PerformMaintenance
Interruptions == EpollError \/ ReadFails \/ SignalHandler
Environment == ScreenToggle \/ GatesToggle \/ RunCommand \/ Tick

Next == MainThread \/ ReadTimer \/ Interruptions \/ Environment

\* The main thread is scheduled, time passes, a started command ends, and
\* the read of a readable timerfd does not fail for ever.
Fairness ==
  /\ WF_vars(MainThread)
  /\ WF_vars(Tick)
  /\ WF_vars(RunCommand)
  /\ SF_vars(ReadTimer)

Spec == Init /\ [][Next]_vars /\ Fairness

-----------------------------------------------------------------------------
TypeOK ==
  /\ pc \in Pcs
  /\ g_current_state \in EngineState
  /\ offAge \in {NotTracked} \cup 0..IdleDelay
  /\ timer \in Nat \cup {Disarmed}
  /\ g_running \in BOOLEAN
  /\ left \in Nat
  /\ inner \in Nat
  /\ screenOn \in BOOLEAN
  /\ safe \in BOOLEAN
  /\ cmd \in {"none", "force", "unforce"}
  /\ doze \in BOOLEAN
  /\ quiet \in 0..IdleDelay
  /\ lateEvals \in Nat
  /\ gateAge \in 0..NeverPassed

\* When the main thread waits in epoll_wait the one-shot timer is armed or
\* readable, whatever failed, aborted or was interrupted before: the loop can
\* never sleep for ever (scheduler.cpp arms only at the end of an evaluation).
NeverSleepsForever ==
  pc \in {"loop", "epoll"} => timer # Disarmed

\* PerformMaintenance leaves MAINTENANCE on every path, so no evaluation ever
\* starts in that state, whose case does nothing, and ERROR_BACKOFF is dead.
MaintenanceAlwaysLeft ==
  /\ (g_current_state = "MAINTENANCE") <=> (pc \in MaintenancePcs)
  /\ g_current_state # "ERROR_BACKOFF"

\* After the stop signal the loop begins at most one more evaluation, however
\* the signal interleaves with the loop test and the wait.
StopsAfterOneEvaluation == lateEvals <= 1

\* Maintenance begins only when the daemon has not found the device in use for
\* idle_delay_minutes, although an abort by a direct IsScreenOn leaves
\* g_screen_off_time untouched and the switch ignores the idle state in
\* IDLE_CANDIDATE and DEEP_IDLE.  The read inside IsHeavyForegroundActivity
\* does not count: the daemon acts on it in state SCREEN_OFF only.
StartsOnlyAfterQuiet ==
  [][g_current_state' = "MAINTENANCE" /\ g_current_state # "MAINTENANCE"
       => quiet >= IdleDelay]_vars

\* How old the gates' verdict may be: maintenance begins at most two evaluations
\* after one that passed every gate, none in between found the device in use,
\* and no run relies on the verdict an earlier run relied on, although
\* IDLE_CANDIDATE and DEEP_IDLE look at no gate.
GatesPassedRecently ==
  [][g_current_state' = "MAINTENANCE" /\ g_current_state # "MAINTENANCE"
       => gateAge <= 2]_vars

\* Once the signal handler has run, the scheduler returns: also when the
\* signal was missed by epoll_wait, because the timer still fires.
StopIsObeyed == (~g_running) ~> (pc = "stopped")

\* A device that stays dark and within its limits is maintained again and
\* again, however often cleaning a directory fails.
MaintenanceRecurs ==
  <>[](~screenOn /\ safe) => []<>(g_current_state = "MAINTENANCE" \/ pc = "stopped")

\* Doze that an earlier run forced is released once the screen is on, when
\* the loop waits in any state but ACTIVE.
WakesFromDozeUnlessActive ==
  (doze /\ screenOn /\ pc = "epoll" /\ g_current_state # "ACTIVE")
    ~> (~doze \/ ~screenOn \/ pc = "stopped")

\* README, "Instant Wake": the display turning on releases the forced doze.
DozeReleased ==
  (doze /\ screenOn /\ pc # "stopped") ~> (~doze \/ ~screenOn \/ pc = "stopped")
=============================================================================
