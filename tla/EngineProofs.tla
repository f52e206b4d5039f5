---------------------------- MODULE EngineProofs ----------------------------
(***************************************************************************)
(* What module Engine establishes for every choice of its intervals and    *)
(* bounds: type correctness, the three safety invariants of its run, and   *)
(* that maintenance starts only after a quiet idle delay and soon after    *)
(* the gates were passed.                                                  *)
(***************************************************************************)
EXTENDS Engine, TLAPS

\* A loop of PerformMaintenance whose body runs has an iteration to finish.
LoopCounts == pc \in {"fstrim", "children", "clean"} => left > 0

\* The signal can be followed by one evaluation only because g_running is
\* tested before every wait: inside the wait none has been counted yet.
LateEvalsInv ==
  /\ lateEvals <= 1
  /\ g_running \/ pc = "epoll" => lateEvals = 0

\* In the two states whose case ignores the idle state, and while the gates
\* are read, the idle clock has run for the whole delay.
DelayPassedInv ==
  g_current_state \in {"IDLE_CANDIDATE", "DEEP_IDLE"} \/ pc = "gates" => offAge = IdleDelay

\* The states that look at no gate are entered from an evaluation that did,
\* and each is left by the next one.
GateInv ==
  LET begun == IF pc \in {"eval", "gates"} THEN 1 ELSE 0 IN
    /\ g_current_state = "IDLE_CANDIDATE" => gateAge <= begun
    /\ g_current_state = "DEEP_IDLE" => gateAge <= 1 + begun

ControlInv ==
  /\ TypeOK
  /\ LoopCounts
  /\ NeverSleepsForever
  /\ MaintenanceAlwaysLeft
  /\ LateEvalsInv
  /\ DelayPassedInv
  /\ GateInv

\* The idle clock is honest: no check has read the screen on since it started.
Fresh == offAge = NotTracked \/ quiet >= offAge

\* The least time between an evaluation made in a state and the start of
\* maintenance: the intervals of the states it still has to pass through.
Rest(state) ==
  LET toMaintenance == ScreenOffSec + DeepIdleSec + ScreenOffSec IN
  [ BOOT           |-> toMaintenance,
    ACTIVE         |-> toMaintenance,
    SCREEN_OFF     |-> DeepIdleSec + ScreenOffSec,
    IDLE_CANDIDATE |-> ScreenOffSec,
    DEEP_IDLE      |-> 0,
    MAINTENANCE    |-> 0,
    ABORTING       |-> ActiveSec + toMaintenance,
    ERROR_BACKOFF  |-> ActiveSec + toMaintenance ][state]

\* The same, counted from where the main thread is.
Ahead ==
  IF pc \in {"loop", "epoll"} THEN timer + Rest(g_current_state)
  ELSE IF pc \in {"eval", "gates"} THEN Rest(g_current_state)
  ELSE IF pc = "arm" THEN Interval(g_current_state) + Rest(g_current_state)
  ELSE 0

\* A clock left running by an abort is harmless: by the time maintenance can
\* start again the quiet period is long enough anyway.
QuietInv == pc = "stopped" \/ Fresh \/ quiet + Ahead >= IdleDelay

\* The way back from an abort to MAINTENANCE takes at least the idle delay.
\* With the default intervals: idle_delay_minutes <= 41.
DelayCovered == IdleDelay <= AbortSec + ActiveSec + 2 * ScreenOffSec + DeepIdleSec

-----------------------------------------------------------------------------
\* Every interval the scheduler arms is a positive number of seconds.
LEMMA IntervalType == \A state \in EngineState : Interval(state) \in Nat \ {0}
  BY IntervalAssumption DEF Interval, EngineState

\* The length of the way to maintenance is a number of seconds.
LEMMA RestType == \A state \in EngineState : Rest(state) \in Nat
  BY IntervalAssumption DEF Rest, EngineState

\* Every step of the daemon and of its environment keeps the types and the
\* control invariants.
LEMMA ControlStep == ControlInv /\ [Next]_vars => ControlInv'
  <1> SUFFICES ASSUME ControlInv, [Next]_vars PROVE ControlInv'
    OBVIOUS
  <1> USE IntervalAssumption, BoundAssumption
      DEF ControlInv, TypeOK, LoopCounts, NeverSleepsForever, MaintenanceAlwaysLeft,
          LateEvalsInv, DelayPassedInv, GateInv, Pcs, MaintenancePcs, EngineState, NotTracked,
          Disarmed, NeverPassed, engineVars, envVars, dozeVars, auxVars, evalVars
  <1>1. CASE SchedulerInit
    BY <1>1 DEF SchedulerInit, SetTimer
  <1>2. CASE LoopTest
    BY <1>2 DEF LoopTest
  <1>3. CASE Arm
    BY <1>3, IntervalType DEF Arm, SetTimer
  <1>4. CASE EvaluateNotIdle
    BY <1>4 DEF EvaluateNotIdle, SampleOn, WakeUp
  <1>5. CASE EvaluateTooEarly
    BY <1>5 DEF EvaluateTooEarly, SampleOff, OffAgeNow, Decide, NextState
  <1>6. CASE EvaluateDelayPassed
    BY <1>6 DEF EvaluateDelayPassed, SampleOff, OffAgeNow
  <1>7. CASE EvaluateGates
    BY <1>7 DEF EvaluateGates, Decide, NextState, Gates
  <1>8. CASE NativeFstrim
    BY <1>8 DEF NativeFstrim, SampleAny, SampleOn, SampleOff, OffAgeNow, GoTo
  <1>9. CASE SweepPath
    BY <1>9 DEF SweepPath, SampleOn, SampleOff, OffAgeNow
  <1>10. CASE SweepChild
    BY <1>10 DEF SweepChild, SampleAny, SampleOn, SampleOff, OffAgeNow
  <1>11. CASE SweepPathDone
    BY <1>11 DEF SweepPathDone, GoTo
  <1>12. CASE SweepsCompleted
    BY <1>12 DEF SweepsCompleted
  <1>13. CASE AfterSweeps
    BY <1>13 DEF AfterSweeps, SeesScreenOn, Abort, GoTo
  <1>14. CASE ScanPackage
    BY <1>14 DEF ScanPackage, SeesScreenOn, Abort
  <1>15. CASE AnalyzeCaches
    BY <1>15 DEF AnalyzeCaches, GoTo
  <1>16. CASE CleanTarget
    BY <1>16 DEF CleanTarget, SampleOn, SampleOff, OffAgeNow, Abort
  <1>17. CASE RemoveChild
    BY <1>17 DEF RemoveChild, SampleOn, SampleOff, OffAgeNow, Abort
  <1>18. CASE CleanFails
    BY <1>18 DEF CleanFails, Abort
  <1>19. CASE TargetDone
    BY <1>19 DEF TargetDone, GoTo
  <1>20. CASE Finish
    BY <1>20 DEF Finish
  <1>21. CASE ReadTimer
    BY <1>21 DEF ReadTimer, AtMost
  <1>22. CASE EpollError
    BY <1>22 DEF EpollError
  <1>23. CASE ReadFails
    BY <1>23 DEF ReadFails
  <1>24. CASE SignalHandler
    <2>1. lateEvals = 0 /\ lateEvals' = 0
      BY <1>24 DEF SignalHandler
    <2>2. g_running' \in BOOLEAN
      BY <1>24, Zenon DEF SignalHandler
    <2>3. CASE UNCHANGED pc
      BY <1>24, <2>1, <2>2, <2>3 DEF SignalHandler
    <2>4. CASE pc = "epoll" /\ pc' = "loop"
      BY <1>24, <2>1, <2>2, <2>4 DEF SignalHandler
    <2>5. QED
      BY <1>24, <2>3, <2>4 DEF SignalHandler
  <1>25. CASE ScreenToggle
    BY <1>25 DEF ScreenToggle
  <1>26. CASE GatesToggle
    BY <1>26 DEF GatesToggle
  <1>27. CASE RunCommand
    BY <1>27 DEF RunCommand
  <1>28. CASE Tick
    BY <1>28 DEF Tick, AtMost
  <1>29. CASE UNCHANGED vars
    BY <1>29 DEF vars
  <1>30. QED
    BY <1>1, <1>2, <1>3, <1>4, <1>5, <1>6, <1>7, <1>8, <1>9, <1>10, <1>11, <1>12, <1>13,
      <1>14, <1>15, <1>16, <1>17, <1>18, <1>19, <1>20, <1>21, <1>22, <1>23, <1>24,
      <1>25, <1>26, <1>27, <1>28, <1>29
    DEF Next, MainThread, Scheduler, Evaluate, PerformMaintenance, Sweeps,
      Interruptions, Environment

\* An evaluation that does not start maintenance spends no more of the way to
\* it than the interval armed next.
LEMMA RestDecide ==
  ASSUME NEW idle_state \in {"SCREEN_OFF", "IDLE_CANDIDATE"},
         g_current_state \in EngineState \ {"DEEP_IDLE", "MAINTENANCE"}
  PROVE  /\ NextState(idle_state) \in EngineState
         /\ Rest(g_current_state)
              <= Interval(NextState(idle_state)) + Rest(NextState(idle_state))
  BY IntervalAssumption DEF NextState, Rest, Interval, EngineState

\* From an abort to maintenance at least the idle delay passes.
LEMMA RestAbort == DelayCovered => Interval("ABORTING") + Rest("ABORTING") >= IdleDelay
  BY IntervalAssumption, BoundAssumption DEF DelayCovered, Rest, Interval

\* Between an observed screen-on and the next maintenance the intervals add up
\* to the idle delay, whatever the idle clock shows.
LEMMA QuietStep ==
  ASSUME DelayCovered, ControlInv, QuietInv, [Next]_vars
  PROVE  QuietInv'
  <1> USE IntervalAssumption, BoundAssumption
      DEF ControlInv, TypeOK, NeverSleepsForever, MaintenanceAlwaysLeft, DelayPassedInv,
          QuietInv, Fresh, Ahead, Pcs, MaintenancePcs, EngineState, NotTracked,
          Disarmed, engineVars, envVars, dozeVars, auxVars, evalVars
  <1>1. CASE SchedulerInit
    BY <1>1 DEF SchedulerInit, SetTimer
  <1>2. CASE LoopTest
    BY <1>2 DEF LoopTest
  <1>3. CASE Arm
    BY <1>3, IntervalType, RestType DEF Arm, SetTimer
  <1>4. CASE EvaluateNotIdle
    BY <1>4 DEF EvaluateNotIdle, SampleOn, WakeUp
  <1>5. CASE EvaluateTooEarly
    <2>1. g_current_state # "DEEP_IDLE" => QuietInv'
      <3> SUFFICES ASSUME g_current_state # "DEEP_IDLE" PROVE QuietInv'
        OBVIOUS
      <3>1. /\ Rest(g_current_state)
                 <= Interval(g_current_state') + Rest(g_current_state')
            /\ g_current_state' \in EngineState
        BY <1>5, RestDecide DEF EvaluateTooEarly, Decide
      <3>2. QED
        BY <1>5, <3>1, IntervalType, RestType
        DEF EvaluateTooEarly, SampleOff, OffAgeNow, Decide
    <2>2. g_current_state # "DEEP_IDLE"
      BY <1>5 DEF EvaluateTooEarly, OffAgeNow
    <2>3. QED
      BY <2>1, <2>2
  <1>6. CASE EvaluateDelayPassed
    BY <1>6 DEF EvaluateDelayPassed, SampleOff, OffAgeNow
  <1>7. CASE EvaluateGates
    <2>1. PICK idle_state \in {"SCREEN_OFF", "IDLE_CANDIDATE"} : Decide(idle_state)
      BY <1>7 DEF EvaluateGates
    <2>2. CASE g_current_state = "DEEP_IDLE"
      <3>1. Rest(g_current_state) = 0
        BY <2>2 DEF Rest
      <3>2. QED
        BY <1>7, <2>1, <2>2, <3>1 DEF EvaluateGates, Decide
    <2>3. CASE g_current_state # "DEEP_IDLE"
      <3>1. /\ Rest(g_current_state)
                 <= Interval(g_current_state') + Rest(g_current_state')
            /\ g_current_state' \in EngineState
        BY <1>7, <2>1, <2>3, RestDecide DEF EvaluateGates, Decide
      <3>2. QED
        BY <1>7, <2>1, <2>3, <3>1, IntervalType, RestType DEF EvaluateGates, Decide
    <2>4. QED
      BY <2>2, <2>3
  <1>8. CASE NativeFstrim
    BY <1>8 DEF NativeFstrim, SampleAny, SampleOn, SampleOff, OffAgeNow, GoTo
  <1>9. CASE SweepPath
    BY <1>9 DEF SweepPath, SampleOn, SampleOff, OffAgeNow
  <1>10. CASE SweepChild
    BY <1>10 DEF SweepChild, SampleAny, SampleOn, SampleOff, OffAgeNow
  <1>11. CASE SweepPathDone
    BY <1>11 DEF SweepPathDone, GoTo
  <1>12. CASE SweepsCompleted
    BY <1>12 DEF SweepsCompleted
  <1>13. CASE AfterSweeps
    BY <1>13, RestAbort, IntervalType, RestType DEF AfterSweeps, SeesScreenOn, Abort, GoTo
  <1>14. CASE ScanPackage
    BY <1>14, RestAbort, IntervalType, RestType DEF ScanPackage, SeesScreenOn, Abort
  <1>15. CASE AnalyzeCaches
    BY <1>15 DEF AnalyzeCaches, GoTo
  <1>16. CASE CleanTarget
    BY <1>16 DEF CleanTarget, SampleOn, SampleOff, OffAgeNow, Abort
  <1>17. CASE RemoveChild
    BY <1>17 DEF RemoveChild, SampleOn, SampleOff, OffAgeNow, Abort
  <1>18. CASE CleanFails
    BY <1>18 DEF CleanFails, Abort
  <1>19. CASE TargetDone
    BY <1>19 DEF TargetDone, GoTo
  <1>20. CASE Finish
    BY <1>20 DEF Finish
  <1>21. CASE ReadTimer
    BY <1>21, RestType DEF ReadTimer
  <1>22. CASE EpollError
    BY <1>22 DEF EpollError
  <1>23. CASE ReadFails
    BY <1>23 DEF ReadFails
  <1>24. CASE SignalHandler
    BY <1>24 DEF SignalHandler
  <1>25. CASE ScreenToggle
    BY <1>25 DEF ScreenToggle
  <1>26. CASE GatesToggle
    BY <1>26 DEF GatesToggle
  <1>27. CASE RunCommand
    BY <1>27 DEF RunCommand
  <1>28. CASE Tick
    BY <1>28, IntervalType, RestType DEF Tick, AtMost
  <1>29. CASE UNCHANGED vars
    BY <1>29 DEF vars
  <1>30. QED
    BY <1>1, <1>2, <1>3, <1>4, <1>5, <1>6, <1>7, <1>8, <1>9, <1>10, <1>11, <1>12, <1>13,
      <1>14, <1>15, <1>16, <1>17, <1>18, <1>19, <1>20, <1>21, <1>22, <1>23, <1>24,
      <1>25, <1>26, <1>27, <1>28, <1>29
    DEF Next, MainThread, Scheduler, Evaluate, PerformMaintenance, Sweeps,
      Interruptions, Environment

-----------------------------------------------------------------------------
\* The control invariant holds in every reachable state.
THEOREM ControlInvariant == Spec => []ControlInv
  <1>1. Init => ControlInv
    <2> SUFFICES ASSUME Init PROVE ControlInv
      OBVIOUS
    <2> USE DEF Init, Pcs, MaintenancePcs, EngineState, NotTracked, Disarmed, NeverPassed
    <2>1. g_running \in BOOLEAN /\ doze \in BOOLEAN
      BY Zenon
    <2>2. TypeOK
      BY <2>1, BoundAssumption DEF TypeOK
    <2>3. LoopCounts /\ NeverSleepsForever /\ MaintenanceAlwaysLeft
      BY DEF LoopCounts, NeverSleepsForever, MaintenanceAlwaysLeft
    <2>4. LateEvalsInv /\ DelayPassedInv /\ GateInv
      BY DEF LateEvalsInv, DelayPassedInv, GateInv
    <2>5. QED
      BY <2>2, <2>3, <2>4 DEF ControlInv
  <1>2. QED
    BY <1>1, ControlStep, PTL DEF Spec

\* The daemon's variables keep their types.
THEOREM TypeCorrect == Spec => []TypeOK
  BY ControlInvariant, PTL DEF ControlInv

\* The loop never waits on a disarmed timer, whichever way the previous
\* evaluation ended (RunScheduler).
THEOREM LoopNeverSleepsForever == Spec => []NeverSleepsForever
  BY ControlInvariant, PTL DEF ControlInv

\* MAINTENANCE is the engine state exactly while PerformMaintenance runs.
THEOREM MaintenanceLeft == Spec => []MaintenanceAlwaysLeft
  BY ControlInvariant, PTL DEF ControlInv

\* At most one evaluation begins after SIGTERM (SignalHandler, RunScheduler).
THEOREM OneLateEvaluation == Spec => []StopsAfterOneEvaluation
  <1>1. ControlInv => StopsAfterOneEvaluation
    BY DEF ControlInv, LateEvalsInv, StopsAfterOneEvaluation
  <1>2. QED
    BY <1>1, ControlInvariant, PTL

\* Only an evaluation made in DEEP_IDLE starts maintenance.
LEMMA StartsFromDeepIdle ==
  ASSUME ControlInv, [Next]_vars, g_current_state' = "MAINTENANCE", g_current_state # "MAINTENANCE"
  PROVE  g_current_state = "DEEP_IDLE" /\ pc \in {"eval", "gates"}
  <1> USE BoundAssumption
      DEF ControlInv, TypeOK, MaintenanceAlwaysLeft, MaintenancePcs,
          engineVars, envVars, dozeVars, auxVars, evalVars
  <1>1. CASE Scheduler \/ ReadTimer \/ Interruptions
    BY <1>1 DEF Scheduler, SchedulerInit, LoopTest, Arm, ReadTimer,
       Interruptions, EpollError, ReadFails, SignalHandler
  <1>2. CASE EvaluateNotIdle \/ EvaluateTooEarly \/ EvaluateDelayPassed
    BY <1>2 DEF EvaluateNotIdle, WakeUp, EvaluateTooEarly, Decide, NextState,
       EngineState, EvaluateDelayPassed
  <1>3. CASE EvaluateGates
    <2>1. PICK idle_state \in {"SCREEN_OFF", "IDLE_CANDIDATE"} : Decide(idle_state)
      BY <1>3 DEF EvaluateGates
    <2>2. QED
      BY <1>3, <2>1 DEF EvaluateGates, Decide, NextState, EngineState
  <1>4. CASE PerformMaintenance
    BY <1>4 DEF PerformMaintenance, Sweeps, NativeFstrim, SweepPath, SweepChild,
       SweepPathDone, SweepsCompleted, AfterSweeps, ScanPackage, AnalyzeCaches,
       CleanTarget, RemoveChild, CleanFails, TargetDone, Finish
  <1>5. CASE Environment
    BY <1>5 DEF Environment, ScreenToggle, GatesToggle, RunCommand, Tick
  <1>6. CASE UNCHANGED vars
    BY <1>6 DEF vars
  <1>7. QED
    BY <1>1, <1>2, <1>3, <1>4, <1>5, <1>6 DEF Next, MainThread, Evaluate

\* If the intervals from an abort back to maintenance cover the idle delay,
\* maintenance starts only after the daemon has seen a dark screen for the
\* whole delay (EvaluateIdleState, EvaluateAndTransition, PerformMaintenance).
THEOREM QuietBeforeMaintenance ==
  ASSUME DelayCovered
  PROVE  Spec => StartsOnlyAfterQuiet
  <1>1. Init => QuietInv
    BY DEF Init, QuietInv, Fresh
  <1>2. ControlInv /\ QuietInv /\ [Next]_vars => QuietInv'
    BY QuietStep
  <1>3. ASSUME ControlInv, QuietInv, [Next]_vars,
               g_current_state' = "MAINTENANCE", g_current_state # "MAINTENANCE"
        PROVE  quiet >= IdleDelay
    <2>1. g_current_state = "DEEP_IDLE" /\ pc \in {"eval", "gates"}
      BY <1>3, StartsFromDeepIdle
    <2>2. offAge = IdleDelay
      BY <1>3, <2>1 DEF ControlInv, DelayPassedInv
    <2>3. Ahead = 0
      BY <2>1 DEF Ahead, Rest
    <2>4. QED
      BY <1>3, <2>1, <2>2, <2>3, BoundAssumption
      DEF ControlInv, TypeOK, QuietInv, Fresh, NotTracked
  <1>4. ControlInv /\ QuietInv /\ [Next]_vars
          => [g_current_state' = "MAINTENANCE" /\ g_current_state # "MAINTENANCE"
                => quiet >= IdleDelay]_vars
    BY <1>3
  <1>5. QED
    BY <1>1, <1>2, <1>4, ControlInvariant, PTL DEF Spec, StartsOnlyAfterQuiet

\* The gates were passed at most two evaluations before maintenance starts, for
\* this run alone, and no evaluation since found the device in use
\* (EvaluateIdleState, EvaluateAndTransition).
THEOREM RecentGates == Spec => GatesPassedRecently
  <1>1. ASSUME ControlInv, [Next]_vars,
               g_current_state' = "MAINTENANCE", g_current_state # "MAINTENANCE"
        PROVE  gateAge <= 2
    <2>1. g_current_state = "DEEP_IDLE" /\ pc \in {"eval", "gates"}
      BY <1>1, StartsFromDeepIdle
    <2>2. QED
      BY <1>1, <2>1 DEF ControlInv, GateInv
  <1>2. ControlInv /\ [Next]_vars
          => [g_current_state' = "MAINTENANCE" /\ g_current_state # "MAINTENANCE"
                => gateAge <= 2]_vars
    BY <1>1
  <1>3. QED
    BY <1>2, ControlInvariant, PTL DEF Spec, GatesPassedRecently
=============================================================================
