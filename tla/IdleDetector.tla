---------------------------- MODULE IdleDetector ----------------------------
(***************************************************************************)
(* What the idle detector knows of the device: EvaluateIdleState           *)
(* (power/idle_detector.cpp) with the sensors it reads, IsScreenOn         *)
(* (android/power_state.cpp), IsBatterySafe (power/battery_monitor.cpp),   *)
(* IsThermalSafe (power/thermal_monitor.cpp) and IsMemoryPressureSafe      *)
(* (memory/psi_monitor.cpp), and what each remembers of the nodes it found. *)
(*                                                                         *)
(* Nodes appear late, disappear and fail to be read.  Here an evaluation   *)
(* is one step; module Engine interleaves the screen with its parts.       *)
(***************************************************************************)
EXTENDS Integers

CONSTANTS
  IdleDelay,           \* idle_delay_minutes * 60
  MinBattery,          \* minimum_battery_percent
  Capacities,          \* the charges the battery may have
  thermal_protection,
  Zones,
  Unit,                \* function: what one degree is in a zone's reading
  Raw                  \* function: the readings a zone may give

Limit == 45    \* degrees
Milli == 1000  \* readings above it are in millidegrees
Unreadable == -300000  \* opening the node succeeds and reading it fails
Missing == -400000     \* the node cannot be opened

\* No zone is hotter than a thousand degrees.
ASSUME SensorAssumption ==
  /\ IdleDelay \in Nat \ {0} /\ MinBattery \in Int /\ Capacities \subseteq Int
  /\ thermal_protection \in BOOLEAN
  /\ Unit \in [Zones -> {1, Milli}]
  /\ \A z \in Zones : Raw[z] \subseteq Int /\ \A x \in Raw[z] : x > Unreadable /\ x <= 1000 * Unit[z]

VARIABLES
  \* The device.
  lit,               \* the screen is on
  backlight,         \* the backlight node can be read
  dumpsys,           \* "dumpsys power" answers
  supply, capacity,  \* the capacity node can be read, and what it says
  charging,          \* the status node can be read and says Charging or Full
  temp,              \* a zone's reading, Unreadable or Missing
  pressure,          \* PSI is supported and above 15 per cent
  \* The daemon.
  g_backlight_path,  \* "unknown", "found", or "missing" if not g_screen_supported
  g_battery_path,    \* a battery node was found
  g_thermal_zones,
  offAge,            \* now - g_screen_off_time; NotTracked when that is 0
  result,            \* of the last evaluation
  \* History variables, read by no action.
  litAge,            \* time since the daemon last evaluated a lit device
  steady             \* zones that could be read ever since the daemon started

screenVars == <<lit, backlight, dumpsys>>
gateVars   == <<supply, charging, capacity, temp, pressure, steady>>
caches     == <<g_battery_path, g_thermal_zones>>
vars == <<screenVars, gateVars, g_backlight_path, caches, offAge, result, litAge>>

NotTracked == -1
IdleState == {"NOT_IDLE", "SCREEN_OFF", "IDLE_CANDIDATE"}

-----------------------------------------------------------------------------
\* DetectScreenNode, which is not repeated after a failure.
DetectScreenNode ==
  IF g_backlight_path # "unknown" THEN g_backlight_path
  ELSE IF backlight THEN "found" ELSE "missing"

\* Mutant of IsScreenOn: without an answer the screen counts as off.
IsScreenOnFailOpen ==
  IF DetectScreenNode = "found" /\ backlight THEN lit ELSE dumpsys /\ lit

\* Mutant of IsScreenOn: dumpsys is not asked when the node cannot be read.
IsScreenOnNoFallback ==
  IF DetectScreenNode = "found" THEN ~backlight \/ lit ELSE ~dumpsys \/ lit

\* The node that was found, else dumpsys; without an answer the screen is on.
IsScreenOn ==
  IF DetectScreenNode = "found" /\ backlight THEN lit ELSE ~dumpsys \/ lit

\* DetectBatteryNodes, repeated until a node is found.
DetectBatteryNodes == g_battery_path \/ supply

\* Mutant of IsBatterySafe: a charging battery must reach the minimum too.
IsBatterySafeCapacityOnly == DetectBatteryNodes /\ supply /\ capacity > MinBattery

\* Once a node was found, either the status or the capacity is enough; what
\* cannot be read now speaks for neither.
IsBatterySafe ==
  DetectBatteryNodes /\ (charging \/ (supply /\ capacity > MinBattery))

\* Mutant of DetectThermalZones: the first zone found is enough.
DetectThermalZonesFirst ==
  IF g_thermal_zones # {} \/ ~thermal_protection \/ \A z \in Zones : temp[z] = Missing
    THEN g_thermal_zones
    ELSE {CHOOSE z \in Zones : temp[z] # Missing}

\* DetectThermalZones, repeated while no zone was found; a zone that opens is
\* one, whether or not it can be read.
DetectThermalZones ==
  IF g_thermal_zones # {} \/ ~thermal_protection THEN g_thermal_zones
  ELSE {z \in Zones : temp[z] # Missing}

Readable(z) == temp[z] \notin {Unreadable, Missing}

\* "Some devices report millidegrees (45000), some report degrees (45)".
Degrees(reading) == IF reading > Milli THEN reading \div Milli ELSE reading

IsThermalSafe ==
  \/ ~thermal_protection
  \/ /\ DetectThermalZones # {}
     /\ \A z \in DetectThermalZones : Readable(z) => Degrees(temp[z]) <= Limit

IsMemoryPressureSafe == ~pressure

-----------------------------------------------------------------------------
\* EvaluateIdleState.
Looked ==
  /\ g_backlight_path' = DetectScreenNode
  /\ litAge' = IF lit THEN 0 ELSE litAge
  /\ UNCHANGED <<screenVars, gateVars>>

EvaluateOn ==
  /\ IsScreenOn
  /\ Looked
  /\ offAge' = NotTracked
  /\ result' = "NOT_IDLE"
  /\ UNCHANGED caches

\* Mutant of OffAgeNow: the clock is not started, and the age counts from zero.
OffAgeFromZero == IF offAge = NotTracked THEN IdleDelay + 1 ELSE offAge

OffAgeNow == IF offAge = NotTracked THEN 0 ELSE offAge

EvaluateTooEarly ==
  /\ ~IsScreenOn /\ OffAgeNow < IdleDelay
  /\ Looked
  /\ offAge' = OffAgeNow
  /\ result' = "SCREEN_OFF"
  /\ UNCHANGED caches

\* The gates, each reached only if the ones before it pass.  The screen is
\* still off when IsHeavyForegroundActivity reads it, which answers no.
EvaluateGates ==
  /\ ~IsScreenOn /\ OffAgeNow >= IdleDelay
  /\ Looked
  /\ offAge' = OffAgeNow
  /\ g_battery_path' = DetectBatteryNodes
  /\ g_thermal_zones' = IF IsBatterySafe THEN DetectThermalZones ELSE g_thermal_zones
  /\ result' = IF IsBatterySafe /\ IsThermalSafe /\ IsMemoryPressureSafe
                 THEN "IDLE_CANDIDATE" ELSE "SCREEN_OFF"

EvaluateIdleState == EvaluateOn \/ EvaluateTooEarly \/ EvaluateGates

-----------------------------------------------------------------------------
\* The device: one thing changes at a time.
ScreenChanges ==
  /\ \/ lit' = ~lit /\ UNCHANGED <<backlight, dumpsys>>
     \/ backlight' = ~backlight /\ UNCHANGED <<lit, dumpsys>>
     \/ dumpsys' = ~dumpsys /\ UNCHANGED <<lit, backlight>>
  /\ UNCHANGED <<gateVars, g_backlight_path, caches, offAge, result, litAge>>

BatteryChanges ==
  /\ supply' \in BOOLEAN /\ charging' \in BOOLEAN /\ capacity' \in Capacities
  /\ UNCHANGED <<screenVars, temp, pressure, steady, g_backlight_path, caches, offAge,
                 result, litAge>>

TemperatureChanges ==
  /\ \E z \in Zones : \E reading \in Raw[z] \cup {Unreadable, Missing} :
       /\ temp' = [temp EXCEPT ![z] = reading]
       /\ steady' = IF reading \in Raw[z] THEN steady ELSE steady \ {z}
  /\ UNCHANGED <<screenVars, supply, charging, capacity, pressure, g_backlight_path,
                 caches, offAge, result, litAge>>

PressureChanges ==
  /\ pressure' = ~pressure
  /\ UNCHANGED <<screenVars, supply, charging, capacity, temp, steady, g_backlight_path,
                 caches, offAge, result, litAge>>

Older(age) == IF age = NotTracked \/ age >= IdleDelay THEN age ELSE age + 1
Tick ==
  /\ offAge' = Older(offAge)
  /\ litAge' = Older(litAge)
  /\ UNCHANGED <<screenVars, gateVars, g_backlight_path, caches, result>>

Init ==
  /\ lit \in BOOLEAN /\ backlight \in BOOLEAN /\ dumpsys \in BOOLEAN
  /\ supply \in BOOLEAN /\ charging \in BOOLEAN /\ capacity \in Capacities
  /\ temp \in [Zones -> UNION {Raw[z] : z \in Zones} \cup {Unreadable, Missing}]
  /\ \A z \in Zones : temp[z] \in Raw[z] \cup {Unreadable, Missing}
  /\ steady = {z \in Zones : Readable(z)}
  /\ pressure \in BOOLEAN
  /\ g_backlight_path = "unknown"
  /\ g_battery_path = FALSE
  /\ g_thermal_zones = {}
  /\ offAge = NotTracked
  /\ result = "NOT_IDLE"
  /\ litAge = 0

Device == ScreenChanges \/ BatteryChanges \/ TemperatureChanges \/ PressureChanges
Next == EvaluateIdleState \/ Device \/ Tick

\* The scheduler evaluates again and again, and time passes.
Fairness == WF_vars(EvaluateIdleState) /\ WF_vars(Tick)

Spec == Init /\ [][Next]_vars /\ Fairness

-----------------------------------------------------------------------------
FlagsOK ==
  /\ lit \in BOOLEAN /\ backlight \in BOOLEAN /\ dumpsys \in BOOLEAN
  /\ supply \in BOOLEAN /\ charging \in BOOLEAN /\ pressure \in BOOLEAN
  /\ g_battery_path \in BOOLEAN

TypeOK ==
  /\ FlagsOK
  /\ capacity \in Capacities
  /\ temp \in [Zones -> Int] /\ \A z \in Zones : temp[z] \in Raw[z] \cup {Unreadable, Missing}
  /\ g_backlight_path \in {"unknown", "found", "missing"}
  /\ g_thermal_zones \subseteq Zones
  /\ offAge \in {NotTracked} \cup 0..IdleDelay
  /\ result \in IdleState
  /\ litAge \in 0..IdleDelay
  /\ steady \subseteq Zones

Candidate == EvaluateIdleState /\ result' = "IDLE_CANDIDATE"
TooHot(z) == temp[z] >= (Limit + 1) * Unit[z]

\* A device that was lit at any evaluation within the idle delay is no
\* candidate, whichever sensor answered then and whichever was cached.
CandidateWasDark == [][Candidate => litAge >= IdleDelay]_vars

\* A zone that could be read ever since the start and is a degree above the
\* limit, in its own unit, defers maintenance: the zones kept from the first
\* detection include it.
CandidateIsCool ==
  [][Candidate /\ thermal_protection => \A z \in steady : ~TooHot(z)]_vars

\* The device, whatever the daemon remembers of it, is fit for maintenance: it is
\* dark and says so, its battery suffices, every zone it has can be read and is
\* within the limit.
Fit ==
  /\ ~lit /\ (dumpsys \/ backlight)
  /\ supply /\ (charging \/ capacity > MinBattery)
  /\ thermal_protection =>
       /\ \E z \in Zones : Readable(z)
       /\ \A z \in Zones : temp[z] = Missing \/ (Readable(z) /\ ~TooHot(z))
  /\ ~pressure

\* DetectScreenNode has failed once and only the node would answer now.
ScreenNodeMissed == g_backlight_path = "missing" /\ ~dumpsys
\* A cool reading in millidegrees that is taken for one in degrees.
Misread(z) == Readable(z) /\ Unit[z] = Milli /\ temp[z] > Limit /\ temp[z] <= Milli

\* What one evaluation owes to a fit device, exactly: its idle clock runs on,
\* unless the screen node was missed; and once the delay has passed it is a
\* candidate, unless a zone kept from the detection is misread.  Nothing else
\* that failed before, or is remembered, is held against it.
ServesFit ==
  [][Fit /\ EvaluateIdleState =>
       /\ offAge' = NotTracked <=> ScreenNodeMissed
       /\ offAge >= IdleDelay /\ ~ScreenNodeMissed =>
            (result' = "IDLE_CANDIDATE" <=>
               (thermal_protection => \A z \in g_thermal_zones' : ~Misread(z)))]_vars

\* A device that stays fit becomes a candidate and stays one, whatever failed
\* before, with two exceptions that may last for ever: a screen node missed at
\* the only detection, where dumpsys gives no answer either, and a zone below
\* one degree whose unit is guessed wrongly.
NotBlindForEver ==
  <>[](Fit /\ ~ScreenNodeMissed /\ \A z \in Zones : ~Misread(z)) =>
    <>[](result = "IDLE_CANDIDATE")
=============================================================================
