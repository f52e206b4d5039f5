------------------------- MODULE IdleDetectorProofs -------------------------
(***************************************************************************)
(* Theorems about IdleDetector: whatever nodes appear, disappear or fail,  *)
(* a lit device and a hot one are no candidates, and one that is fit is,   *)
(* but for two named cases, for every idle delay, set of zones and range   *)
(* of readings.                                                            *)
(***************************************************************************)
EXTENDS IdleDetector, TLAPS

\* The idle clock never runs for longer than the device has been dark.
ClockInv == offAge # NotTracked => litAge >= offAge

\* A zone that could always be read can be read now, and is among the zones
\* kept from the detection.
SteadyInv ==
  /\ \A z \in steady : temp[z] \in Raw[z]
  /\ g_thermal_zones = {} \/ steady \subseteq g_thermal_zones

DetectorInv == TypeOK /\ ClockInv /\ SteadyInv

-----------------------------------------------------------------------------
\* A lit device reads as lit, whichever sensor answers.
LEMMA LitIsSeen == ASSUME ~IsScreenOn PROVE ~lit
  BY DEF IsScreenOn

\* The detection keeps every zone that could always be read.
LEMMA DetectionKeepsSteady ==
  ASSUME TypeOK, SteadyInv, thermal_protection, DetectThermalZones # {}
  PROVE  steady \subseteq DetectThermalZones
  BY SensorAssumption DEF TypeOK, SteadyInv, DetectThermalZones, Unreadable, Missing

\* A reading within the limit, after the guess of its unit, is not too hot in
\* its own unit.
LEMMA GuessedUnit ==
  ASSUME NEW z \in Zones, temp[z] \in Raw[z], Degrees(temp[z]) <= Limit
  PROVE  ~TooHot(z)
<1>1. temp[z] \in Int /\ temp[z] <= 1000 * Unit[z] /\ Unit[z] \in {1, Milli}
  BY SensorAssumption
<1>2. CASE Unit[z] = 1
  BY <1>1, <1>2 DEF Degrees, TooHot, Limit, Milli
<1>3. CASE Unit[z] = Milli
  <2>1. CASE temp[z] > Milli
    <3>1. temp[z] \div 1000 <= 45
      BY <2>1 DEF Degrees, Limit, Milli
    <3>2. temp[z] < 46000
      BY <1>1, <3>1
    <3>3. QED
      BY <1>1, <1>3, <3>2 DEF TooHot, Limit, Milli
  <2>2. CASE ~(temp[z] > Milli)
    BY <1>1, <1>3, <2>2 DEF TooHot, Limit, Milli
  <2>3. QED
    BY <2>1, <2>2
<1>4. QED
  BY <1>1, <1>2, <1>3

\* The detector starts without a clock and without a zone.
LEMMA InitDetector == Init => DetectorInv
<1> SUFFICES ASSUME Init PROVE DetectorInv
  OBVIOUS
<1>1. FlagsOK
  BY Zenon DEF Init, FlagsOK
<1>2. temp \in [Zones -> Int]
  <2>1. \A z \in Zones : Raw[z] \cup {Unreadable, Missing} \subseteq Int
    BY SensorAssumption DEF Unreadable, Missing
  <2>2. QED
    BY <2>1 DEF Init
<1>3. TypeOK
  BY <1>1, <1>2, SensorAssumption DEF Init, TypeOK, IdleState
<1>4. ClockInv /\ SteadyInv
  BY DEF Init, ClockInv, SteadyInv, Readable
<1>5. QED
  BY <1>3, <1>4 DEF DetectorInv

\* An evaluation keeps the invariant.
LEMMA EvaluationKeeps == DetectorInv /\ EvaluateIdleState => DetectorInv'
<1> SUFFICES ASSUME DetectorInv, EvaluateIdleState PROVE DetectorInv'
  OBVIOUS
<1> USE DEF screenVars, gateVars, caches
<1>1. Looked /\ (IsScreenOn => offAge' = NotTracked) /\ (~IsScreenOn => offAge' = OffAgeNow)
  BY Zenon DEF EvaluateIdleState, EvaluateOn, EvaluateTooEarly, EvaluateGates
<1>2. FlagsOK'
  <2>1. g_battery_path' \in BOOLEAN
    <3>1. g_battery_path' = g_battery_path \/ g_battery_path' = DetectBatteryNodes
      BY Zenon DEF EvaluateIdleState, EvaluateOn, EvaluateTooEarly, EvaluateGates
    <3>2. QED
      BY <3>1, Zenon DEF DetectorInv, TypeOK, FlagsOK, DetectBatteryNodes
  <2>2. QED
    BY <1>1, <2>1, Zenon DEF Looked, DetectorInv, TypeOK, FlagsOK
<1>3. g_thermal_zones' \in {g_thermal_zones, DetectThermalZones}
  BY DEF EvaluateIdleState, EvaluateOn, EvaluateTooEarly, EvaluateGates
<1>4. offAge' \in {NotTracked} \cup 0..IdleDelay /\ litAge' \in 0..IdleDelay
  BY <1>1, SensorAssumption DEF Looked, OffAgeNow, DetectorInv, TypeOK, NotTracked
<1>5. g_backlight_path' \in {"unknown", "found", "missing"} /\ result' \in IdleState
  <2>1. g_backlight_path' \in {"unknown", "found", "missing"}
    BY <1>1 DEF Looked, DetectScreenNode, DetectorInv, TypeOK
  <2>2. result' \in IdleState
    BY DEF EvaluateIdleState, EvaluateOn, EvaluateTooEarly, EvaluateGates, IdleState
  <2>3. QED
    BY <2>1, <2>2
<1>6. g_thermal_zones' \subseteq Zones
  BY <1>3 DEF DetectThermalZones, DetectorInv, TypeOK
<1>7. TypeOK'
  BY <1>1, <1>2, <1>4, <1>5, <1>6 DEF Looked, DetectorInv, TypeOK
<1>8. ClockInv'
  <2>1. CASE IsScreenOn
    BY <1>1, <2>1 DEF ClockInv
  <2>2. CASE ~IsScreenOn
    <3>1. litAge' = litAge
      BY <1>1, <2>2, LitIsSeen DEF Looked
    <3>2. QED
      BY <1>1, <2>2, <3>1 DEF OffAgeNow, DetectorInv, TypeOK, ClockInv, NotTracked
  <2>3. QED
    BY <2>1, <2>2
<1>9. SteadyInv'
  <2>1. temp' = temp /\ steady' = steady
    BY <1>1 DEF Looked
  <2>2. g_thermal_zones' = {} \/ steady \subseteq g_thermal_zones'
    <3>1. CASE thermal_protection
      BY <1>3, <3>1, DetectionKeepsSteady DEF DetectorInv, SteadyInv
    <3>2. CASE ~thermal_protection
      BY <1>3, <3>2 DEF DetectThermalZones, DetectorInv, SteadyInv
    <3>3. QED
      BY <3>1, <3>2
  <2>3. QED
    BY <2>1, <2>2 DEF DetectorInv, SteadyInv
<1>10. QED
  BY <1>7, <1>8, <1>9 DEF DetectorInv

\* Changes of the device and the passing of time keep it.
LEMMA DeviceKeeps == DetectorInv /\ (Device \/ Tick) => DetectorInv'
<1> SUFFICES ASSUME DetectorInv, Device \/ Tick PROVE DetectorInv'
  OBVIOUS
<1> USE DEF screenVars, gateVars, caches, DetectorInv
<1>1. FlagsOK'
  <2>1. CASE ScreenChanges
    BY <2>1, Zenon DEF ScreenChanges, TypeOK, FlagsOK
  <2>2. CASE BatteryChanges
    BY <2>2, Zenon DEF BatteryChanges, TypeOK, FlagsOK
  <2>3. CASE TemperatureChanges
    BY <2>3, Zenon DEF TemperatureChanges, TypeOK, FlagsOK
  <2>4. CASE PressureChanges
    BY <2>4, Zenon DEF PressureChanges, TypeOK, FlagsOK
  <2>5. CASE Tick
    BY <2>5, Zenon DEF Tick, TypeOK, FlagsOK
  <2>6. QED
    BY <2>1, <2>2, <2>3, <2>4, <2>5 DEF Device
<1>2. CASE ScreenChanges
  BY <1>1, <1>2 DEF ScreenChanges, TypeOK, ClockInv, SteadyInv
<1>3. CASE BatteryChanges
  BY <1>1, <1>3 DEF BatteryChanges, TypeOK, ClockInv, SteadyInv
<1>4. CASE TemperatureChanges
  <2>1. PICK z \in Zones : \E reading \in Raw[z] \cup {Unreadable, Missing} :
          /\ temp' = [temp EXCEPT ![z] = reading]
          /\ steady' = IF reading \in Raw[z] THEN steady ELSE steady \ {z}
    BY <1>4 DEF TemperatureChanges
  <2>2. PICK reading \in Raw[z] \cup {Unreadable, Missing} :
          /\ temp' = [temp EXCEPT ![z] = reading]
          /\ steady' = IF reading \in Raw[z] THEN steady ELSE steady \ {z}
    BY <2>1
  <2>3. reading \in Int
    BY SensorAssumption DEF Unreadable, Missing
  <2>4. TypeOK'
    BY <1>1, <1>4, <2>2, <2>3 DEF TemperatureChanges, TypeOK
  <2>5. ClockInv'
    BY <1>4 DEF TemperatureChanges, ClockInv
  <2>6. SteadyInv'
    BY <1>4, <2>2 DEF TemperatureChanges, TypeOK, SteadyInv
  <2>7. QED
    BY <2>4, <2>5, <2>6
<1>5. CASE PressureChanges
  BY <1>1, <1>5 DEF PressureChanges, TypeOK, ClockInv, SteadyInv
<1>6. CASE Tick
  BY <1>1, <1>6, SensorAssumption
  DEF Tick, Older, TypeOK, ClockInv, SteadyInv, NotTracked
<1>7. QED
  BY <1>2, <1>3, <1>4, <1>5, <1>6 DEF Device

\* The two facts the detector relies on are invariants of it.
THEOREM DetectorInvariant == Spec => []DetectorInv
<1>1. DetectorInv /\ [Next]_vars => DetectorInv'
  <2> SUFFICES ASSUME DetectorInv, [Next]_vars PROVE DetectorInv'
    OBVIOUS
  <2>1. CASE UNCHANGED vars
    BY <2>1 DEF vars, screenVars, gateVars, caches, DetectorInv, TypeOK, FlagsOK, ClockInv,
         SteadyInv
  <2>2. CASE Next
    BY <2>2, EvaluationKeeps, DeviceKeeps DEF Next
  <2>3. QED
    BY <2>1, <2>2
<1>2. QED
  BY InitDetector, <1>1, PTL DEF Spec

\* The detector's variables keep their types.
THEOREM DetectorTypeCorrect == Spec => []TypeOK
  BY DetectorInvariant, PTL DEF DetectorInv

\* EvaluateIdleState answers IDLE_CANDIDATE only for a device that no
\* evaluation within the delay met lit.
THEOREM DarkBeforeCandidate == Spec => CandidateWasDark
<1>1. DetectorInv /\ [Next]_vars => [Candidate => litAge >= IdleDelay]_vars
  <2> SUFFICES ASSUME DetectorInv, Candidate PROVE litAge >= IdleDelay
    OBVIOUS
  <2>1. ~IsScreenOn /\ OffAgeNow >= IdleDelay
    BY DEF Candidate, EvaluateIdleState, EvaluateOn, EvaluateTooEarly, EvaluateGates
  <2>2. QED
    BY <2>1, SensorAssumption DEF DetectorInv, TypeOK, ClockInv, OffAgeNow, NotTracked
<1>2. QED
  BY DetectorInvariant, <1>1, PTL DEF Spec, CandidateWasDark

\* EvaluateIdleState answers IDLE_CANDIDATE only if no zone that could always
\* be read is a degree above the limit.
THEOREM CoolBeforeCandidate == Spec => CandidateIsCool
<1>1. DetectorInv /\ [Next]_vars =>
        [Candidate /\ thermal_protection => \A z \in steady : ~TooHot(z)]_vars
  <2> SUFFICES ASSUME DetectorInv, Candidate, thermal_protection, NEW z \in steady
               PROVE  ~TooHot(z)
    OBVIOUS
  <2>1. IsThermalSafe
    BY DEF Candidate, EvaluateIdleState, EvaluateOn, EvaluateTooEarly, EvaluateGates
  <2>2. z \in DetectThermalZones
    BY <2>1, DetectionKeepsSteady DEF IsThermalSafe, DetectorInv
  <2>3. z \in Zones /\ temp[z] \in Raw[z] /\ Readable(z)
    BY SensorAssumption DEF DetectorInv, TypeOK, SteadyInv, Readable, Unreadable, Missing
  <2>4. Degrees(temp[z]) <= Limit
    BY <2>1, <2>2, <2>3 DEF IsThermalSafe
  <2>5. QED
    BY <2>3, <2>4, GuessedUnit
<1>2. QED
  BY DetectorInvariant, <1>1, PTL DEF Spec, CandidateIsCool

\* A readable zone is within the limit for IsThermalSafe exactly if it is cool
\* in its own unit and not misread.
LEMMA CoolExactly ==
  ASSUME NEW z \in Zones, temp[z] \in Raw[z], Readable(z)
  PROVE  Degrees(temp[z]) <= Limit <=> ~TooHot(z) /\ ~Misread(z)
<1>1. temp[z] \in Int /\ temp[z] <= 1000 * Unit[z] /\ Unit[z] \in {1, Milli}
  BY SensorAssumption
<1>2. CASE Unit[z] = 1
  BY <1>1, <1>2 DEF Degrees, TooHot, Misread, Limit, Milli
<1>3. CASE Unit[z] = Milli
  <2>1. CASE temp[z] > Milli
    <3>1. Degrees(temp[z]) = temp[z] \div 1000 /\ ~Misread(z)
      BY <1>1, <2>1 DEF Degrees, Misread, Milli
    <3>2. temp[z] \div 1000 <= 45 <=> temp[z] < 46000
      BY <1>1
    <3>3. TooHot(z) <=> ~(temp[z] < 46000)
      BY <1>1, <1>3 DEF TooHot, Limit, Milli
    <3>4. QED
      BY <3>1, <3>2, <3>3 DEF Limit
  <2>2. CASE ~(temp[z] > Milli)
    BY <1>1, <1>3, <2>2 DEF Degrees, TooHot, Misread, Limit, Milli
  <2>3. QED
    BY <2>1, <2>2
<1>4. QED
  BY <1>1, <1>2, <1>3

\* EvaluateIdleState lets the idle clock of a fit device run on unless the screen
\* node was missed at its only detection and dumpsys is silent, and once the
\* delay has passed answers IDLE_CANDIDATE unless a zone it kept is misread.  No
\* other state of the backlight, battery and thermal nodes kept from earlier
\* evaluations makes a difference.
THEOREM FitIsServed == Spec => ServesFit
<1> DEFINE Unhurt == thermal_protection => \A z \in g_thermal_zones' : ~Misread(z)
           Served == Fit /\ EvaluateIdleState =>
             /\ offAge' = NotTracked <=> ScreenNodeMissed
             /\ offAge >= IdleDelay /\ ~ScreenNodeMissed =>
                  (result' = "IDLE_CANDIDATE" <=>
                     (thermal_protection => \A z \in g_thermal_zones' : ~Misread(z)))
<1>1. ASSUME DetectorInv, Fit, EvaluateIdleState PROVE Served
  <2>1. IsScreenOn <=> ScreenNodeMissed
    BY <1>1 DEF Fit, IsScreenOn, ScreenNodeMissed, DetectScreenNode, DetectorInv, TypeOK
  <2>2. OffAgeNow # NotTracked /\ (offAge >= IdleDelay => OffAgeNow = offAge)
    BY <1>1, SensorAssumption DEF OffAgeNow, NotTracked, DetectorInv, TypeOK
  <2>3. offAge' = NotTracked <=> ScreenNodeMissed
    <3>1. CASE IsScreenOn
      BY <1>1, <2>1, <3>1 DEF EvaluateIdleState, EvaluateOn, EvaluateTooEarly, EvaluateGates
    <3>2. CASE ~IsScreenOn
      BY <1>1, <2>1, <2>2, <3>2 DEF EvaluateIdleState, EvaluateOn, EvaluateTooEarly, EvaluateGates
    <3>3. QED
      BY <3>1, <3>2
  <2>4. ASSUME offAge >= IdleDelay, ~ScreenNodeMissed
        PROVE  result' = "IDLE_CANDIDATE" <=> Unhurt
    <3>1. EvaluateGates
      <4>1. ~IsScreenOn /\ OffAgeNow >= IdleDelay
        BY <2>1, <2>2, <2>4
      <4>2. ~(OffAgeNow < IdleDelay)
        BY <1>1, <2>2, <2>4, <4>1, SensorAssumption DEF DetectorInv, TypeOK, NotTracked
      <4>3. QED
        BY <1>1, <4>1, <4>2 DEF EvaluateIdleState, EvaluateOn, EvaluateTooEarly
    <3>2. IsBatterySafe /\ IsMemoryPressureSafe
      BY <1>1 DEF Fit, IsBatterySafe, DetectBatteryNodes, IsMemoryPressureSafe
    <3>3. g_thermal_zones' = DetectThermalZones /\ (result' = "IDLE_CANDIDATE" <=> IsThermalSafe)
      BY <3>1, <3>2 DEF EvaluateGates
    <3>4. IsThermalSafe <=> Unhurt
      <4>1. CASE ~thermal_protection
        BY <4>1 DEF IsThermalSafe
      <4>2. CASE thermal_protection
        <5>1. DetectThermalZones # {} /\ DetectThermalZones \subseteq Zones
          BY <1>1, <4>2 DEF Fit, Readable, DetectThermalZones, DetectorInv, TypeOK
        <5>2. ASSUME NEW z \in DetectThermalZones
              PROVE  (Readable(z) => Degrees(temp[z]) <= Limit) <=> ~Misread(z)
          <6>1. CASE Readable(z)
            <7>1. z \in Zones /\ temp[z] \in Raw[z]
              BY <1>1, <5>1, <6>1 DEF Readable, DetectorInv, TypeOK
            <7>2. ~TooHot(z)
              BY <1>1, <4>2, <6>1, <7>1 DEF Fit, Readable
            <7>3. QED
              BY <6>1, <7>1, <7>2, CoolExactly
          <6>2. CASE ~Readable(z)
            BY <6>2 DEF Misread
          <6>3. QED
            BY <6>1, <6>2
        <5>3. IsThermalSafe <=> \A z \in DetectThermalZones : ~Misread(z)
          BY <4>2, <5>1, <5>2 DEF IsThermalSafe
        <5>4. QED
          BY <3>3, <4>2, <5>3
      <4>3. QED
        BY <4>1, <4>2
    <3>5. QED
      BY <3>3, <3>4
  <2>5. QED
    BY <2>3, <2>4
<1>2. DetectorInv /\ [Next]_vars => [Served]_vars
  BY <1>1
<1>3. QED
  BY DetectorInvariant, <1>2, PTL DEF Spec, ServesFit
=============================================================================
