SPECIFICATION Spec
CONSTANTS
  skin = skin
  cpu = cpu
  Zones = {skin, cpu}
  Unit <- MCUnit
  Raw <- MCRaw
  IdleDelay = 1
  MinBattery = 25
  Capacities = {25, 26}
  thermal_protection = TRUE
INVARIANTS
  TypeOK
PROPERTIES
  CandidateWasDark
  CandidateIsCool
  ServesFit
  NotBlindForEver
