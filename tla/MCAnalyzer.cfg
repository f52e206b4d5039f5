SPECIFICATION Spec
CONSTANTS
  p = p
  cache = cache
  code_cache = code_cache
  external = external
  Packages = {p}
  Order <- MCOrder
  Owner <- MCOwner
  SystemApps = {}
  External = {external}
  include_user_apps = TRUE
  include_system_apps = TRUE
  include_external_cache = TRUE
  Stuck = {external}
  Bulky = {cache}
  Quota = 1
  Threshold = 1
  Large = 0
  Huge = 1
  Fast = 0
  Massive = 2
  Width = 8
  Cooldown = 2
  Day = 2
  EpochAge = 6
  MaxAge = 2
  MaxSize = 2
  Setback = 1
INVARIANTS
  TypeOK
PROPERTIES
  CooldownKept
  PassedOverOnlyIfRecent
  DueIsCleaned
