SPECIFICATION Spec
CONSTANTS
  MaxOpen = 3
  MaxCount = 4
  QueueCap = 4
  BatchCap = 2
INVARIANTS
  TypeOK
  MutedOnlyForRing
  CountConserved
PROPERTIES
  RoutesExactlyFirst
  FirstStreamRouted
  NewCallUnmuted
  StopJoins
CHECK_DEADLOCK FALSE
