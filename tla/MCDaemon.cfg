SPECIFICATION Spec
CONSTANTS
  MaxSize = 1
  Keep = 1
  MaxLines = 6
  MaxStarts = 3
INVARIANTS
  TypeOK
  NoUseAfterClose
  NoLineDropped
  ReportIsContiguous
  ReportIsBounded
PROPERTIES
  SignalEndsDaemon
CHECK_DEADLOCK FALSE
