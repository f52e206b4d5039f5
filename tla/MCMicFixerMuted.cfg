SPECIFICATION Spec
CONSTANTS
  MaxOpen = 3
  MaxCount = 4
  QueueCap = 4
  BatchCap = 2
PROPERTY
  ConnectedCallUnmuted
CHECK_DEADLOCK FALSE
