SPECIFICATION Spec
CONSTANTS
  r = r
  a = a
  b = b
  a1 = a1
  a2 = a2
  x = x
  Root = r
  Nodes <- MCNodes
  Parent <- MCParent
  MaxFiles = 2
  Quota = 2
  MaxDirs = 2
INVARIANTS
  TypeOK
  AtMostOneFileAfterWake
  RecordedMeansEmptied
  RemovalsCounted
PROPERTIES
  NothingTakenTwice
  CleanEnds
