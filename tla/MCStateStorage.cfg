SPECIFICATION Spec
CONSTANTS
  Hashes = {h1, h2}
  Values = {v1}
  Absent = Absent
  DiskMayFail = FALSE
INVARIANTS
  TypeOK
  BinNeverTorn
PROPERTY
  ImplementsAtomicStore
