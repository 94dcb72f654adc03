\* Three writers, four calls, a memtable for one write, one crash, one fault,
\* in a new database.
SPECIFICATION Spec
CONSTANTS
  w1 = w1
  w2 = w2
  w3 = w3
  None = None
  Writer <- MCWriter
  BufferSize = 1
  L0Compact = 1
  L0Stop = 2
  OldFiles = {0}
  MaxWrites = 4
  MaxCrashes = 1
  MaxFaults = 1
  MaxAppendFaults = 0
INVARIANTS
  TypeOK
  AckedSurvive
  SyncedSurvive
  OneLogger
CHECK_DEADLOCK FALSE
