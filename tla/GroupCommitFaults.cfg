\* Failing appends and failing tables, without a crash, in a database opened
\* with up to three level-0 files: one compaction of one of them need not end
\* the wait of a writer.
SPECIFICATION Spec
CONSTANTS
  w1 = w1
  w2 = w2
  w3 = w3
  None = None
  Writer <- MCWriter
  BufferSize = 1
  L0Compact = 1
  L0Stop = 2
  OldFiles = {0, 1, 2, 3}
  MaxWrites = 4
  MaxCrashes = 0
  MaxFaults = 1
  MaxAppendFaults = 1
INVARIANTS
  AckedVisible
PROPERTIES
  EveryWriteReturns
CHECK_DEADLOCK FALSE
