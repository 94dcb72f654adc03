\* A failing append to the log and a crash of the process alone are enough
\* to lose a write that was reported done.
SPECIFICATION Spec
CONSTANTS
  w1 = w1
  w2 = w2
  w3 = w3
  None = None
  Writer <- MCWriter
  BufferSize = 1
  L0Compact = 1
  L0Stop = 2
  OldFiles = {0}
  MaxWrites = 3
  MaxCrashes = 1
  MaxFaults = 0
  MaxAppendFaults = 1
INVARIANTS
  AckedVisible
CHECK_DEADLOCK FALSE
