SPECIFICATION Spec
CONSTANTS
  Dirs = {spool, archive}
  Lengths = {2, 3}
  Faults = {}
  Chunks = 2
  MaxTime = 4
  MaxLookups = 2
  MaxStarts = 3
  MaxFaults = 0
PROPERTY ShutdownKeepsState
CHECK_DEADLOCK FALSE
