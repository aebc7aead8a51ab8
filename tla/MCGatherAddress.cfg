SPECIFICATION Spec
CONSTANTS
  Dirs = {spool}
  Lengths = {2, 3}
  Faults = {"address"}
  Chunks = 2
  MaxTime = 4
  MaxLookups = 2
  MaxStarts = 3
  MaxFaults = 1
INVARIANT InvalidIsSkipped
CHECK_DEADLOCK FALSE
