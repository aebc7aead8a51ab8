SPECIFICATION FairSpec
CONSTANTS
  Dirs = {spool}
  Lengths = {2, 3}
  Faults = {"address"}
  Chunks = 2
  MaxTime = 4
  MaxLookups = 2
  MaxStarts = 3
  MaxFaults = 1
PROPERTIES ImplementsPeriodLog PeriodIsPublished ShutdownEnds
CHECK_DEADLOCK FALSE
