SPECIFICATION Spec
CONSTANTS
  Dirs = {spool}
  Lengths = {2, 3}
  Faults = {"kill", "power", "save", "unlink", "bind", "address", "dryrun"}
  Chunks = 2
  MaxTime = 4
  MaxLookups = 2
  MaxStarts = 3
  MaxFaults = 1
INVARIANTS NoLoss OrderedInTime NameFree EntriesComplete
PROPERTY OnlyLoadedIsRemoved
CHECK_DEADLOCK FALSE
