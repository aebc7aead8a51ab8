SPECIFICATION ArchiveSpec
CONSTANTS
  d1 = d1
  d2 = d2
  p1 = p1
  p2 = p2
  p3 = p3
  None = None
  Days = {d1, d2}
  Periods = {p1, p2}
  Required = 2
INVARIANT AllDatesWritten
