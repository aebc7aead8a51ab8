SPECIFICATION LookupSpec
CONSTANTS
  NumFilters = 2
  FilterBits = 6
  Page = 4
  Header = 3
  NumRegs = 2
  RegBits = 2
  c1 = c1
  c2 = c2
  NoEntity = NoEntity
  Clients <- MCClients
  Queries <- MCQueries
  Lower <- MCLower
  FiltersOf <- MCFiltersOf
  OffsetsOf <- MCOffsetsOf
  RegOf <- MCRegOf
  RankOf <- MCRankOf
  Times = {1, 2}
  Periods <- MCPeriods
  Files = {fa, fb}
  MaxRequests = 3
  MaxSaves = 3
  FilterSizes = {1}
  OffsetCounts = {1}
  Wrap = 32
  SetSizes = {1}
INVARIANT NoFalseNegative
CHECK_DEADLOCK FALSE
