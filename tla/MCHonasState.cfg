SPECIFICATION LookupSpec
CONSTANTS
  NumFilters = 2
  FilterBits = 6
  Page = 4
  Header = 3
  NumRegs = 2
  RegBits = 2
  c1 = c1
  c2 = c2
  NoEntity = NoEntity
  Clients <- MCClients
  Queries <- MCQueries
  Lower <- MCLower
  FiltersOf <- MCFiltersOf
  OffsetsOf <- MCOffsetsOf
  RegOf <- MCRegOf
  RankOf <- MCRankOf
  Times = {1, 2}
  Periods <- MCPeriods
  Files = {fa, fb}
  MaxRequests = 3
  MaxSaves = 4
  FilterSizes = {1, 2}
  OffsetCounts = {1, 3, 5, 9}
  Wrap = 32
  SetSizes = {1, 4, 6}
INVARIANTS
  OffsetsSorted
  PicksFreeBit
  SubsetSorted
  NeverRunsOff
  RankIsCount
  NoFalseNegativeApart
  HostNamesCounted
  HeaderAgrees
SYMMETRY FileSymmetry
CHECK_DEADLOCK FALSE
