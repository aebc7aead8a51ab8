SPECIFICATION SearchSpec
CONSTANTS
  plain = plain
  solidus = solidus
  tilde = tilde
  h0 = h0
  h1 = h1
  h12 = h12
  h23 = h23
  Names = {plain, solidus, tilde}
  Kind <- MCKind
  Hashes = {h0, h1, h12, h23}
  Hits <- MCHits
  Undecodable = "undecodable"
  Ids = {7}
  number_of_filters = 3
  number_of_filters_per_user = 2
INVARIANTS
  InContext
  ResultIsJson
  HitsByAllHostnames
  GroupReported
CHECK_DEADLOCK FALSE
