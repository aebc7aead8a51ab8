SPECIFICATION StartupSpec
CONSTANTS
  MAX_FILE_LINE_LENGTH = 4
  MaxInclude = 2
  Fields <- MCFields
  Required <- MCRequired
  Unset = "unset"
  Main = 1
  PlainNames = {3, 4}
  FileSystems <- MCFileSystems
  ByteBits = 2
  Width <- MCWidth
  Definable <- MCDefinable
  Names <- MCNames
  MaxPrefixes = 2
  MaxEntities = 2
  HLL_P = 3
  HashBits = 64
  HLL_SPARSE_VAL_MAX_VALUE = 32
  HLL_SPARSE_VAL_MAX_LEN = 3
  HLL_SPARSE_ZERO_MAX_LEN = 2
  HLL_SPARSE_XZERO_MAX_LEN = 8
  HLL_SPARSE_MAX_BYTES = 4
  Hashes <- MCHashes
  Others <- MCOthers
  Estimate <- MCEstimate
  Lookups <- MCLookups
  HoursPerDay = 2
  MaxHours = 4
  MaxQueries = 2
INVARIANTS
  WholeOrExit
  LongestMatch
  MaximaRight
  SparseSound
  RegistersAgree
  CachedIsCurrent
PROPERTY ReadsEnd
CHECK_DEADLOCK FALSE
