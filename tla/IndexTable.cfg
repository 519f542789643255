SPECIFICATION Spec
CONSTANTS
  Strings <- MCStrings
  Length <- MCLength
  KeyCount = 4
  KeyViews <- SharedLengths
  LookupThreshold = 4
  ChdThreshold = 8
  LookupTableSize = 16
  ChdBucketCount = 1
  ChdTableSize = 1
  SeedLimit = 6
  CoarseStep = 3
  NarrowHalf = 4
  WideHalf = 8
  HashFamily <- MCHashes
INVARIANT TableIsPerfect
PROPERTIES IndexPromise CompileFinishes
CHECK_DEADLOCK FALSE
