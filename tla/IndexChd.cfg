SPECIFICATION Spec
CONSTANTS
  Strings <- MCStrings
  Length <- MCLength
  KeyCount = 4
  KeyViews <- SharedLengths
  LookupThreshold = 2
  ChdThreshold = 3
  LookupTableSize = 1
  ChdBucketCount = 4
  ChdTableSize = 8
  SeedLimit = 5
  CoarseStep = 2
  NarrowHalf = 2
  WideHalf = 8
  HashFamily <- MCHashes
INVARIANTS SettledKeysFound GivesUpExhausted
PROPERTY IndexPromise
CHECK_DEADLOCK FALSE
