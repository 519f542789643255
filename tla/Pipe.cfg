SPECIFICATION Spec
CONSTANTS
  SqlReserved <- MCReserved
  Jobs <- MCJobs
  Encoders <- MCEncoders
  Cleaners <- MCCleaners
INVARIANTS
  Holds
  ExactSizes
  WrapsRight
  PiecesJoin
  ValidExactly
PROPERTIES
  TakesBack
  WordsKept
