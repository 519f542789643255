SPECIFICATION Spec
CONSTANTS
  Units <- MCAllUnits
  Inputs <- MCInputs
  Replacements <- MCReplacements
  MaxLen = 8
  Code <- MCCode
  HashBase = 20
  HashSize = 99999989
  High = {"H"}
  Low = {"L"}
INVARIANTS RoundTrip PairsStayWhole
PROPERTY RoundsNeverLengthen
CHECK_DEADLOCK FALSE
