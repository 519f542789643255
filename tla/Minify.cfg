SPECIFICATION Spec
CONSTANTS
  Words <- MCWords
  WordSymbols <- MCWords
  MaxParens = 2
  Inputs <- MCInputs
INVARIANTS
  TokensKept
  PageKept
  OutlineKept
  FitsItsBuffer
PROPERTIES
  MovesOn
