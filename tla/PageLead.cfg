SPECIFICATION Spec
CONSTANTS
  Words <- MCWords
  WordSymbols <- MCWords
  MaxParens = 2
  Inputs <- MCLedPages
INVARIANTS PageKept
