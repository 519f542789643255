SPECIFICATION Spec
CONSTANTS
  MaxDepth = 4
  Documents <- MCDocuments
  Foreign <- MCForeign
  Base62Chars <- MCBase62Chars
  WordSize = 65536
INVARIANTS AcceptsExactly TableStandsForValues RoundTrip
CHECK_DEADLOCK FALSE
