SPECIFICATION Spec
CONSTANTS
  Ascii <- MCAscii
  DotChars <- MCDotChars
  MaxStrings = 8
  TextCap = 2
  Patterns <- MCPatterns
  Texts <- MCTexts
INVARIANT MatchIsRight
PROPERTIES HitsAreNext Returns
CHECK_DEADLOCK FALSE
