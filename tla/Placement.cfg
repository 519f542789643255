SPECIFICATION Spec
CONSTANTS
  KeyCount = 3
  Texts = {1, 2, 3, 4}
INVARIANTS NoValueLost AcceptedExactlyWhenMatching RangeInEntryOrder
CHECK_DEADLOCK FALSE
