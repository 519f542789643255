SPECIFICATION Spec
CONSTANTS
  KeyLists <- MCKeyLists
  Queries <- MCQueries
  Byte = 8
  LutThreshold = 2
INVARIANTS TrieTypeOK AnswersRight
PROPERTY ReadyAgain
