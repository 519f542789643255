SPECIFICATION Spec
CONSTANTS
  Chars <- MCChars
  Newline = "nl"
  Zero = "0"
  Messages <- MCMessages
  Prefix <- NoPrefix
  Capacity = 7
  MaxMessages = 3
  Levels = {0, 1}
  MinLevel = 1
PROPERTY LogPromise
