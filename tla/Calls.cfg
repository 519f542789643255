SPECIFICATION Spec
CONSTANTS
  WordBits = 6
  SizeMax = 1000
  Words <- MCWords
  Years <- MCYears
  Jobs <- MCJobs
INVARIANTS
  ReadsExactly
  FormatsAsMeant
  NearestSuggested
  HardwareAgrees
  DatesComeBack
  HeadersOnce
