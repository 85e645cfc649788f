SPECIFICATION Spec
CONSTANTS
  s1 = s1
  s2 = s2
  Streams = {s1}
  Queries = {}
  NoCache = {}
  Scenarios <- EarlyEnd
INVARIANT NoUnwantedDownload
CHECK_DEADLOCK FALSE
