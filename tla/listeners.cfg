SPECIFICATION FairSpec
CONSTANTS
  s1 = s1
  s2 = s2
  Streams = {s1, s2}
  Queries = {q1}
  NoCache = {s1}
  Scenarios <- AllCases
INVARIANTS
  Consistent
  ListenersFed
  DeadStreamsForgotten
  LastOneCancels
  EndReachesAll
  GetFileUnharmed
PROPERTY GetFileAnswered
CHECK_DEADLOCK FALSE
