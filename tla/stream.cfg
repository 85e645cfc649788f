SPECIFICATION FairSpec
CONSTANTS
  MaxInt64 = 9
  Absent = Absent
  Malformed = Malformed
  TotalSize = 3
  ChunkSize = 2
  Requests <- AllRequests
  Initial = {"nothing", "part", "all"}
  Generations = 2
  MaxInbox = 2
INVARIANTS
  Consistent
  KeptFileBytes
PROPERTIES
  ImplementsResponse
  EndsWithoutTimer
  Served
CHECK_DEADLOCK FALSE
