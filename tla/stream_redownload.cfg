SPECIFICATION Spec
CONSTANTS
  MaxInt64 = 9
  Absent = Absent
  Malformed = Malformed
  TotalSize = 3
  ChunkSize = 2
  Requests <- OneGet
  Initial = {"nothing", "part", "all"}
  Generations = 2
  MaxInbox = 3
INVARIANT OnlyFileBytes
CHECK_DEADLOCK FALSE
