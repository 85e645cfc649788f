SPECIFICATION Spec
CONSTANTS
  MaxInt64 = 9
  Absent = Absent
  Malformed = Malformed
  TotalSize = 3
  ChunkSize = 2
  Requests <- OneHead
  Initial = {"nothing", "part", "all"}
  Generations = 1
  MaxInbox = 3
INVARIANT HeadHasNoBody
CHECK_DEADLOCK FALSE
