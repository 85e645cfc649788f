SPECIFICATION Spec
CONSTANTS
  Media = {m1}
  Control = {c1, c2}
  Database = {d1}
  Outside = {o1}
  Streams = {s1, s2}
  Size <- SizeOf
  Threshold = 3
  Target = 1
  Ttl = 2
  Now = 2
  MaxCalls = 1
  Faults = {"walk_fails", "undeletable", "disk_full"}
  NoPath = NoPath
  Ended = Ended
INVARIANTS
  Consistent
  OldestFirst
  RoundExact
PROPERTY UsedFilesKept
SYMMETRY Symmetry
