SPECIFICATION Spec
CONSTANTS
  Media = {m1, m2}
  Control = {c1}
  Database = {d1}
  Outside = {o1}
  Streams = {s1}
  Size <- SizeOf
  Threshold = 3
  Target = 1
  Ttl = 2
  Now = 2
  MaxCalls = 1
  Faults = {"walk_fails", "undeletable", "disk_full"}
  NoPath = NoPath
  Ended = Ended
INVARIANT OnlyMediaDeleted
