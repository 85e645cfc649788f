SPECIFICATION FairSpec
CONSTANTS
  Streams = {s1, s2, s3}
  Tokens = {t1, t2}
  MaxConnections = 1
  NoToken = NoToken
INVARIANTS
  TypeOK
  CountsExact
  LimitsHold
  NoSlotLeak
PROPERTY SlotReturned
CHECK_DEADLOCK FALSE
