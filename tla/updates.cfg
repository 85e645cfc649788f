SPECIFICATION FairSpec
CONSTANTS
  MaxId = 10
  FreshIds <- MCFreshIds
  MaxQueueEvents = 2
  FutureIds = 1
  MaxUpdates = 3
  MaxChat = 2
  Traffic <- MCTraffic
  Forever <- MCForever
  Limits <- MCLimits
  PollTimeout = 2
  WaitAfter = 1
  MaxDelay = 1
  MaxConnections = 2
  RetryAfter <- MCRetryAfter
  MaxResend = 1
  MaxUnflushed = 0
  MaxSwitches = 1
  Faults <- MCFaults
INVARIANTS
  Consistent
  Accounted
  RestartExact
  Scheduled
  InOrder
  PollOnTime
PROPERTY Delivered
CHECK_DEADLOCK FALSE
