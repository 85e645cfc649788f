SPECIFICATION FairSpec
CONSTANTS
  Bots = {t1, t2, t3}
  BadTokens = {t3}
  TQueueOf <- OneQueue
  MaxClients = 2
  MaxQuits = 2
INVARIANTS
  Consistent
  HangupIsLast
  DatabasesOutliveClients
  CleanExit
PROPERTY ShutdownCompletes
CHECK_DEADLOCK FALSE
