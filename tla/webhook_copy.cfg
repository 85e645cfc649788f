SPECIFICATION Spec
CONSTANTS
  Requests <- MCRequests
  MaxQueries = 3
  MaxClients = 2
  Faults = {"crash", "logout", "close", "cleanup"}
INVARIANT CopyFindsRequest
CHECK_DEADLOCK FALSE
