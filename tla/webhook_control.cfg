SPECIFICATION FairSpec
CONSTANTS
  Requests <- MCRequests
  MaxQueries = 3
  MaxClients = 2
  Faults = {"crash", "logout", "close", "cleanup"}
INVARIANTS
  OneConsumer
  Consistent
  ChecksHold
  SavedExactly
  SavedCertificate
PROPERTIES
  SuccessIsOwn
  Answered
CHECK_DEADLOCK FALSE
