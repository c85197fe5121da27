CONSTANTS
  Client <- Clients
  HeaderLen = 4
  BufSize = 15
SPECIFICATION Spec
CHECK_DEADLOCK FALSE
INVARIANTS
  BeginsWithBytesRead
