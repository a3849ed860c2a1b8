CONSTANTS
  w1 = w1
  w2 = w2
  a = a
  b = b
  Servers = {a, b}
  NoThread = NoThread
  NoRequest = NoRequest
  Workers <- TwoWorkers
  Requests = {"list_a", "list_b", "get3", "aset"}
  Kind <- MCKind
  NumKeys <- MCNumKeys
  ServerList <- MCServerList
  Client <- MCClient
  Async <- MCAsync
  MaxKeys = 2
  PipeCap = 1
  MaxSockets = 4
  MgetMayFail = FALSE
SPECIFICATION FairSpec
INVARIANTS
  RouterInv
  ExactlyOnce
  ServedByCurrentList
PROPERTIES
  
  RequestsAnswered
CHECK_DEADLOCK FALSE
