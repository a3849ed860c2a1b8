CONSTANTS
  w1 = w1
  w2 = w2
  a = a
  b = b
  Servers = {a, b}
  NoThread = NoThread
  NoRequest = NoRequest
  Workers <- OneWorker
  Requests = {"list_a", "list_ab", "list_b2", "get", "set", "set2", "incr", "stats", "empty"}
  Kind <- MCKind
  NumKeys <- MCNumKeys
  ServerList <- MCServerList
  Client <- MCClient
  Async <- MCAsync
  MaxKeys = 2
  PipeCap = 1
  MaxSockets = 2
  MgetMayFail = TRUE
SPECIFICATION Spec
INVARIANTS
  FlowInv
PROPERTIES
  AckedListInstalled
  AckedSetRunsFirst
CHECK_DEADLOCK FALSE
