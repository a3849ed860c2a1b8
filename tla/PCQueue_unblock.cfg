CONSTANTS
  t1 = t1
  t2 = t2
  set = set
  get1 = get1
  get2 = get2
  NoThread = NoThread
  Threads <- MCThreads
  Packets <- MCPackets
  NumKeys <- MCNumKeys
  MaxKeys = 2
  MaxQueue = 1
SPECIFICATION FairSpec
PROPERTIES
  UnblockAllReleases
