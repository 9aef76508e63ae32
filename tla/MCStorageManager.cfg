SPECIFICATION MCSpec
CONSTANTS
  engine = engine
  peer = peer
  k1 = k1
  k2 = k2
  Keys = {k1, k2}
  Objs = {o1, o2, o3}
  Futures = {f1, f2}
  Getters = {engine, peer}
  Engine = engine
  Wanted <- EngineAndPeer
  Loop = loop
  Capacity = 3
  None = None
  Instances = {"a", "b", "c"}
  NumBuffers = 1
  Parts = 2
  HighWater = 1
  CopiesOnWrite = TRUE
  MaxGets = 2
  MaxStores = 2
  MaxCrashes = 1
INVARIANTS
  UsersHaveRefs
  TaskIsPending
  PeerGivesOwnChunk
PROPERTIES
  TaskLeaves
  GetsEnd
CHECK_DEADLOCK FALSE
