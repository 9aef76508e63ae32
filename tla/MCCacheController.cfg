SPECIFICATION Spec
CONSTANTS
  w1 = w1
  w2 = w2
  Workers = {w1, w2}
  Instances = {"instance1", "instance2"}
  Ips = {"host"}
  Keys = {k1}
  Writers <- OneWriter
  InstanceOf <- OwnInstance
  IpOf <- OneHost
  Stopping = {w1}
  Cleared = {"instance1"}
  MaxBatch = 2
  MaxStarts = 2
  QueueBound = 1
  PipeBound = 1
  NoInstance = NoInstance
INVARIANTS
  EntryIsCachedOrEvicting
  DeregisteredIsListed
PROPERTIES
  StaleEntryLeaves
CHECK_DEADLOCK FALSE
