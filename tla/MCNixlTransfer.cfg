SPECIFICATION Spec
CONSTANTS
  prefill1 = prefill1
  prefill2 = prefill2
  k1 = k1
  k2 = k2
  k3 = k3
  Senders = {prefill1, prefill2}
  Keys = {k1, k2, k3}
  Size <- Sizes
  Capacity = 3
  TransferUnit = 2
  Stores <- StoreLists
  MaxStores <- StoreCounts
  MaxFailures = 1
  RecentAdds = 1
  RecycleThreshold = 2
  None = None
INVARIANTS
  WriteExcludesRead
PROPERTIES
  DeliversStreams
  StoreEnds
CHECK_DEADLOCK FALSE
