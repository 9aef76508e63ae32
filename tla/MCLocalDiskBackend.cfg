SPECIFICATION MCSpec
CONSTANTS
  engine = engine
  scheduler = scheduler
  controller = controller
  k1 = k1
  Keys = {k1, k2, k3}
  Threads = {engine, scheduler, controller}
  Ops <- ServingOps
  Size <- OneByte
  MaxCacheSize = 2
  Slots = {1, 2}
  StoreOnce = TRUE
  NoKey = NoKey
  NoThread = NoThread
  GdsKeys = {"x"}
  Instances = {1, 2}
  Backends = {"gds", "weka"}
  Seeds <- MCSeeds
  MaxDraws = 1
  MaxCrashes = 1
  MaxErrors = 1
INVARIANTS
  EntryHasWholeFile
  NoOrphanFile
  SizeIsExactServing
  AdvertisedIsWhole
PROPERTY
  SaveEndsServing
CHECK_DEADLOCK FALSE
