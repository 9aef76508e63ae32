SPECIFICATION Spec
CONSTANTS
  engine = engine
  p2p = p2p
  scheduler = scheduler
  controller = controller
  Threads = {engine, p2p, scheduler, controller}
  Ops <- AllOps
  Keys = {k1, k2}
  Objs = {o1, o2, o3, o4}
  Capacity = 2
  MaxRef = 3
  NoObj = NoObj
  NoThread = NoThread
SYMMETRY Symmetry
INVARIANTS
  RefCountExact
  NoLeak
  StaleEntryIsPending
PROPERTY
  HeldIsNotFreed
VIEW View
