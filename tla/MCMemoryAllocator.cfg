SPECIFICATION MCSpec
CONSTANTS
  Handles = {h1, h2, h3, h4}
  BufferSize = 9
  AlignBytes = 2
  RawSizes = {2, 3}
  BatchSizes = {2}
  MaxFreeBatch = 3
  AllowStaleHead = FALSE
  NoOwner = NoOwner
  Threads = {t1, t2}
  Pages = {1, 2, 3}
  MaxBatch = 2
SYMMETRY Symmetry
INVARIANTS
  EveryByteOwnedOnce
  NoFalseExhaustion
  PagesOwnedOnce
PROPERTY
  AddressSpaceSpec
