SPECIFICATION Spec
CONSTANTS
  t1 = t1
  t2 = t2
  b1 = b1
  b2 = b2
  b3 = b3
  b4 = b4
  f1 = f1
  null = null
  Threads <- MCThreads
  Blocks <- MCBlocks
  Fragments <- MCFragments
  Slabs = {0, 1}
  RootObjects = 1
  CacheObjects = 2
  Null = null
  Sizes = {0, 2, 5, 14, 15}
  SIZE_MOD = 16
  MaxPtrs = 4
  PAGE_SIZE = 4
  HeaderSize = 1
  PENGUIN_MALLOC_SLABS = 2
  PENGUIN_MALLOC_MIN_SLAB_SIZE = 1
SYMMETRY Symmetry
INVARIANTS ObjectsAccounted FirstFreeHasRoom HeaderNamesOwner OneInside
