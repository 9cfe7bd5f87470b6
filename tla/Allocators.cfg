SPECIFICATION Spec
CONSTANTS
  CONFIG_HEAP = 248
  Places = {64, 68}
  HeapRequests = {0, 33}
  MaxBlocks = 4
  PoolSizes = {5}
  PoolAmounts = {2, 3}
  MaxBits = {8, 20}
  Caps = {10}
  RegionRequests = {1, 4, 60, 130, 1030}
  U32 = 1024
  MaxPools = 4
  MaxLive = 5
  Node <- MCNodes
  NIL = NIL
  MEM_HEAP = 804
  Skews = {0, 4}
  MemRequests = {0, 5, 85}
  NodeValue <- MCNodeValue
  Usual <- MCUsual
  Spare <- MCSpare
  Fill <- MCFill
INVARIANTS
  Tiled FreeListExact MetadataSafe
  PoolListExact PoolBytesApart
  BlocksFit BlocksDisjoint
  MemTiled MemTreeExact BestFit
  TreeBalanced EndsCached TreeSearches
PROPERTIES ImplementsOrderedNodes
CHECK_DEADLOCK FALSE
