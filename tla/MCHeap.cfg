SPECIFICATION Spec
CONSTANTS
  HeapStart = 1024
  HeapSize <- MCHeapSize
  Requests <- MCRequests
INVARIANTS
  TypeOK
  ListTilesHeap
  NoFreeNeighbours
  HoldersMatchBlocks
  CountersMatchBlocks
PROPERTY
  ImplementsAllocator
