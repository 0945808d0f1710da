SPECIFICATION SpecDestroy
CONSTANTS
  MaxOrder = 2
  PageSize = 16
  SlabHeader = 4
  ObjSizes <- SmallObjSizes
  Requests = {15, 25}
INVARIANT LiveInHeap
