SPECIFICATION Spec
CONSTANTS
  MaxOrder = 2
  PageSize = 16
  SlabHeader = 4
  ObjSizes <- SmallObjSizes
  Requests = {3, 5, 10, 15, 25, 50}
INVARIANT HeapTiled
INVARIANT MetadataOK
INVARIANT NoLeak
INVARIANT SlabsOK
PROPERTY IsAllocator
