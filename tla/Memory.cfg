SPECIFICATION Spec
CONSTANTS
  TotalPages = 5
  Reserved = {0, 2}
  PageSize = 2
  VmPages = 3
  RegionSizes = {2, 4}
  UsTop = 5
  StackSizes = {1, 2}
  MaxExits = 1
INVARIANT RegionsDisjoint
INVARIANT StacksDisjoint
INVARIANT LargeStacksMapped
INVARIANT Backed
INVARIANT FramesAccounted
