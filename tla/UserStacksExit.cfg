SPECIFICATION Spec
CONSTANTS
  TotalPages = 6
  Reserved = {0}
  UsTop = 4
  Sizes = {1}
INVARIANT SurvivorsMapped
