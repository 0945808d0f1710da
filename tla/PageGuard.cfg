SPECIFICATION Spec
CONSTANTS
  TotalPages = 6
  Reserved = {0}
  Bottom = 5
  Sizes = {1, 2, 3}
INVARIANT GuardServes
