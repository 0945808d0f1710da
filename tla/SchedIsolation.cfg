SPECIFICATION Spec
CONSTANTS
  u1 = u1
  u2 = u2
  p1 = p1
  p2 = p2
  Workers = {}
  Users = {u1, u2}
  Procs = {p1, p2}
  Home <- HomeOnto
  MainProcess = {"NULL"}
INVARIANT Isolation
