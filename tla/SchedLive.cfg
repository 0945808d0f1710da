SPECIFICATION FairSpec
CONSTANTS
  w1 = w1
  w2 = w2
  u1 = u1
  p1 = p1
  Workers = {w1, w2}
  Users = {u1}
  Procs = {p1}
  Home <- HomeOnto
  MainProcess = {"NULL"}
INVARIANT UserStackTracked
PROPERTY DeadReaped
PROPERTY RingTurn
PROPERTY IsRoundRobin
