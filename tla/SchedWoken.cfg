SPECIFICATION FairSpec
CONSTANTS
  w1 = w1
  w2 = w2
  Workers = {w1, w2}
  Users = {}
  Procs = {}
  Home <- HomeOnto
  MainProcess = {"NULL"}
PROPERTY WokenRuns
