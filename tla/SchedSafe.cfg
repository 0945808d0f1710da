SPECIFICATION SSpec
CONSTANTS
  Workers = {w1, w2, w3}
  Users = {u1, u2}
  Procs = {p1, p2}
  Home <- HomeOnto
  MainProcess = {"NULL", "WILD"}
SYMMETRY WorkerSymmetry
INVARIANT TypeOK
INVARIANT RingOK
INVARIANT OneRunning
INVARIANT BlockedQueueOK
INVARIANT MutexOwned
INVARIANT Preemptible
INVARIANT ContextOK
INVARIANT DeadAccounted
INVARIANT NoRunawaySwitch
INVARIANT SyscallStackOK
CHECK_DEADLOCK FALSE
