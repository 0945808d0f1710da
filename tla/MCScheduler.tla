---------------------------- MODULE MCScheduler ----------------------------
(***************************************************************************)
(* Small instances of Scheduler for TLC.                                   *)
(***************************************************************************)
EXTENDS Scheduler, TLC

(* Every process has a user thread.                                        *)
HomeOnto ==
  CHOOSE h \in [Users -> Procs] : \A p \in Procs : \E u \in Users : h[u] = p

(* Kernel threads are interchangeable.                                     *)
WorkerSymmetry == Permutations(Workers)
=============================================================================
