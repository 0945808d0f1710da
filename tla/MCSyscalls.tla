----------------------------- MODULE MCSyscalls -----------------------------
(***************************************************************************)
(* Syscalls with the instances and the refinement of MCScheduler.          *)
(***************************************************************************)
EXTENDS Syscalls, MCScheduler
=============================================================================
