------------------------------ MODULE Syscalls ------------------------------
(***************************************************************************)
(* The system call path on top of the thread core: syscall_entry finds its *)
(* stack through GS, which swapgs swaps with IA32_KERNEL_GS_BASE. FMASK    *)
(* clears IF, so a call is one step. A call of any number but SYS_EXIT     *)
(* swaps twice and changes nothing; SYS_EXIT ends in thread_exit, which    *)
(* does not return to the second swapgs. sstacks.kernel_rsp is written     *)
(* with tss.rsp0 and holds the same stack top.                             *)
(***************************************************************************)
EXTENDS Scheduler

VARIABLES gs,        \* the GS base: "zero", as boot leaves it, or "sstacks"
          kernel_gs  \* IA32_KERNEL_GS_BASE

gsVars == <<gs, kernel_gs>>

(* init_syscalls, which kernel_main calls before sti().                    *)
SInit == Init /\ gs = "zero" /\ kernel_gs = "sstacks"

(* Mutant: KERNEL_GS_BASE is written by init_syscalls only.                *)
KernelGsOnce(g) == kernel_gs' = g

(* The end of scheduler_handler: a thread of a process is switched to with *)
(* KERNEL_GS_BASE, which holds g, written afresh (init_kernel_gs_base).    *)
InitKernelGsBase(g) ==
  kernel_gs' = IF current_thread' # current_thread /\ process[current_thread'] # NULL
               THEN "sstacks" ELSE g

(* A switch from kernel code or by the timer, without a swapgs.            *)
Switching ==
  /\ Timer \/ \E t \in Workers : MutexLockBlock(t) \/ ThreadExit(t)
  /\ InitKernelGsBase(kernel_gs)
  /\ UNCHANGED gs

(* SYS_EXIT: swapgs in syscall_entry, then thread_exit.                    *)
SysExit(u) ==
  /\ ThreadExit(u)
  /\ gs' = kernel_gs
  /\ InitKernelGsBase(gs)

SNext ==
  \/ Switching
  \/ \E u \in Users : SysExit(u)
  \/ /\ \/ Boot
        \/ \E t \in Workers : MutexLockFast(t) \/ MutexUnlock(t)
        \/ Reaper
     /\ UNCHANGED gsVars

SSpec == SInit /\ [][SNext]_<<vars, gsVars>>

-----------------------------------------------------------------------------
(* Whenever a user thread can execute SYSCALL, the swapgs it begins with   *)
(* will make GS point at sstacks, and sstacks.kernel_rsp is that thread's  *)
(* own kernel stack: although every exit leaves GS and KERNEL_GS_BASE      *)
(* swapped, and kernel threads that run next do not put them back.         *)
SyscallStackOK ==
  (cpu = "run" /\ current_thread \in Users)
    => kernel_gs = "sstacks" /\ tss_rsp0 = current_thread
=============================================================================
