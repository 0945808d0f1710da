----------------------------- MODULE Scheduler -----------------------------
(***************************************************************************)
(* The thread core of the kernel on its one CPU: thread creation at boot,  *)
(* the round-robin scheduler_handler, the blocking mutex, thread exit and  *)
(* the idle thread's reaper, with the per-process state a context switch   *)
(* moves (CR3, us_list_head, tss.rsp0).                                    *)
(*                                                                         *)
(* A step is a stretch of code that cannot be preempted: code that runs    *)
(* with IF = 0 is one step, whatever its length; the reaper, which runs    *)
(* with IF = 1, is cut at every access to state it shares.                 *)
(***************************************************************************)
EXTENDS Naturals, FiniteSets

CONSTANTS
  Workers,      \* kernel threads started by create_thread, besides idle
  Users,        \* user threads
  Procs,        \* processes, standing also for their PML4
  Home,         \* the process of a user thread
  MainProcess   \* the values kmalloc's memory may leave in main_thread->process

main == "main"
idle == "idle"
NULL == "NULL"
WILD == "WILD"           \* an indeterminate, non-NULL process pointer
BootPML4 == "boot_pml4"  \* the kernel's own address space

Threads == {main, idle} \cup Workers \cup Users

ASSUME ThreadNames ==
  /\ Workers \cap Users = {}
  /\ {main, idle} \cap (Workers \cup Users) = {}
  /\ NULL \notin Threads /\ WILD \notin Threads

ASSUME ProcessNames ==
  /\ Home \in [Users -> Procs]
  /\ {NULL, WILD, BootPML4} \cap Procs = {}
  /\ MainProcess \subseteq {NULL, WILD}

VARIABLES
  cpu,             \* "boot", "run", "wild" (undefined behaviour), "spin" (for(;;))
  iflag,           \* RFLAGS.IF of the running code
  frame_if,        \* RFLAGS.IF in the frame saved on each thread's stack
  state, next, prev, process,                        \* thread_t
  ready_list_head, dead_list_head, current_thread,
  locked, blocked_head, blocked_tail, next_blocked,  \* one mutex_t
  pc,              \* where a thread is with respect to the mutex
  us_list_head, ustacks_infos, us_next, us_prev,     \* user stack records
  cr3, tss_rsp0,
  unmapped_in,     \* the address space user_free_stack unmapped a stack's pages in
  reap             \* the reaper's place and locals

ringVars == <<next, prev, ready_list_head>>
mutexVars == <<locked, blocked_head, blocked_tail, next_blocked>>
usVars == <<us_list_head, ustacks_infos, us_next, us_prev>>
vars == <<cpu, iflag, frame_if, state, ringVars, process, dead_list_head,
          current_thread, mutexVars, pc, usVars, cr3, tss_rsp0, unmapped_in,
          reap>>

(* The states in which scheduler_handler picks a thread.                   *)
Runnable == {"READY", "RUNNING"}
States == {"NONE", "READY", "RUNNING", "BLOCKED", "DEAD", "FREED"}

(* The steps of destroy_thread between which idle can be preempted.        *)
ReapSteps == {"idle", "destroy", "rdcr3", "setlist", "setcr3", "find",
              "unmap", "unlink", "putlist", "rstlist", "rstcr3"}

(* The nodes on the pointer chain f from s: those in every set that holds  *)
(* s and is closed under f.                                                *)
Reach(f, s) ==
  IF s = NULL THEN {}
  ELSE {x \in DOMAIN f :
          \A S \in SUBSET DOMAIN f :
            (s \in S /\ \A y \in S : f[y] # NULL => f[y] \in S) => x \in S}

-----------------------------------------------------------------------------
(* The state after init_scheduler has made main_thread. Its record is not  *)
(* cleared, so process holds what the heap memory held.                    *)
Init ==
  /\ cpu = "boot"
  /\ iflag = FALSE
  /\ frame_if = [t \in Threads |-> FALSE]
  /\ state = [t \in Threads |-> IF t = main THEN "RUNNING" ELSE "NONE"]
  /\ next = [t \in Threads |-> IF t = main THEN main ELSE NULL]
  /\ prev = [t \in Threads |-> IF t = main THEN main ELSE NULL]
  /\ \E p \in MainProcess :
       process = [t \in Threads |-> IF t = main THEN p ELSE NULL]
  /\ ready_list_head = main
  /\ dead_list_head = NULL
  /\ current_thread = main
  /\ locked = FALSE
  /\ blocked_head = NULL
  /\ blocked_tail = NULL
  /\ next_blocked = [t \in Threads |-> NULL]
  /\ pc = [t \in Threads |-> "out"]
  /\ us_list_head = NULL
  /\ ustacks_infos = [p \in Procs |-> NULL]
  /\ us_next = [u \in Users |-> NULL]
  /\ us_prev = [u \in Users |-> NULL]
  /\ cr3 = BootPML4
  /\ tss_rsp0 = NULL
  /\ unmapped_in = [u \in Users |-> NULL]
  /\ reap = [at |-> "idle", t |-> NULL, next_dead |-> NULL,
             old_list |-> NULL, old_cr3 |-> BootPML4]

(* Mutant: the head's prev is not updated.                                 *)
EnqueueNoBackLink(t) ==
  LET tail == prev[ready_list_head]
  IN /\ next' = [next EXCEPT ![tail] = t, ![t] = ready_list_head]
     /\ prev' = [prev EXCEPT ![t] = tail]
     /\ UNCHANGED ready_list_head

(* enqueue_thread: t becomes the tail of the circular list. main_thread is *)
(* always on it, so the empty case is the one Init describes.              *)
EnqueueThread(t) ==
  LET tail == prev[ready_list_head]
  IN /\ next' = [next EXCEPT ![tail] = t, ![t] = ready_list_head]
     /\ prev' = [prev EXCEPT ![ready_list_head] = t, ![t] = tail]
     /\ UNCHANGED ready_list_head

(* Mutant: the first frame has RFLAGS = 0x002.                             *)
InitialIFClear == FALSE

(* IF in the RFLAGS = 0x202 of a new thread's frame.                       *)
InitialIF == TRUE

(* The part create_thread and create_user_thread share: the first frame,   *)
(* state READY, enqueue_thread.                                            *)
NewThread(t) ==
  /\ cpu = "boot"
  /\ state[t] = "NONE"
  /\ state' = [state EXCEPT ![t] = "READY"]
  /\ frame_if' = [frame_if EXCEPT ![t] = InitialIF]
  /\ EnqueueThread(t)
  /\ UNCHANGED <<cpu, iflag, dead_list_head, current_thread, mutexVars, pc,
                 us_list_head, cr3, tss_rsp0, unmapped_in, reap>>

(* Mutant: the new record is not cleared.                                  *)
CreateThreadNotCleared(t) ==
  /\ t = idle => \A u \in Workers \cup Users : state[u] = "NONE"
  /\ NewThread(t)
  /\ process' = [process EXCEPT ![t] = WILD]
  /\ UNCHANGED <<ustacks_infos, us_next, us_prev>>

(* create_thread. Idle is the first thread made: once another exists, its  *)
(* creation has failed (kmalloc or the stack) and is not tried again.      *)
CreateThread(t) ==
  /\ t = idle => \A u \in Workers \cup Users : state[u] = "NONE"
  /\ NewThread(t)
  /\ UNCHANGED <<process, ustacks_infos, us_next, us_prev>>

(* create_user_thread: the stack record goes to the end of the process's   *)
(* list (at boot no stack has been freed, so the list has no gap), which   *)
(* us_list_head holds only meanwhile.                                      *)
CreateUserThread(u) ==
  LET p == Home[u]
      last == CHOOSE v \in Users : process[v] = p /\ us_next[v] = NULL
      empty == ustacks_infos[p] = NULL
  IN /\ NewThread(u)
     /\ process' = [process EXCEPT ![u] = p]
     /\ ustacks_infos' = IF empty THEN [ustacks_infos EXCEPT ![p] = u]
                                  ELSE ustacks_infos
     /\ us_next' = IF empty THEN us_next ELSE [us_next EXCEPT ![last] = u]
     /\ us_prev' = IF empty THEN us_prev ELSE [us_prev EXCEPT ![u] = last]

(* The end of init_scheduler and of kernel_main: scheduler = 1, sti().     *)
StartScheduler ==
  /\ cpu = "boot"
  /\ cpu' = "run"
  /\ iflag' = TRUE
  /\ UNCHANGED <<frame_if, state, ringVars, process, dead_list_head,
                 current_thread, mutexVars, pc, usVars, cr3, tss_rsp0,
                 unmapped_in, reap>>

-----------------------------------------------------------------------------
(* dequeue_thread, pointer by pointer.                                     *)
DequeueNext(t) ==
  IF next[t] = t THEN [next EXCEPT ![t] = NULL]
  ELSE [next EXCEPT ![prev[t]] = next[t], ![t] = NULL]

DequeuePrev(t) ==
  IF next[t] = t THEN [prev EXCEPT ![t] = NULL]
  ELSE [prev EXCEPT ![next[t]] = prev[t], ![t] = NULL]

DequeueHead(t) ==
  IF next[t] = t THEN NULL
  ELSE IF ready_list_head = t THEN next[t] ELSE ready_list_head

(* The while loop of scheduler_handler: the first runnable thread from s   *)
(* along nx, NULL if the walk comes back to s without one (or has no s).   *)
FirstRunnable(nx, st, s) ==
  IF s = NULL THEN NULL
  ELSE IF st[s] \in Runnable THEN s
  ELSE LET walk[k \in 0..Cardinality(Threads)] ==
             IF k = 0 THEN s ELSE nx[walk[k-1]]
           hits == {k \in DOMAIN walk : st[walk[k]] \in Runnable}
       IN IF hits = {} THEN NULL
          ELSE walk[CHOOSE k \in hits : \A j \in hits : k <= j]

(* Mutant: CR3 is taken to be right already.                               *)
SwitchProcessNoCR3(old, nt) ==
  IF process[old] = process[nt]
  THEN UNCHANGED <<us_list_head, ustacks_infos, cr3>>
  ELSE /\ ustacks_infos' = IF process[old] = NULL THEN ustacks_infos
                           ELSE [ustacks_infos EXCEPT ![process[old]] = us_list_head]
       /\ us_list_head' = IF process[nt] = NULL THEN NULL
                          ELSE ustacks_infos[process[nt]]
       /\ UNCHANGED cr3

(* Mutant: a kernel thread's NULL process is not told apart.               *)
SwitchProcessToNull(old, nt) ==
  IF process[old] = process[nt]
  THEN UNCHANGED <<us_list_head, ustacks_infos, cr3>>
  ELSE /\ ustacks_infos' = IF process[old] = NULL THEN ustacks_infos
                           ELSE [ustacks_infos EXCEPT ![process[old]] = us_list_head]
       /\ us_list_head' = IF process[nt] = NULL THEN NULL
                          ELSE ustacks_infos[process[nt]]
       /\ cr3' = process[nt]

(* The address space part of a context switch from old to nt.              *)
SwitchProcess(old, nt) ==
  IF process[old] = process[nt]
  THEN UNCHANGED <<us_list_head, ustacks_infos, cr3>>
  ELSE /\ ustacks_infos' = IF process[old] = NULL THEN ustacks_infos
                           ELSE [ustacks_infos EXCEPT ![process[old]] = us_list_head]
       /\ us_list_head' = IF process[nt] = NULL THEN NULL
                          ELSE ustacks_infos[process[nt]]
       /\ cr3' = IF process[nt] = NULL THEN cr3 ELSE process[nt]

(* Mutant: the thread that loses the CPU keeps its state.                  *)
RequeueRunning(st, old) == st

(* A thread that is preempted, not dying or blocking, is READY again.      *)
Requeue(st, old) ==
  IF st[old] \in {"DEAD", "BLOCKED"} THEN st ELSE [st EXCEPT ![old] = "READY"]

(* Mutant: every search starts at the head of the list.                    *)
StartAtHead(gone, hd) == hd

(* Mutant: the search starts after the running thread even if it has gone. *)
StartAfterGone(gone, hd) == next[current_thread]

(* Where the search for the next thread starts: after the running thread,  *)
(* or at the head (hd) if that thread has gone from the list.              *)
StartingPoint(gone, hd) == IF gone THEN hd ELSE next[current_thread]

(* The list has at most one thread: scheduler_handler returns at once.     *)
Alone == ready_list_head = NULL \/ next[ready_list_head] = ready_list_head

(* scheduler_handler on an interrupt frame with IF = ifl, in a state where *)
(* the threads have the states st; ends with the iretq of the thread it    *)
(* chose. An indeterminate process pointer is dereferenced as soon as the  *)
(* processes are found to differ, and nothing is known after that.         *)
SchedulerHandler(st, ifl) ==
  LET old == current_thread
      dead == st[old] = "DEAD"
      gone == st[old] \in {"DEAD", "BLOCKED"}
      st1 == Requeue(st, old)
      nx == IF gone THEN DequeueNext(old) ELSE next
      hd == IF gone THEN DequeueHead(old) ELSE ready_list_head
      start == StartingPoint(gone, hd)
      nt == FirstRunnable(nx, st1, start)
      stuck == gone /\ start # NULL
      frames == IF dead THEN frame_if ELSE [frame_if EXCEPT ![old] = ifl]
  IN
  IF Alone
  THEN /\ state' = st
       /\ iflag' = ifl
       /\ UNCHANGED <<cpu, frame_if, ringVars, dead_list_head, current_thread,
                      us_list_head, ustacks_infos, cr3, tss_rsp0>>
  ELSE /\ next' = IF dead THEN [nx EXCEPT ![old] = dead_list_head] ELSE nx
       /\ prev' = IF gone THEN DequeuePrev(old) ELSE prev
       /\ ready_list_head' = hd
       /\ dead_list_head' = IF dead THEN old ELSE dead_list_head
       /\ frame_if' = frames
       /\ IF nt = NULL
          THEN /\ state' = IF gone \/ start = NULL THEN st1
                            ELSE [st1 EXCEPT ![old] = "RUNNING"]
               /\ cpu' = IF stuck THEN "spin" ELSE cpu
               /\ iflag' = IF stuck THEN FALSE ELSE ifl
               /\ UNCHANGED <<current_thread, us_list_head, ustacks_infos, cr3,
                              tss_rsp0>>
          ELSE /\ state' = [st1 EXCEPT ![nt] = "RUNNING"]
               /\ current_thread' = nt
               /\ IF process[old] # process[nt] /\ WILD \in {process[old], process[nt]}
                  THEN /\ cpu' = "wild"
                       /\ iflag' = FALSE
                       /\ UNCHANGED <<us_list_head, ustacks_infos, cr3, tss_rsp0>>
                  ELSE /\ SwitchProcess(old, nt)
                       /\ tss_rsp0' = nt
                       /\ iflag' = frames[nt]
                       /\ UNCHANGED cpu

(* yield(): the frame is built with IF = 0, since every caller has         *)
(* interrupts off.                                                         *)
Yield(st) == SchedulerHandler(st, FALSE)

(* lapic_timer_handler.                                                    *)
Timer ==
  /\ cpu = "run"
  /\ iflag
  /\ SchedulerHandler(state, TRUE)
  /\ UNCHANGED <<process, mutexVars, pc, us_next, us_prev, unmapped_in, reap>>

-----------------------------------------------------------------------------
(* The mutex. Kernel threads use it, properly: none locks it twice, none   *)
(* unlocks it without having returned from mutex_lock, none exits with it. *)

(* t has returned from mutex_lock: at once, or by running again after it   *)
(* had to block.                                                           *)
InCS(t) == pc[t] = "cs" \/ (pc[t] = "locking" /\ t = current_thread)

(* mutex_lock on a free mutex.                                             *)
MutexLockFast(t) ==
  /\ cpu = "run" /\ t = current_thread /\ pc[t] = "out"
  /\ ~locked
  /\ locked' = TRUE
  /\ pc' = [pc EXCEPT ![t] = "cs"]
  /\ UNCHANGED <<cpu, iflag, frame_if, state, ringVars, process, dead_list_head,
                 current_thread, blocked_head, blocked_tail, next_blocked,
                 usVars, cr3, tss_rsp0, unmapped_in, reap>>

(* mutex_lock on a taken mutex: t queues itself and yields with IF = 0,    *)
(* which is what its frame keeps (rflags is not restored on this path).    *)
MutexLockBlock(t) ==
  /\ cpu = "run" /\ t = current_thread /\ pc[t] = "out"
  /\ locked
  /\ next_blocked' =
       IF blocked_head = NULL THEN [next_blocked EXCEPT ![t] = NULL]
       ELSE [next_blocked EXCEPT ![t] = NULL, ![blocked_tail] = t]
  /\ blocked_head' = IF blocked_head = NULL THEN t ELSE blocked_head
  /\ blocked_tail' = t
  /\ pc' = [pc EXCEPT ![t] = "locking"]
  /\ Yield([state EXCEPT ![t] = "BLOCKED"])
  /\ UNCHANGED <<process, locked, us_next, us_prev, unmapped_in, reap>>

(* Mutant: the mutex is released even if it is handed over.                *)
LockedAfterUnlockFree == FALSE

(* Without a waiter the mutex is released, with one it stays locked.       *)
LockedAfterUnlock == IF blocked_head = NULL THEN FALSE ELSE locked

(* Mutant: the last waiter stays the tail.                                 *)
TailAfterPopStale == blocked_tail

(* The tail after the head of the queue is taken off.                      *)
TailAfterPop == IF next_blocked[blocked_head] = NULL THEN NULL ELSE blocked_tail

(* mutex_unlock: with a waiter the mutex stays locked and the waiter is    *)
(* made READY; nothing puts it back on the ready list.                     *)
MutexUnlock(t) ==
  /\ cpu = "run" /\ t = current_thread
  /\ InCS(t)
  /\ pc' = [pc EXCEPT ![t] = "out"]
  /\ locked' = LockedAfterUnlock
  /\ IF blocked_head = NULL
     THEN UNCHANGED <<state, blocked_head, blocked_tail, next_blocked>>
     ELSE LET wake == blocked_head IN
          /\ blocked_head' = next_blocked[wake]
          /\ blocked_tail' = TailAfterPop
          /\ state' = [state EXCEPT ![wake] = "READY"]
          /\ next_blocked' = [next_blocked EXCEPT ![wake] = NULL]
  /\ UNCHANGED <<cpu, iflag, frame_if, ringVars, process, dead_list_head,
                 current_thread, usVars, cr3, tss_rsp0, unmapped_in, reap>>

(* thread_exit: a kernel thread's entry returns into it, a user thread     *)
(* gets there by SYS_EXIT.                                                 *)
ThreadExit(t) ==
  /\ cpu = "run" /\ t = current_thread /\ pc[t] = "out"
  /\ Yield([state EXCEPT ![t] = "DEAD"])
  /\ UNCHANGED <<process, mutexVars, pc, us_next, us_prev, unmapped_in, reap>>

-----------------------------------------------------------------------------
(* The reaper, run by idle with interrupts on.                             *)
ReapFrame(at) ==
  /\ cpu = "run"
  /\ current_thread = idle
  /\ reap.at = at
  /\ UNCHANGED <<cpu, frame_if, ringVars, process, current_thread, mutexVars,
                 pc, tss_rsp0>>

(* Mutant: the list that was taken stays where it was.                     *)
TakeDeadListCopy ==
  /\ ReapFrame("idle")
  /\ dead_list_head # NULL
  /\ reap' = [reap EXCEPT !.at = "destroy", !.t = dead_list_head]
  /\ iflag' = TRUE
  /\ UNCHANGED <<state, dead_list_head, usVars, cr3, unmapped_in>>

(* cleanup_dead_threads takes the whole list between cli() and sti().      *)
TakeDeadList ==
  /\ ReapFrame("idle")
  /\ dead_list_head # NULL
  /\ reap' = [reap EXCEPT !.at = "destroy", !.t = dead_list_head]
  /\ dead_list_head' = NULL
  /\ iflag' = TRUE
  /\ UNCHANGED <<state, usVars, cr3, unmapped_in>>

(* Mutant: only the first of the threads taken is freed.                   *)
FreeThreadOnce(nd) ==
  /\ state' = [state EXCEPT ![reap.t] = "FREED"]
  /\ reap' = [reap EXCEPT !.at = "idle", !.t = nd]

(* The last kfree(t) of destroy_thread and the loop to the next record.    *)
FreeThread(nd) ==
  /\ state' = [state EXCEPT ![reap.t] = "FREED"]
  /\ reap' = [reap EXCEPT !.at = IF nd = NULL THEN "idle" ELSE "destroy", !.t = nd]

(* destroy_thread of a kernel thread.                                      *)
DestroyKernelThread ==
  /\ ReapFrame("destroy")
  /\ process[reap.t] = NULL
  /\ FreeThread(next[reap.t])
  /\ UNCHANGED <<iflag, dead_list_head, usVars, cr3, unmapped_in>>

(* destroy_thread of a user thread, up to old_list = us_list_head.         *)
DestroyUserThread ==
  /\ ReapFrame("destroy")
  /\ process[reap.t] # NULL
  /\ reap' = [reap EXCEPT !.at = "rdcr3", !.next_dead = next[reap.t],
                          !.old_list = us_list_head]
  /\ UNCHANGED <<iflag, state, dead_list_head, usVars, cr3, unmapped_in>>

ReapReadCR3 ==
  /\ ReapFrame("rdcr3")
  /\ reap' = [reap EXCEPT !.at = "setlist", !.old_cr3 = cr3]
  /\ UNCHANGED <<iflag, state, dead_list_head, usVars, cr3, unmapped_in>>

ReapSetList ==
  /\ ReapFrame("setlist")
  /\ us_list_head' = ustacks_infos[process[reap.t]]
  /\ reap' = [reap EXCEPT !.at = "setcr3"]
  /\ UNCHANGED <<iflag, state, dead_list_head, ustacks_infos, us_next, us_prev,
                 cr3, unmapped_in>>

ReapSetCR3 ==
  /\ ReapFrame("setcr3")
  /\ cr3' = process[reap.t]
  /\ reap' = [reap EXCEPT !.at = "find"]
  /\ UNCHANGED <<iflag, state, dead_list_head, usVars, unmapped_in>>

(* user_free_stack looks for the record on the list us_list_head holds.    *)
ReapFind ==
  /\ ReapFrame("find")
  /\ reap' = [reap EXCEPT !.at = IF reap.t \in Reach(us_next, us_list_head)
                                 THEN "unmap" ELSE "putlist"]
  /\ UNCHANGED <<iflag, state, dead_list_head, usVars, cr3, unmapped_in>>

(* vmm_unmap_page(read_cr3(), ...): in whatever address space is loaded.   *)
ReapUnmap ==
  /\ ReapFrame("unmap")
  /\ unmapped_in' = [unmapped_in EXCEPT ![reap.t] = cr3]
  /\ reap' = [reap EXCEPT !.at = "unlink"]
  /\ UNCHANGED <<iflag, state, dead_list_head, usVars, cr3>>

(* us_remove_from_list.                                                    *)
ReapUnlink ==
  LET i == reap.t IN
  /\ ReapFrame("unlink")
  /\ us_list_head' = IF us_list_head = i THEN us_next[i] ELSE us_list_head
  /\ us_prev' = [u \in Users |-> IF u = i THEN NULL
                                 ELSE IF u = us_next[i] THEN us_prev[i] ELSE us_prev[u]]
  /\ us_next' = [u \in Users |-> IF u = i THEN NULL
                                 ELSE IF u = us_prev[i] THEN us_next[i] ELSE us_next[u]]
  /\ reap' = [reap EXCEPT !.at = "putlist"]
  /\ UNCHANGED <<iflag, state, dead_list_head, ustacks_infos, cr3, unmapped_in>>

(* Mutant: the shortened list is not given back to the process.            *)
ReapPutListLost ==
  /\ ReapFrame("putlist")
  /\ reap' = [reap EXCEPT !.at = "rstlist"]
  /\ UNCHANGED <<iflag, state, dead_list_head, usVars, cr3, unmapped_in>>

ReapPutList ==
  /\ ReapFrame("putlist")
  /\ ustacks_infos' = [ustacks_infos EXCEPT ![process[reap.t]] = us_list_head]
  /\ reap' = [reap EXCEPT !.at = "rstlist"]
  /\ UNCHANGED <<iflag, state, dead_list_head, us_list_head, us_next, us_prev,
                 cr3, unmapped_in>>

ReapRestoreList ==
  /\ ReapFrame("rstlist")
  /\ us_list_head' = reap.old_list
  /\ reap' = [reap EXCEPT !.at = "rstcr3"]
  /\ UNCHANGED <<iflag, state, dead_list_head, ustacks_infos, us_next, us_prev,
                 cr3, unmapped_in>>

ReapRestoreCR3 ==
  /\ ReapFrame("rstcr3")
  /\ cr3' = reap.old_cr3
  /\ FreeThread(reap.next_dead)
  /\ UNCHANGED <<iflag, dead_list_head, usVars, unmapped_in>>

Reaper ==
  \/ TakeDeadList \/ DestroyKernelThread \/ DestroyUserThread
  \/ ReapReadCR3 \/ ReapSetList \/ ReapSetCR3 \/ ReapFind \/ ReapUnmap
  \/ ReapUnlink \/ ReapPutList \/ ReapRestoreList \/ ReapRestoreCR3

-----------------------------------------------------------------------------
Boot ==
  \/ \E t \in {idle} \cup Workers : CreateThread(t)
  \/ \E u \in Users : CreateUserThread(u)
  \/ StartScheduler

Next ==
  \/ Boot
  \/ Timer
  \/ \E t \in Workers : MutexLockFast(t) \/ MutexLockBlock(t) \/ MutexUnlock(t)
  \/ \E t \in Workers \cup Users : ThreadExit(t)
  \/ Reaper

Spec == Init /\ [][Next]_vars

(* A timer interrupt keeps coming while IF = 1, boot goes on to sti(), and *)
(* every time slice of idle is long enough for some instructions: idle     *)
(* scheduled again and again takes its next step in the end.               *)
FairSpec == Spec /\ WF_vars(StartScheduler) /\ WF_vars(Timer) /\ SF_vars(Reaper)

-----------------------------------------------------------------------------
Null(S) == S \cup {NULL}

(* Every variable holds a value of the C type it stands for.               *)
TypeOK ==
  /\ cpu \in {"boot", "run", "wild", "spin"}
  /\ iflag \in BOOLEAN
  /\ frame_if \in [Threads -> BOOLEAN]
  /\ state \in [Threads -> States]
  /\ next \in [Threads -> Null(Threads)]
  /\ prev \in [Threads -> Null(Threads)]
  /\ process \in [Threads -> Procs \cup {NULL, WILD}]
  /\ ready_list_head \in Null(Threads)
  /\ dead_list_head \in Null(Threads)
  /\ current_thread \in Threads
  /\ locked \in BOOLEAN
  /\ blocked_head \in Null(Threads)
  /\ blocked_tail \in Null(Threads)
  /\ next_blocked \in [Threads -> Null(Threads)]
  /\ pc \in [Threads -> {"out", "locking", "cs"}]
  /\ us_list_head \in Null(Users)
  /\ ustacks_infos \in [Procs -> Null(Users)]
  /\ us_next \in [Users -> Null(Users)]
  /\ us_prev \in [Users -> Null(Users)]
  /\ cr3 \in Procs \cup {BootPML4}
  /\ tss_rsp0 \in Null(Threads)
  /\ unmapped_in \in [Users -> Procs \cup {NULL, BootPML4}]
  /\ reap \in [at : ReapSteps, t : Null(Threads), next_dead : Null(Threads),
               old_list : Null(Users), old_cr3 : Procs \cup {BootPML4}]

(* The threads that can be given the CPU: runnable, and not woken from the *)
(* mutex, since mutex_unlock leaves a woken thread off the list.           *)
Members == {t \in Threads : state[t] \in Runnable /\ pc[t] # "locking"}

(* The ready list is one circular doubly linked list through exactly the   *)
(* schedulable threads, main_thread and the running thread among them,     *)
(* whatever enqueue_thread and dequeue_thread were made to do: no exit or  *)
(* block loses a thread, splits the ring or leaves a dead one on it.       *)
RingOK ==
  /\ Reach(next, ready_list_head) = Members
  /\ {main, current_thread} \subseteq Members
  /\ \A t \in Members : prev[next[t]] = t /\ next[prev[t]] = t

(* Exactly one thread is RUNNING and it is current_thread: the handler     *)
(* demotes the thread it leaves on every path, yield from a blocking or an *)
(* exiting thread included.                                                *)
OneRunning == {t \in Threads : state[t] = "RUNNING"} = {current_thread}

(* A dead thread awaits the reaper in one place: on dead_list_head, or on  *)
(* the chain idle has taken off it. So none is freed twice or forgotten,   *)
(* though the thread's next field serves the ring and then the dead list,  *)
(* and threads die while idle walks its chain.                             *)
DeadAccounted ==
  LET waiting == Reach(next, dead_list_head)
      taken == IF reap.at = "idle" THEN {} ELSE Reach(next, reap.t)
  IN /\ waiting \cap taken = {}
     /\ waiting \cup taken = {t \in Threads : state[t] = "DEAD"}

(* The mutex's queue holds exactly the BLOCKED threads and ends at         *)
(* blocked_tail, so that the append through blocked_tail in mutex_lock     *)
(* never writes into a thread that has left (and may have been freed).     *)
BlockedQueueOK ==
  LET queue == Reach(next_blocked, blocked_head)
  IN /\ queue = {t \in Threads : state[t] = "BLOCKED"}
     /\ \A t \in queue : (t = blocked_tail) <=> (next_blocked[t] = NULL)
     /\ blocked_tail # NULL => blocked_tail \in queue

(* The threads that have the mutex: in the critical section, or woken with *)
(* the mutex handed to them.                                               *)
Owners == {t \in Threads : pc[t] = "cs" \/ (pc[t] = "locking" /\ state[t] # "BLOCKED")}

(* Mutual exclusion through the handoff: the mutex is locked exactly when  *)
(* it has an owner, it has at most one, and nobody waits for a free mutex. *)
MutexOwned ==
  /\ locked <=> Owners # {}
  /\ \A t, u \in Owners : t = u
  /\ blocked_head # NULL => locked

(* Whatever thread runs, the timer can take the CPU from it, although      *)
(* yield saves frames with IF = 0: no such frame is ever returned to.      *)
Preemptible == cpu = "run" => iflag

(* A user thread runs in its own address space, with interrupts arriving   *)
(* on its own kernel stack, though kernel threads leave CR3 as they find   *)
(* it and the reaper changes it.                                           *)
ContextOK ==
  (cpu = "run" /\ current_thread \in Users)
    => cr3 = Home[current_thread] /\ tss_rsp0 = current_thread

(* The stack list of process p: its saved one unless p has the CPU.        *)
ProcList(p) == IF process[current_thread] = p THEN us_list_head ELSE ustacks_infos[p]

(* With one user thread: its stack record stays on its process's list      *)
(* through all context switches until the reaper takes it off, and for a   *)
(* freed thread user_free_stack has done its unmapping in the thread's own *)
(* address space (which pages it unmaps is the subject of UserStacks).     *)
UserStackTracked ==
  \A u \in Users :
    /\ (cpu = "run" /\ state[u] \in Runnable) => u \in Reach(us_next, ProcList(Home[u]))
    /\ state[u] = "FREED" =>
         u \notin Reach(us_next, ProcList(Home[u])) /\ unmapped_in[u] = Home[u]

(* The kernel never spins in scheduler_handler's for(;;), and dereferences *)
(* a bad process pointer only if main_thread's was left indeterminate.     *)
NoRunawaySwitch == cpu \in {"wild", "spin"} => cpu = "wild" /\ process[main] = WILD

(* In any address space but its own, no stack of a user thread is ever     *)
(* unmapped: processes are isolated from each other's exits.               *)
Isolation == \A u \in Users : unmapped_in[u] \in {NULL, Home[u]}

(* The ready list as a sequence: from its head along next, until the walk  *)
(* is back at the head.                                                    *)
RingWalk[k \in 0..Cardinality(Members)] ==
  IF k = 0 THEN ready_list_head ELSE next[RingWalk[k-1]]

RingLength ==
  CHOOSE k \in 1..Cardinality(Members) :
    RingWalk[k] = ready_list_head /\ \A j \in 1..(k-1) : RingWalk[j] # ready_list_head

Ring == [k \in 1..RingLength |-> RingWalk[k-1]]

RR == INSTANCE RoundRobin WITH Members <- Threads, First <- main,
                               queue <- Ring, cur <- current_thread

(* The README's round robin: whatever mutexes, exits and the reaper do to  *)
(* the pointers, the CPU goes round the threads in the order they joined,  *)
(* nobody is passed over by a tick, and only the running thread leaves.    *)
IsRoundRobin == RR!Spec

(* Every thread that has exited is freed in the end, if there is an idle.  *)
DeadReaped ==
  \A t \in Threads : (state[t] = "DEAD" /\ state[idle] # "NONE") ~> (state[t] = "FREED")

(* Every thread on the ready list runs again in the end, though an exit or *)
(* a block restarts the walk at the head of the list.                      *)
RingTurn == \A t \in Threads : (t \in Members) ~> (state[t] = "RUNNING")

(* A thread that mutex_unlock has made READY runs again in the end.        *)
WokenRuns ==
  \A t \in Workers : (state[t] = "READY" /\ pc[t] = "locking") ~> (state[t] = "RUNNING")
=============================================================================
