-------------------------- MODULE SchedulerProofs --------------------------
(***************************************************************************)
(* Theorems about Scheduler for any number of threads and processes: one   *)
(* inductive invariant, the safety properties that follow from it, the     *)
(* round robin that Scheduler implements, and the system calls on top.     *)
(***************************************************************************)
EXTENDS SchedulerLists, Syscalls

(* The inductive invariant.                                                *)

Dead == {t \in Threads : state[t] = "DEAD"}
Blocked == {t \in Threads : state[t] = "BLOCKED"}
Taken == IF reap.at = "idle" THEN NULL ELSE reap.t

RingInv ==
  /\ RingShape(next, prev, ready_list_head, Members)
  /\ main \in Members
  /\ current_thread \in Members
  /\ OneRunning

(* Where a thread is in the mutex fits its state.                          *)
LifeInv ==
  \A t \in Threads :
    /\ pc[t] = "cs" => state[t] \in Runnable
    /\ pc[t] = "locking" => state[t] \in {"BLOCKED", "READY"}
    /\ state[t] = "BLOCKED" => pc[t] = "locking"

(* Only main_thread's process can be indeterminate.                        *)
ProcessInv ==
  /\ process[main] \in {NULL, WILD}
  /\ \A t \in Threads \ (Users \cup {main}) : process[t] = NULL
  /\ \A u \in Users : process[u] = IF state[u] = "NONE" THEN NULL ELSE Home[u]

(* At boot only main runs, and a process with stack records has a last one.*)
BootInv ==
  cpu = "boot" =>
    /\ current_thread = main
    /\ \A u \in Users : state[u] = "NONE" => us_next[u] = NULL
    /\ \A p \in Procs : ustacks_infos[p] # NULL =>
         \E v \in Users : process[v] = p /\ us_next[v] = NULL

ReapInv ==
  /\ ChainShape(next, dead_list_head, Taken, Dead)
  /\ reap.at # "idle" => reap.t # NULL
  /\ reap.at \notin {"idle", "destroy"} =>
       process[reap.t] # NULL /\ reap.next_dead = next[reap.t]

QueueInv == QueueShape(next_blocked, blocked_head, blocked_tail, Blocked)

(* Every frame the handler may return to has IF = 1.                       *)
FrameInv ==
  /\ Preemptible
  /\ \A t \in Members : t # current_thread => frame_if[t]

CpuInv == ContextOK /\ NoRunawaySwitch

IInv ==
  /\ TypeOK
  /\ RingInv
  /\ LifeInv
  /\ ProcessInv
  /\ BootInv
  /\ ReapInv
  /\ QueueInv
  /\ MutexOwned
  /\ FrameInv
  /\ CpuInv

-----------------------------------------------------------------------------
(* What scheduler_handler does in a state of the invariant.                *)

(* The assumptions on the constants, as facts about threads, processes and *)
(* the pointers that are neither.                                          *)
LEMMA Names ==
  /\ NULL \notin Threads /\ WILD \notin Threads
  /\ main \in Threads /\ idle \in Threads /\ main # idle
  /\ Workers \subseteq Threads \ {main, idle} /\ Users \subseteq Threads \ {main, idle}
  /\ Workers \cap Users = {}
  /\ NULL \notin Users
  /\ Home \in [Users -> Procs]
  /\ NULL \notin Procs /\ WILD \notin Procs /\ NULL # WILD /\ BootPML4 \notin Procs
BY ThreadNames, ProcessNames DEF Threads, main, idle, NULL, WILD

(* The loop stops at once if the thread it starts from is runnable.        *)
LEMMA FirstHere ==
  ASSUME NEW nx, NEW st, NEW s, s # NULL, st[s] \in Runnable
  PROVE  FirstRunnable(nx, st, s) = s
BY DEF FirstRunnable

(* The context part of a switch from old to nt.                            *)
SwitchTo(old, nt) ==
  IF process[old] # process[nt] /\ WILD \in {process[old], process[nt]}
  THEN /\ cpu' = "wild"
       /\ iflag' = FALSE
       /\ UNCHANGED <<us_list_head, ustacks_infos, cr3, tss_rsp0>>
  ELSE /\ SwitchProcess(old, nt)
       /\ tss_rsp0' = nt
       /\ iflag' = frame_if'[nt]
       /\ UNCHANGED cpu

(* The running thread t leaves the ring in state k and h gets the CPU.     *)
Leave(t, k, h) ==
  /\ h = IF ready_list_head = t THEN next[t] ELSE ready_list_head
  /\ h \in Members \ {t} /\ next[t] # t
  /\ next' \in [Threads -> Null(Threads)]
  /\ next'[prev[t]] = next[t]
  /\ next'[t] = IF k = "DEAD" THEN dead_list_head ELSE NULL
  /\ \A y \in Threads \ {t} : y # prev[t] => next'[y] = next[y]
  /\ prev' \in [Threads -> Null(Threads)]
  /\ prev'[next[t]] = prev[t]
  /\ \A y \in Threads \ {t} : y # next[t] => prev'[y] = prev[y]
  /\ ready_list_head' = h
  /\ current_thread' = h
  /\ dead_list_head' = IF k = "DEAD" THEN t ELSE dead_list_head
  /\ state' = [[state EXCEPT ![t] = k] EXCEPT ![h] = "RUNNING"]
  /\ frame_if' \in [Threads -> BOOLEAN]
  /\ \A y \in Threads \ {t} : frame_if'[y] = frame_if[y]
  /\ SwitchTo(t, h)

(* A handler called for a thread that exits or blocks takes it off the ring*)
(* and switches to another thread of the ring.                             *)
LEMMA HandlerLeave ==
  ASSUME TypeOK, RingInv, NEW t, t = current_thread, t # main,
         NEW k \in {"DEAD", "BLOCKED"}, NEW ifl \in BOOLEAN,
         SchedulerHandler([state EXCEPT ![t] = k], ifl)
  PROVE  \E h \in Threads : Leave(t, k, h)
<1> DEFINE st == [state EXCEPT ![t] = k]
           hd == DequeueHead(t)
           nx == DequeueNext(t)
           frames == IF k = "DEAD" THEN frame_if ELSE [frame_if EXCEPT ![t] = ifl]
<1>1. /\ t \in Members /\ t \in Threads /\ t # NULL
      /\ main \in Members /\ ready_list_head \in Members
      /\ \A y \in Members : next[y] \in Members /\ prev[y] \in Members
      /\ Members \subseteq Threads /\ NULL \notin Members
  BY Names DEF RingInv, RingShape, Members
<1>2. \A y \in Members : next[y] # y
  <2>1. ASSUME NEW y \in Members, next[y] = y PROVE FALSE
    <3>1. Members = {y}
      BY <2>1, RingAlone DEF RingInv
    <3> QED
      BY <1>1, <3>1
  <2> QED
    BY <2>1
<1>3. ~Alone
  BY <1>1, <1>2 DEF Alone
<1>4. hd = (IF ready_list_head = t THEN next[t] ELSE ready_list_head)
      /\ hd \in Members \ {t} /\ hd # NULL /\ hd \in Threads
  BY <1>1, <1>2 DEF DequeueHead
<1>5. st[t] = k /\ \A y \in Threads \ {t} : st[y] = state[y]
  BY <1>1 DEF TypeOK
<1>6. st[hd] \in Runnable
  BY <1>4, <1>5 DEF Members
<1>7. FirstRunnable(nx, st, hd) = hd
  <2> HIDE DEF nx, st, hd
  <2> QED
    BY <1>4, <1>6, FirstHere
<1>8. /\ next' = IF k = "DEAD" THEN [nx EXCEPT ![t] = dead_list_head] ELSE nx
      /\ prev' = DequeuePrev(t)
      /\ ready_list_head' = hd
      /\ dead_list_head' = IF k = "DEAD" THEN t ELSE dead_list_head
      /\ frame_if' = frames
      /\ state' = [st EXCEPT ![hd] = "RUNNING"]
      /\ current_thread' = hd
      /\ IF process[t] # process[hd] /\ WILD \in {process[t], process[hd]}
         THEN /\ cpu' = "wild"
              /\ iflag' = FALSE
              /\ UNCHANGED <<us_list_head, ustacks_infos, cr3, tss_rsp0>>
         ELSE /\ SwitchProcess(t, hd)
              /\ tss_rsp0' = hd
              /\ iflag' = frames[hd]
              /\ UNCHANGED cpu
  <2> HIDE DEF nx, hd, st
  <2>1. st[current_thread] = k
    BY <1>5
  <2> USE DEF nx, hd, st
  <2> QED
    BY <1>3, <1>4, <1>5, <1>7, <2>1 DEF SchedulerHandler, Requeue, StartingPoint
<1>9. /\ next' \in [Threads -> Null(Threads)]
      /\ next'[prev[t]] = next[t]
      /\ next'[t] = IF k = "DEAD" THEN dead_list_head ELSE NULL
      /\ \A y \in Threads \ {t} : y # prev[t] => next'[y] = next[y]
  BY <1>1, <1>2, <1>8 DEF DequeueNext, TypeOK, Null, RingInv, RingShape
<1>10. /\ prev' \in [Threads -> Null(Threads)]
       /\ prev'[next[t]] = prev[t]
       /\ \A y \in Threads \ {t} : y # next[t] => prev'[y] = prev[y]
  BY <1>1, <1>2, <1>8 DEF DequeuePrev, TypeOK, Null
<1>11. /\ frame_if' \in [Threads -> BOOLEAN]
       /\ \A y \in Threads \ {t} : frame_if'[y] = frame_if[y]
  BY <1>1, <1>8 DEF TypeOK
<1>12. SwitchTo(t, hd)
  BY <1>8 DEF SwitchTo
<1> HIDE DEF hd
<1>13. Leave(t, k, hd)
  BY <1>1, <1>2, <1>4, <1>8, <1>9, <1>10, <1>11, <1>12 DEF Leave
<1> QED
  BY <1>4, <1>13

(* The timer's switch: the ring stays as it is, the next thread runs.      *)
Rotate(old, nt) ==
  /\ nt = next[old] /\ nt \in Members
  /\ state' = [[state EXCEPT ![old] = "READY"] EXCEPT ![nt] = "RUNNING"]
  /\ current_thread' = nt
  /\ frame_if' = [frame_if EXCEPT ![old] = TRUE]
  /\ UNCHANGED <<ringVars, dead_list_head>>
  /\ SwitchTo(old, nt)

(* A handler called by the timer does nothing, when the ring has one thread,*)
(* or passes the CPU from the running thread to the next on the ring.      *)
LEMMA HandlerRotate ==
  ASSUME TypeOK, RingInv, SchedulerHandler(state, TRUE)
  PROVE  \/ /\ iflag' = TRUE
            /\ UNCHANGED <<cpu, frame_if, state, ringVars, dead_list_head,
                           current_thread, us_list_head, ustacks_infos, cr3,
                           tss_rsp0>>
         \/ \E nt \in Threads : Rotate(current_thread, nt)
<1> DEFINE old == current_thread
           nt == next[old]
           st == [state EXCEPT ![old] = "READY"]
<1>1. /\ old \in Members /\ nt \in Members /\ nt # NULL
      /\ old \in Threads /\ nt \in Threads
  BY Names DEF RingInv, RingShape, Members
<1>2. state[old] \notin {"DEAD", "BLOCKED"}
  BY <1>1 DEF Members, Runnable
<1>3. st[nt] \in Runnable
  BY <1>1 DEF Members, Runnable, TypeOK
<1>4. FirstRunnable(next, st, nt) = nt
  <2> HIDE DEF st, nt
  <2> QED
    BY <1>1, <1>3, FirstHere
<1>5. CASE Alone
  BY <1>5 DEF SchedulerHandler, ringVars
<1>6. CASE ~Alone
  <2>1. Rotate(old, nt)
    BY <1>1, <1>2, <1>4, <1>6 DEF SchedulerHandler, Requeue, StartingPoint, Rotate, SwitchTo, ringVars
  <2> QED
    BY <1>1, <2>1
<1> QED
  BY <1>5, <1>6

-----------------------------------------------------------------------------
(* Summaries of the steps, for the preservation lemmas.                    *)

(* A thread leaves the CPU in mutex_lock or in thread_exit.                *)
LeaveStep(t, k, h) ==
  /\ cpu = "run" /\ t = current_thread /\ t # main /\ t \in Threads /\ pc[t] = "out"
  /\ h \in Threads
  /\ Leave(t, k, h)
  /\ UNCHANGED <<process, locked, us_next, us_prev, unmapped_in, reap>>

BlockStep(t, h) ==
  /\ LeaveStep(t, "BLOCKED", h)
  /\ locked
  /\ next_blocked' =
       IF blocked_head = NULL THEN [next_blocked EXCEPT ![t] = NULL]
       ELSE [next_blocked EXCEPT ![t] = NULL, ![blocked_tail] = t]
  /\ blocked_head' = IF blocked_head = NULL THEN t ELSE blocked_head
  /\ blocked_tail' = t
  /\ pc' = [pc EXCEPT ![t] = "locking"]

ExitStep(t, h) ==
  /\ LeaveStep(t, "DEAD", h)
  /\ UNCHANGED <<mutexVars, pc>>

TimerStep(nt) ==
  /\ cpu = "run" /\ nt \in Threads
  /\ Rotate(current_thread, nt)
  /\ UNCHANGED <<process, mutexVars, pc, us_next, us_prev, unmapped_in, reap>>

(* A timer interrupt that finds one thread only.                           *)
TimerIdle ==
  /\ cpu = "run" /\ iflag' = TRUE
  /\ UNCHANGED <<cpu, frame_if, state, ringVars, process, dead_list_head,
                 current_thread, mutexVars, pc, usVars, cr3, tss_rsp0,
                 unmapped_in, reap>>

(* The three things the reaper does to the dead threads.                   *)
ReaperTake ==
  /\ reap.at = "idle" /\ dead_list_head # NULL
  /\ state' = state /\ dead_list_head' = NULL
  /\ reap'.at = "destroy" /\ reap'.t = dead_list_head

ReaperFree ==
  /\ reap.at # "idle"
  /\ state' = [state EXCEPT ![reap.t] = "FREED"] /\ dead_list_head' = dead_list_head
  /\ reap'.t = next[reap.t]
  /\ reap'.at = IF next[reap.t] = NULL THEN "idle" ELSE "destroy"

ReaperWalk ==
  /\ reap.at # "idle"
  /\ state' = state /\ dead_list_head' = dead_list_head
  /\ reap'.at \notin {"idle", "destroy"} /\ reap'.t = reap.t
  /\ process[reap.t] # NULL /\ reap'.next_dead = next[reap.t]

ReaperStep ==
  /\ cpu = "run" /\ iflag' \in {iflag, TRUE}
  /\ current_thread = idle
  /\ UNCHANGED <<cpu, frame_if, ringVars, process, current_thread, mutexVars,
                 pc, tss_rsp0>>
  /\ ReaperTake \/ ReaperFree \/ ReaperWalk

(* Every step of the reaper takes the dead list, frees a thread, or goes on*)
(* with the user stack of the thread it destroys.                          *)
LEMMA ReaperSteps ==
  ASSUME TypeOK, ReapInv, Reaper
  PROVE  ReaperStep
<1> USE DEF ReaperStep, ReapFrame
<1>1. reap \in [at : ReapSteps, t : Null(Threads), next_dead : Null(Threads),
               old_list : Null(Users), old_cr3 : Procs \cup {BootPML4}]
  BY DEF TypeOK
<1>2. CASE TakeDeadList
  BY <1>1, <1>2 DEF TakeDeadList, ReaperTake
<1>3. CASE DestroyKernelThread
  BY <1>1, <1>3 DEF DestroyKernelThread, FreeThread, ReaperFree
<1>4. CASE DestroyUserThread
  BY <1>1, <1>4 DEF DestroyUserThread, ReaperWalk
<1>5. CASE ReapReadCR3
  BY <1>1, <1>5 DEF ReapReadCR3, ReaperWalk, ReapInv
<1>6. CASE ReapSetList
  BY <1>1, <1>6 DEF ReapSetList, ReaperWalk, ReapInv
<1>7. CASE ReapSetCR3
  BY <1>1, <1>7 DEF ReapSetCR3, ReaperWalk, ReapInv
<1>8. CASE ReapFind
  BY <1>1, <1>8 DEF ReapFind, ReaperWalk, ReapInv
<1>9. CASE ReapUnmap
  BY <1>1, <1>9 DEF ReapUnmap, ReaperWalk, ReapInv
<1>10. CASE ReapUnlink
  BY <1>1, <1>10 DEF ReapUnlink, ReaperWalk, ReapInv
<1>11. CASE ReapPutList
  BY <1>1, <1>11 DEF ReapPutList, ReaperWalk, ReapInv
<1>12. CASE ReapRestoreList
  BY <1>1, <1>12 DEF ReapRestoreList, ReaperWalk, ReapInv
<1>13. CASE ReapRestoreCR3
  BY <1>1, <1>13 DEF ReapRestoreCR3, FreeThread, ReaperFree, ReapInv
<1> QED
  BY <1>2, <1>3, <1>4, <1>5, <1>6, <1>7, <1>8, <1>9, <1>10, <1>11, <1>12,
     <1>13 DEF Reaper

(* A step of the specification is one of these.                            *)
LEMMA StepCases ==
  ASSUME IInv, [Next]_vars
  PROVE  \/ \E t \in Threads \ ({main} \cup Users) : CreateThread(t)
         \/ \E u \in Users : CreateUserThread(u)
         \/ StartScheduler
         \/ TimerIdle
         \/ \E nt \in Threads : TimerStep(nt)
         \/ \E t \in Workers : MutexLockFast(t)
         \/ \E t, h \in Threads : BlockStep(t, h)
         \/ \E t \in Workers : MutexUnlock(t)
         \/ \E t, h \in Threads : ExitStep(t, h)
         \/ Reaper /\ ReaperStep
         \/ UNCHANGED vars
<1> USE Names
<1>1. ASSUME NEW t \in {idle} \cup Workers, CreateThread(t)
      PROVE  t \in Threads \ ({main} \cup Users) /\ CreateThread(t)
  BY <1>1, ThreadNames
<1>2. ASSUME Timer
      PROVE  TimerIdle \/ \E nt \in Threads : TimerStep(nt)
  <2>1. TypeOK /\ RingInv /\ SchedulerHandler(state, TRUE)
    BY <1>2 DEF IInv, Timer
  <2>2. \/ /\ iflag' = TRUE
           /\ UNCHANGED <<cpu, frame_if, state, ringVars, dead_list_head,
                          current_thread, us_list_head, ustacks_infos, cr3,
                          tss_rsp0>>
        \/ \E nt \in Threads : Rotate(current_thread, nt)
    BY <2>1, HandlerRotate
  <2> QED
    BY <1>2, <2>2 DEF Timer, TimerIdle, TimerStep, usVars
<1>3. ASSUME NEW t \in Workers, MutexLockBlock(t)
      PROVE  \E s, h \in Threads : BlockStep(s, h)
  <2>1. TypeOK /\ RingInv /\ t = current_thread /\ t # main /\ t \in Threads
        /\ SchedulerHandler([state EXCEPT ![t] = "BLOCKED"], FALSE)
    BY <1>3 DEF IInv, MutexLockBlock, Yield
  <2>2. PICK h \in Threads : Leave(t, "BLOCKED", h)
    BY <2>1, HandlerLeave
  <2>3. BlockStep(t, h)
    BY <1>3, <2>1, <2>2 DEF MutexLockBlock, Yield, BlockStep, LeaveStep
  <2> QED
    BY <2>1, <2>3
<1>4. ASSUME NEW t \in Workers \cup Users, ThreadExit(t)
      PROVE  \E s, h \in Threads : ExitStep(s, h)
  <2>1. TypeOK /\ RingInv /\ t = current_thread /\ t # main /\ t \in Threads
        /\ SchedulerHandler([state EXCEPT ![t] = "DEAD"], FALSE)
    BY <1>4 DEF IInv, ThreadExit, Yield
  <2>2. PICK h \in Threads : Leave(t, "DEAD", h)
    BY <2>1, HandlerLeave
  <2>3. ExitStep(t, h)
    BY <1>4, <2>1, <2>2 DEF ThreadExit, Yield, ExitStep, LeaveStep, mutexVars
  <2> QED
    BY <2>1, <2>3
<1>5. ASSUME Reaper PROVE ReaperStep
  BY <1>5, ReaperSteps DEF IInv
<1> QED
  BY <1>1, <1>2, <1>3, <1>4, <1>5 DEF Next, Boot

(* enqueue_thread and dequeue_thread keep the ring, and scheduler_handler  *)
(* keeps one thread running on it.                                         *)
LEMMA RingStep ==
  ASSUME IInv, [Next]_vars
  PROVE  RingInv'
<1> USE Names
<1>0. TypeOK /\ RingInv /\ LifeInv /\ ReapInv /\ QueueInv
  BY DEF IInv
<1>a. /\ Members \subseteq Threads /\ NULL \notin Members
      /\ RingShape(next, prev, ready_list_head, Members)
      /\ main \in Members /\ current_thread \in Members /\ ready_list_head \in Members
      /\ \A y \in Threads : state[y] = "RUNNING" <=> y = current_thread
  BY <1>0 DEF RingInv, RingShape, OneRunning, Members, TypeOK
<1>1. ASSUME NEW t \in Threads \ {main}, NewThread(t)
      PROVE  RingInv'
  <2>1. /\ t \notin Members /\ pc[t] # "locking"
    BY <1>0, <1>1 DEF NewThread, Members, Runnable, LifeInv
  <2>2. Members' = Members \cup {t}
    BY <1>0, <1>1, <2>1 DEF NewThread, Members, Runnable, TypeOK
  <2>3. RingShape(next', prev', ready_list_head', Members')
    <3>1. /\ next' = [next EXCEPT ![prev[ready_list_head]] = t, ![t] = ready_list_head]
          /\ prev' = [prev EXCEPT ![ready_list_head] = t, ![t] = prev[ready_list_head]]
          /\ ready_list_head' = ready_list_head
      BY <1>1 DEF NewThread, EnqueueThread
    <3> QED
      BY <1>0, <1>a, <2>1, <2>2, <3>1, RingInsert DEF TypeOK
  <2>4. OneRunning'
    BY <1>0, <1>1, <1>a DEF NewThread, OneRunning, TypeOK
  <2> QED
    BY <1>1, <1>a, <2>2, <2>3, <2>4 DEF RingInv, NewThread
<1>2. ASSUME UNCHANGED ringVars, UNCHANGED current_thread, Members' = Members,
             \A y \in Threads : state'[y] = "RUNNING" <=> state[y] = "RUNNING"
      PROVE  RingInv'
  BY <1>0, <1>2 DEF RingInv, OneRunning, ringVars
<1>3. ASSUME NEW nt \in Threads, TimerStep(nt) PROVE RingInv'
  <2>1. Members' = Members
    BY <1>0, <1>3, <1>a DEF TimerStep, Rotate, Members, Runnable, TypeOK
  <2>2. OneRunning'
    BY <1>0, <1>3, <1>a DEF TimerStep, Rotate, OneRunning, TypeOK
  <2> QED
    BY <1>3, <1>a, <2>1, <2>2 DEF TimerStep, Rotate, RingInv, ringVars
<1>4. ASSUME NEW t \in Threads, NEW k \in {"DEAD", "BLOCKED"}, NEW h \in Threads,
             LeaveStep(t, k, h), pc' = pc \/ pc' = [pc EXCEPT ![t] = "locking"]
      PROVE  RingInv'
  <2>1. t \in Members /\ h \in Members /\ h # t /\ t = current_thread
    BY <1>4, <1>a DEF LeaveStep, Leave
  <2>2. Members' = Members \ {t}
    BY <1>0, <1>4, <2>1 DEF LeaveStep, Leave, Members, Runnable, TypeOK
  <2>3. RingShape(next', prev', ready_list_head', Members')
    <3>1. /\ next[t] # t
          /\ next'[prev[t]] = next[t] /\ prev'[next[t]] = prev[t]
          /\ ready_list_head' = IF ready_list_head = t THEN next[t] ELSE ready_list_head
      BY <1>4 DEF LeaveStep, Leave
    <3>2. /\ \A y \in Members \ {t} : y # prev[t] => next'[y] = next[y]
          /\ \A y \in Members \ {t} : y # next[t] => prev'[y] = prev[y]
      BY <1>4 DEF LeaveStep, Leave, Members
    <3>3. RingShape(next, prev, ready_list_head, Members)
      BY <1>a
    <3>4. RingShape(next', prev', IF ready_list_head = t THEN next[t] ELSE ready_list_head,
                    Members \ {t})
      BY ONLY <2>1, <3>1, <3>2, <3>3, RingRemove
    <3> QED
      BY ONLY <2>2, <3>1, <3>4
  <2>4. OneRunning'
    BY <1>0, <1>4, <1>a, <2>1 DEF LeaveStep, Leave, OneRunning, TypeOK
  <2> QED
    BY <1>4, <1>a, <2>1, <2>2, <2>3, <2>4 DEF LeaveStep, Leave, RingInv
<1>5. ASSUME NEW t \in Workers, MutexLockFast(t) PROVE RingInv'
  BY <1>0, <1>2, <1>5 DEF MutexLockFast, Members, Runnable, TypeOK, ringVars
<1>6. ASSUME NEW t \in Workers, MutexUnlock(t) PROVE RingInv'
  <2>1. t \in Members /\ t = current_thread
    BY <1>6, <1>a DEF MutexUnlock
  <2>2. blocked_head # NULL => blocked_head \in Threads /\ state[blocked_head] = "BLOCKED"
                               /\ pc[blocked_head] = "locking"
    BY <1>0 DEF QueueInv, QueueShape, Blocked, LifeInv
  <2>3. Members' = Members
    BY <1>0, <1>6, <2>1, <2>2 DEF MutexUnlock, Members, Runnable, TypeOK
  <2>4. \A y \in Threads : state'[y] = "RUNNING" <=> state[y] = "RUNNING"
    BY <1>0, <1>6, <2>2 DEF MutexUnlock, TypeOK
  <2> QED
    BY <1>2, <1>6, <2>3, <2>4 DEF MutexUnlock
<1>7. ASSUME ReaperStep PROVE RingInv'
  <2>1. CASE state' = state
    BY <1>2, <1>7, <2>1 DEF ReaperStep, Members
  <2>2. CASE ReaperFree
    <3>1. reap.t \in Threads /\ state[reap.t] = "DEAD"
      BY <1>0, <2>2 DEF ReapInv, ReaperFree, ChainShape, Taken, Null, Dead
    <3> QED
      BY <1>0, <1>2, <1>7, <2>2, <3>1 DEF ReaperFree, ReaperStep, Members, Runnable, TypeOK
  <2> QED
    BY <1>7, <2>1, <2>2 DEF ReaperStep, ReaperTake, ReaperWalk
<1> QED
  BY <1>1, <1>2, <1>3, <1>4, <1>5, <1>6, <1>7, StepCases
     DEF CreateThread, CreateUserThread, StartScheduler, TimerIdle, BlockStep, ExitStep,
         Members, vars

(* Thread states change as a thread's life allows: every step keeps LifeInv.*)
LEMMA LifeStep ==
  ASSUME IInv, [Next]_vars
  PROVE  LifeInv'
<1> USE Names DEF LifeInv
<1>0. TypeOK /\ RingInv /\ LifeInv /\ ReapInv /\ QueueInv
  BY DEF IInv
<1>a. current_thread \in Members /\ current_thread \in Threads
  BY <1>0 DEF RingInv, Members
<1>1. ASSUME NEW t \in Threads \ {main}, NewThread(t) PROVE LifeInv'
  BY <1>0, <1>1 DEF NewThread, TypeOK, Runnable
<1>2. ASSUME UNCHANGED <<state, pc>> PROVE LifeInv'
  BY <1>0, <1>2
<1>3. ASSUME NEW nt \in Threads, TimerStep(nt) PROVE LifeInv'
  BY <1>0, <1>3, <1>a DEF TimerStep, Rotate, Members, Runnable, TypeOK
<1>4. ASSUME NEW t \in Threads, NEW h \in Threads, BlockStep(t, h) PROVE LifeInv'
  BY <1>0, <1>4, <1>a DEF BlockStep, LeaveStep, Leave, Members, Runnable, TypeOK
<1>5. ASSUME NEW t \in Threads, NEW h \in Threads, ExitStep(t, h) PROVE LifeInv'
  BY <1>0, <1>5, <1>a DEF ExitStep, LeaveStep, Leave, Members, Runnable, TypeOK
<1>6. ASSUME NEW t \in Workers, MutexLockFast(t) PROVE LifeInv'
  BY <1>0, <1>6, <1>a DEF MutexLockFast, Members, Runnable, TypeOK
<1>7. ASSUME NEW t \in Workers, MutexUnlock(t) PROVE LifeInv'
  <2>1. blocked_head # NULL => blocked_head \in Threads /\ state[blocked_head] = "BLOCKED"
    BY <1>0 DEF QueueInv, QueueShape, Blocked
  <2>2. t \in Members
    BY <1>7, <1>a DEF MutexUnlock
  <2> QED
    BY <1>0, <1>7, <2>1, <2>2 DEF MutexUnlock, Members, Runnable, TypeOK
<1>8. ASSUME ReaperStep PROVE LifeInv'
  <2>1. CASE ReaperFree
    <3>1. reap.t \in Threads /\ state[reap.t] = "DEAD"
      BY <1>0, <2>1 DEF ReapInv, ReaperFree, ChainShape, Taken, Null, Dead
    <3> QED
      BY <1>0, <1>8, <2>1, <3>1 DEF ReaperFree, ReaperStep, Runnable, TypeOK
  <2> QED
    BY <1>2, <1>8, <2>1 DEF ReaperStep, ReaperTake, ReaperWalk
<1> QED
  BY <1>1, <1>2, <1>3, <1>4, <1>5, <1>6, <1>7, <1>8, StepCases
     DEF CreateThread, CreateUserThread, StartScheduler, TimerIdle, vars

(* A thread's process pointer is set once, when the thread is created: every*)
(* step keeps ProcessInv.                                                  *)
LEMMA ProcessStep ==
  ASSUME IInv, [Next]_vars
  PROVE  ProcessInv'
<1> USE Names
<1>0. TypeOK /\ RingInv /\ ProcessInv /\ ReapInv /\ QueueInv
  BY DEF IInv
<1>1. ASSUME NEW t \in Threads \ ({main} \cup Users), CreateThread(t) PROVE ProcessInv'
  BY <1>0, <1>1 DEF CreateThread, NewThread, TypeOK, ProcessInv
<1>2. ASSUME NEW u \in Users, CreateUserThread(u) PROVE ProcessInv'
  BY <1>0, <1>2 DEF CreateUserThread, NewThread, TypeOK, ProcessInv
<1>3. ASSUME UNCHANGED process,
             \A y \in Threads : state'[y] = "NONE" <=> state[y] = "NONE"
      PROVE  ProcessInv'
  BY <1>0, <1>3 DEF ProcessInv
<1>4. current_thread \in Threads /\ state[current_thread] # "NONE"
  BY <1>0 DEF RingInv, Members, Runnable
<1>5. ASSUME NEW nt \in Threads, TimerStep(nt) PROVE ProcessInv'
  BY <1>0, <1>3, <1>4, <1>5 DEF TimerStep, Rotate, Members, Runnable, TypeOK
<1>6. ASSUME NEW t \in Threads, NEW h \in Threads, NEW k \in {"DEAD", "BLOCKED"},
             LeaveStep(t, k, h)
      PROVE  ProcessInv'
  BY <1>0, <1>3, <1>4, <1>6 DEF LeaveStep, Leave, Members, Runnable, TypeOK
<1>7. ASSUME NEW t \in Workers, MutexUnlock(t) PROVE ProcessInv'
  <2>1. blocked_head # NULL => blocked_head \in Threads /\ state[blocked_head] = "BLOCKED"
    BY <1>0 DEF QueueInv, QueueShape, Blocked
  <2> QED
    BY <1>0, <1>3, <1>7, <2>1 DEF MutexUnlock, TypeOK
<1>8. ASSUME ReaperStep PROVE ProcessInv'
  <2>1. CASE ReaperFree
    <3>1. reap.t \in Threads /\ state[reap.t] = "DEAD"
      BY <1>0, <2>1 DEF ReapInv, ReaperFree, ChainShape, Taken, Null, Dead
    <3> QED
      BY <1>0, <1>3, <1>8, <2>1, <3>1 DEF ReaperFree, ReaperStep, TypeOK
  <2> QED
    BY <1>3, <1>8, <2>1 DEF ReaperStep, ReaperTake, ReaperWalk
<1> QED
  BY <1>1, <1>2, <1>3, <1>5, <1>6, <1>7, <1>8, StepCases
     DEF StartScheduler, TimerIdle, MutexLockFast, BlockStep, ExitStep, vars

(* create_user_thread appends to a list of stacks without gaps: every step *)
(* keeps BootInv.                                                          *)
LEMMA BootStep ==
  ASSUME IInv, [Next]_vars
  PROVE  BootInv'
<1> USE Names
<1>0. TypeOK /\ BootInv /\ ProcessInv
  BY DEF IInv
<1>1. ASSUME NEW u \in Users, CreateUserThread(u) PROVE BootInv'
  <2> DEFINE p == Home[u]
             last == CHOOSE v \in Users : process[v] = p /\ us_next[v] = NULL
  <2>1. cpu = "boot" /\ state[u] = "NONE" /\ process[u] = NULL /\ us_next[u] = NULL
    BY <1>0, <1>1 DEF CreateUserThread, NewThread, ProcessInv, BootInv
  <2>2. p \in Procs /\ p # NULL
    OBVIOUS
  <2>3. ustacks_infos[p] # NULL => last \in Users /\ process[last] = p /\ last # u
    BY <1>0, <2>1, <2>2 DEF BootInv
  <2>4. /\ process' = [process EXCEPT ![u] = p]
        /\ state' = [state EXCEPT ![u] = "READY"]
        /\ us_next' = IF ustacks_infos[p] = NULL THEN us_next
                      ELSE [us_next EXCEPT ![last] = u]
        /\ ustacks_infos' = IF ustacks_infos[p] = NULL THEN [ustacks_infos EXCEPT ![p] = u]
                            ELSE ustacks_infos
    BY <1>1 DEF CreateUserThread, NewThread
  <2> HIDE DEF last, p
  <2>5. us_next'[u] = NULL /\ process'[u] = p
    BY <1>0, <2>1, <2>3, <2>4 DEF TypeOK
  <2>6. \A v \in Users : state'[v] = "NONE" => us_next'[v] = NULL
    <3>1. ustacks_infos[p] # NULL => state[last] # "NONE"
      BY <1>0, <2>2, <2>3 DEF ProcessInv
    <3> QED
      BY <1>0, <2>1, <2>3, <2>4, <3>1 DEF TypeOK, BootInv
  <2>7. ASSUME NEW q \in Procs, ustacks_infos'[q] # NULL
        PROVE  \E v \in Users : process'[v] = q /\ us_next'[v] = NULL
    <3>1. CASE q = p
      BY <2>5, <3>1
    <3>2. CASE q # p
      <4>1. ustacks_infos[q] # NULL
        BY <1>0, <2>4, <2>7, <3>2 DEF TypeOK
      <4>2. PICK v \in Users : process[v] = q /\ us_next[v] = NULL
        BY <1>0, <2>1, <4>1 DEF BootInv
      <4>3. v # u /\ (ustacks_infos[p] # NULL => v # last)
        BY <2>1, <2>3, <3>2, <4>2
      <4>4. process'[v] = q /\ us_next'[v] = NULL
        BY <1>0, <2>4, <4>2, <4>3 DEF TypeOK
      <4> QED
        BY <4>4
    <3> QED
      BY <3>1, <3>2
  <2>8. current_thread' = main
    BY <1>0, <1>1, <2>1 DEF BootInv, CreateUserThread, NewThread
  <2> QED
    BY <2>6, <2>7, <2>8 DEF BootInv
<1>3. ASSUME NEW t \in Threads \ ({main} \cup Users), CreateThread(t) PROVE BootInv'
  BY <1>0, <1>3 DEF CreateThread, NewThread, TypeOK, BootInv
<1>4. ASSUME cpu' # "boot" PROVE BootInv'
  BY <1>4 DEF BootInv
<1>5. ASSUME UNCHANGED vars PROVE BootInv'
  BY <1>0, <1>5 DEF BootInv, vars, usVars
<1>6. ASSUME TimerIdle \/ ReaperStep \/ (\E t \in Workers : MutexLockFast(t) \/ MutexUnlock(t))
      PROVE  cpu' # "boot"
  BY <1>6 DEF TimerIdle, ReaperStep, MutexLockFast, MutexUnlock
<1>7. ASSUME NEW a, NEW b, SwitchTo(a, b), cpu = "run" PROVE cpu' # "boot"
  BY <1>7 DEF SwitchTo
<1>8. ASSUME NEW nt \in Threads, TimerStep(nt) PROVE cpu' # "boot"
  BY <1>7, <1>8 DEF TimerStep, Rotate
<1>9. ASSUME NEW t \in Threads, NEW h \in Threads, BlockStep(t, h) \/ ExitStep(t, h)
      PROVE  cpu' # "boot"
  BY <1>7, <1>9 DEF BlockStep, ExitStep, LeaveStep, Leave
<1> QED
  BY <1>1, <1>3, <1>4, <1>5, <1>6, <1>8, <1>9, StepCases DEF StartScheduler

(* The dead stay on their two chains.                                      *)
LEMMA ReapStep ==
  ASSUME IInv, [Next]_vars
  PROVE  ReapInv'
<1> USE Names
<1>0. TypeOK /\ RingInv /\ LifeInv /\ ReapInv /\ QueueInv /\ ProcessInv
  BY DEF IInv
<1>a. /\ current_thread \in Members /\ \A y \in Members : next[y] \in Members /\ prev[y] \in Members
      /\ ready_list_head \in Members
      /\ Members \subseteq Threads /\ Members \cap Dead = {} /\ Dead \subseteq Threads
      /\ NULL \notin Dead
  BY <1>0 DEF RingInv, RingShape, Members, Runnable, Dead
<1>b. ChainShape(next, dead_list_head, Taken, Dead) /\ Taken \in Null(Dead)
  BY <1>0 DEF ReapInv, ChainShape
<1>c. reap.at # "idle" => reap.t = Taken /\ reap.t \in Dead
  BY <1>0, <1>b DEF ReapInv, Taken, Null
<1>1. ASSUME UNCHANGED <<dead_list_head, reap>>, Dead' = Dead,
             \A y \in Dead : next'[y] = next[y] /\ process'[y] = process[y]
      PROVE  ReapInv'
  <2>1. ChainShape(next', dead_list_head', Taken', Dead')
    <3>1. Taken' = Taken
      BY <1>1 DEF Taken
    <3> QED
      BY <1>1, <1>b, <3>1, ChainFrame
  <2> QED
    BY <1>0, <1>1, <1>c, <2>1 DEF ReapInv
<1>2. ASSUME NEW t \in Threads \ {main}, NewThread(t),
             \A y \in Threads : y # t => process'[y] = process[y]
      PROVE  ReapInv'
  <2>1. Dead' = Dead /\ t \notin Dead
    BY <1>0, <1>2 DEF NewThread, Dead, TypeOK
  <2>2. \A y \in Dead : next'[y] = next[y]
    BY <1>0, <1>2, <1>a, <2>1 DEF NewThread, EnqueueThread, TypeOK
  <2> QED
    BY <1>1, <1>2, <1>a, <2>1, <2>2 DEF NewThread
<1>3. ASSUME NEW u \in Users, CreateUserThread(u) PROVE ReapInv'
  BY <1>0, <1>2, <1>3 DEF CreateUserThread, TypeOK
<1>4. ASSUME NEW nt \in Threads, TimerStep(nt) PROVE ReapInv'
  <2>1. Dead' = Dead
    BY <1>0, <1>4, <1>a DEF TimerStep, Rotate, Dead, TypeOK
  <2> QED
    BY <1>1, <1>4, <2>1 DEF TimerStep, Rotate, ringVars
<1>5. ASSUME NEW t \in Threads, NEW k \in {"DEAD", "BLOCKED"}, NEW h \in Threads,
             LeaveStep(t, k, h)
      PROVE  ReapInv'
  <2>1. t \in Members /\ t \notin Dead /\ t # NULL /\ h \in Members /\ h # t
        /\ prev[t] \in Members
    BY <1>5, <1>a DEF LeaveStep, Leave
  <2>2. \A y \in Dead : next'[y] = next[y]
    BY <1>5, <1>a, <2>1 DEF LeaveStep, Leave
  <2>3. CASE k = "BLOCKED"
    <3>1. Dead' = Dead
      BY <1>0, <1>5, <2>1, <1>a, <2>3 DEF LeaveStep, Leave, Dead, TypeOK
    <3> QED
      BY <1>1, <1>5, <2>2, <2>3, <3>1 DEF LeaveStep, Leave
  <2>4. CASE k = "DEAD"
    <3>1. Dead' = Dead \cup {t}
      BY <1>0, <1>5, <2>1, <1>a, <2>4 DEF LeaveStep, Leave, Dead, TypeOK
    <3>2. next'[t] = dead_list_head /\ dead_list_head' = t /\ Taken' = Taken
      BY <1>5, <2>4 DEF LeaveStep, Leave, Taken
    <3>3. ChainShape(next', t, Taken, Dead \cup {t})
      BY <1>a, <1>b, <2>1, <2>2, <3>2, ChainPush
    <3> QED
      BY <1>0, <1>5, <1>c, <2>2, <3>1, <3>2, <3>3 DEF ReapInv, LeaveStep
  <2> QED
    BY <2>3, <2>4
<1>6. ASSUME NEW t \in Workers, MutexUnlock(t) PROVE ReapInv'
  <2>1. blocked_head # NULL => blocked_head \in Threads /\ state[blocked_head] = "BLOCKED"
    BY <1>0 DEF QueueInv, QueueShape, Blocked
  <2>2. Dead' = Dead
    BY <1>0, <1>6, <2>1 DEF MutexUnlock, Dead, TypeOK
  <2> QED
    BY <1>1, <1>6, <2>2 DEF MutexUnlock, ringVars
<1>7. ASSUME ReaperStep PROVE ReapInv'
  <2>0. next' = next /\ process' = process
    BY <1>7 DEF ReaperStep, ringVars
  <2>1. CASE ReaperTake
    <3>1. Taken = NULL /\ Taken' = dead_list_head /\ Dead' = Dead
      BY <2>1 DEF ReaperTake, Taken, Dead
    <3>2. ChainShape(next', dead_list_head', Taken', Dead')
      BY <1>b, <2>0, <2>1, <3>1, ChainTake DEF ReaperTake
    <3> QED
      BY <2>1, <3>2 DEF ReaperTake, ReapInv
  <2>2. CASE ReaperFree
    <3>1. Taken = reap.t /\ Taken # NULL /\ reap.t \in Dead
      BY <1>0, <1>c, <2>2 DEF ReaperFree, ReapInv
    <3>2. Dead' = Dead \ {reap.t}
      BY <1>0, <2>2, <3>1 DEF ReaperFree, Dead, TypeOK
    <3>3. Taken' = next[reap.t]
      BY <2>2 DEF ReaperFree, Taken
    <3>4. ChainShape(next', dead_list_head', Taken', Dead')
      BY <1>a, <1>b, <2>0, <2>2, <3>1, <3>2, <3>3, ChainPop DEF ReaperFree
    <3> QED
      BY <2>2, <3>4 DEF ReaperFree, ReapInv
  <2>3. CASE ReaperWalk
    <3>1. Taken' = Taken /\ Dead' = Dead
      BY <2>3 DEF ReaperWalk, Taken, Dead
    <3> QED
      BY <1>0, <1>b, <2>0, <2>3, <3>1 DEF ReaperWalk, ReapInv
  <2> QED
    BY <1>7, <2>1, <2>2, <2>3 DEF ReaperStep
<1> QED
  BY <1>1, <1>2, <1>3, <1>4, <1>5, <1>6, <1>7, StepCases
     DEF CreateThread, StartScheduler, TimerIdle, MutexLockFast, BlockStep, ExitStep, Dead,
         vars, ringVars

(* The mutex's queue, and who owns the mutex.                              *)
LEMMA MutexStep ==
  ASSUME IInv, [Next]_vars
  PROVE  QueueInv' /\ MutexOwned'
<1> USE Names
<1>0. TypeOK /\ RingInv /\ LifeInv /\ ReapInv /\ QueueInv /\ MutexOwned
  BY DEF IInv
<1>a. current_thread \in Members /\ current_thread \in Threads
  BY <1>0 DEF RingInv, Members
<1>b. Blocked \subseteq Threads
      /\ (blocked_head # NULL => blocked_head \in Threads /\ state[blocked_head] = "BLOCKED"
                                 /\ pc[blocked_head] = "locking")
  BY <1>0 DEF QueueInv, QueueShape, Blocked, LifeInv
<1>1. ASSUME UNCHANGED mutexVars, Blocked' = Blocked, Owners' = Owners
      PROVE  QueueInv' /\ MutexOwned'
  BY <1>0, <1>1 DEF QueueInv, MutexOwned, mutexVars
<1>2. ASSUME NEW t \in Threads \ {main}, NewThread(t)
      PROVE  Blocked' = Blocked /\ Owners' = Owners
  BY <1>0, <1>2 DEF NewThread, Blocked, Owners, LifeInv, Runnable, TypeOK
<1>3. ASSUME NEW nt \in Threads, TimerStep(nt)
      PROVE  Blocked' = Blocked /\ Owners' = Owners
  BY <1>0, <1>3, <1>a DEF TimerStep, Rotate, Blocked, Owners, Members, Runnable, TypeOK
<1>4. ASSUME NEW t \in Threads, NEW h \in Threads, ExitStep(t, h)
      PROVE  Blocked' = Blocked /\ Owners' = Owners
  BY <1>0, <1>4, <1>a DEF ExitStep, LeaveStep, Leave, Blocked, Owners, Members, Runnable, TypeOK
<1>5. ASSUME NEW t \in Threads, NEW h \in Threads, BlockStep(t, h)
      PROVE  QueueInv' /\ MutexOwned'
  <2>1. t \in Members /\ t \notin Blocked /\ t # NULL /\ h \in Members /\ h # t
    BY <1>5, <1>a DEF BlockStep, LeaveStep, Leave, Members, Blocked, Runnable
  <2>2. Blocked' = Blocked \cup {t}
    BY <1>0, <1>5, <2>1 DEF BlockStep, LeaveStep, Leave, Blocked, Members, Runnable, TypeOK
  <2>3. Owners' = Owners
    BY <1>0, <1>5, <2>1 DEF BlockStep, LeaveStep, Leave, Owners, Members, Runnable, TypeOK
  <2>4. QueueInv'
    BY <1>0, <1>5, <1>b, <2>1, <2>2, QueuePush DEF BlockStep, QueueInv, TypeOK
  <2> QED
    BY <1>0, <1>5, <2>3, <2>4 DEF BlockStep, LeaveStep, MutexOwned
<1>6. ASSUME NEW t \in Workers, MutexLockFast(t)
      PROVE  QueueInv' /\ MutexOwned'
  <2>1. Owners = {} /\ Owners' = {t}
    BY <1>0, <1>6 DEF MutexLockFast, MutexOwned, Owners, TypeOK
  <2> QED
    BY <1>0, <1>6, <2>1 DEF MutexLockFast, MutexOwned, QueueInv, Blocked
<1>7. ASSUME NEW t \in Workers, MutexUnlock(t)
      PROVE  QueueInv' /\ MutexOwned'
  <2>1. t \in Members /\ pc[t] = "cs" /\ Owners = {t} /\ locked /\ t \in Threads
    BY <1>0, <1>7, <1>a DEF MutexUnlock, LockedAfterUnlock, TailAfterPop, InCS, Members, Owners, MutexOwned
  <2>2. CASE blocked_head = NULL
    <3>1. Owners' = {}
      BY <1>0, <1>7, <2>1, <2>2 DEF MutexUnlock, LockedAfterUnlock, TailAfterPop, Owners, TypeOK
    <3>2. Blocked' = Blocked
      BY <1>7, <2>2 DEF MutexUnlock, LockedAfterUnlock, TailAfterPop, Blocked
    <3> QED
      BY <1>0, <1>7, <2>2, <3>1, <3>2 DEF MutexUnlock, LockedAfterUnlock, TailAfterPop, MutexOwned, QueueInv
  <2>3. CASE blocked_head # NULL
    <3>1. Owners' = {blocked_head}
      BY <1>0, <1>7, <1>b, <2>1, <2>3 DEF MutexUnlock, LockedAfterUnlock, TailAfterPop, Owners, TypeOK
    <3>2. Blocked' = Blocked \ {blocked_head}
      BY <1>0, <1>7, <1>b, <2>3 DEF MutexUnlock, LockedAfterUnlock, TailAfterPop, Blocked, TypeOK
    <3>3. QueueInv'
      <4>1. QueueShape([next_blocked EXCEPT ![blocked_head] = NULL],
                       next_blocked[blocked_head],
                       IF next_blocked[blocked_head] = NULL THEN NULL ELSE blocked_tail,
                       Blocked \ {blocked_head})
        BY <1>0, <1>b, <2>3, QueuePop DEF QueueInv, TypeOK
      <4>2. /\ next_blocked' = [next_blocked EXCEPT ![blocked_head] = NULL]
            /\ blocked_head' = next_blocked[blocked_head]
            /\ blocked_tail' = IF next_blocked[blocked_head] = NULL THEN NULL ELSE blocked_tail
        BY <1>7, <2>3 DEF MutexUnlock, LockedAfterUnlock, TailAfterPop
      <4> QED
        BY <3>2, <4>1, <4>2 DEF QueueInv
    <3> QED
      BY <1>7, <2>1, <2>3, <3>1, <3>3 DEF MutexUnlock, LockedAfterUnlock, TailAfterPop, MutexOwned
  <2> QED
    BY <2>2, <2>3
<1>8. ASSUME ReaperStep
      PROVE  Blocked' = Blocked /\ Owners' = Owners
  <2>1. CASE ReaperFree
    <3>1. reap.t \in Threads /\ state[reap.t] = "DEAD"
      BY <1>0, <2>1 DEF ReapInv, ReaperFree, ChainShape, Taken, Null, Dead
    <3> QED
      BY <1>0, <1>8, <2>1, <3>1 DEF ReaperFree, ReaperStep, Blocked, Owners, LifeInv, Runnable, TypeOK
  <2> QED
    BY <1>8, <2>1 DEF ReaperStep, ReaperTake, ReaperWalk, Blocked, Owners
<1>9. ASSUME UNCHANGED <<state, pc>> PROVE Blocked' = Blocked /\ Owners' = Owners
  BY <1>9 DEF Blocked, Owners
<1> QED
  BY <1>1, <1>2, <1>3, <1>4, <1>5, <1>6, <1>7, <1>8, <1>9, StepCases
     DEF CreateThread, CreateUserThread, NewThread, StartScheduler, TimerIdle, TimerStep,
         ExitStep, ReaperStep, vars

(* A thread given the CPU can be preempted.                                *)
LEMMA FrameStep ==
  ASSUME IInv, [Next]_vars
  PROVE  FrameInv'
<1> USE Names
<1>0. TypeOK /\ RingInv /\ LifeInv /\ ReapInv /\ QueueInv /\ FrameInv
  BY DEF IInv
<1>a. current_thread \in Members /\ Members \subseteq Threads
  BY <1>0 DEF RingInv, Members
<1>1. ASSUME UNCHANGED <<cpu, frame_if, current_thread>>, iflag' \in {iflag, TRUE},
             Members' = Members
      PROVE  FrameInv'
  BY <1>0, <1>1 DEF FrameInv, Preemptible
<1>2. ASSUME NEW t \in Threads \ {main}, NewThread(t) PROVE FrameInv'
  <2>1. Members' \subseteq Members \cup {t}
    BY <1>0, <1>2 DEF NewThread, Members, Runnable, TypeOK
  <2>2. \A y \in Members' : y # current_thread => frame_if'[y]
    BY <1>0, <1>2, <1>a, <2>1 DEF NewThread, InitialIF, FrameInv, TypeOK
  <2> QED
    BY <1>2, <2>2 DEF NewThread, FrameInv, Preemptible
<1>3. ASSUME StartScheduler PROVE FrameInv'
  BY <1>0, <1>3 DEF StartScheduler, FrameInv, Preemptible, Members
<1>4. ASSUME NEW nt \in Threads, TimerStep(nt) PROVE FrameInv'
  <2>1. Members' = Members
    BY <1>0, <1>4, <1>a DEF TimerStep, Rotate, Members, Runnable, TypeOK
  <2>2. \A y \in Members : frame_if'[y]
    BY <1>0, <1>4, <1>a DEF TimerStep, Rotate, FrameInv, TypeOK
  <2>3. cpu' = "run" => iflag'
    BY <1>4, <2>2 DEF TimerStep, Rotate, SwitchTo
  <2> QED
    BY <2>1, <2>2, <2>3 DEF FrameInv, Preemptible
<1>5. ASSUME NEW t \in Threads, NEW k \in {"DEAD", "BLOCKED"}, NEW h \in Threads,
             LeaveStep(t, k, h), pc' = pc \/ pc' = [pc EXCEPT ![t] = "locking"]
      PROVE  FrameInv'
  <2>1. t = current_thread /\ h \in Members /\ h # t /\ t \in Members
    BY <1>5, <1>a DEF LeaveStep, Leave
  <2>2. Members' = Members \ {t}
    BY <1>0, <1>5, <2>1 DEF LeaveStep, Leave, Members, Runnable, TypeOK
  <2>3. \A y \in Members \ {t} : frame_if'[y]
    BY <1>0, <1>5, <1>a, <2>1 DEF LeaveStep, Leave, FrameInv
  <2>4. cpu' = "run" => iflag'
    BY <1>5, <2>1, <2>3 DEF LeaveStep, Leave, SwitchTo
  <2> QED
    BY <2>2, <2>3, <2>4 DEF FrameInv, Preemptible
<1>6. ASSUME NEW t \in Workers, MutexLockFast(t) PROVE Members' = Members
  BY <1>0, <1>6 DEF MutexLockFast, Members, TypeOK
<1>7. ASSUME NEW t \in Workers, MutexUnlock(t) PROVE Members' = Members
  <2>1. blocked_head # NULL => blocked_head \in Threads /\ state[blocked_head] = "BLOCKED"
                               /\ pc[blocked_head] = "locking"
    BY <1>0 DEF QueueInv, QueueShape, Blocked, LifeInv
  <2>2. t \in Members
    BY <1>7, <1>a DEF MutexUnlock
  <2> QED
    BY <1>0, <1>7, <2>1, <2>2 DEF MutexUnlock, Members, Runnable, TypeOK
<1>8. ASSUME ReaperStep PROVE Members' = Members
  <2>1. CASE ReaperFree
    <3>1. reap.t \in Threads /\ state[reap.t] = "DEAD"
      BY <1>0, <2>1 DEF ReapInv, ReaperFree, ChainShape, Taken, Null, Dead
    <3> QED
      BY <1>0, <1>8, <2>1, <3>1 DEF ReaperFree, ReaperStep, Members, Runnable, TypeOK
  <2> QED
    BY <1>8, <2>1 DEF ReaperStep, ReaperTake, ReaperWalk, Members
<1> QED
  BY <1>1, <1>2, <1>3, <1>4, <1>5, <1>6, <1>7, <1>8, StepCases
     DEF CreateThread, CreateUserThread, TimerIdle, MutexLockFast, MutexUnlock, BlockStep,
         ExitStep, ReaperStep, Members, vars

(* A context switch installs the right address space.                      *)
LEMMA CpuStep ==
  ASSUME IInv, [Next]_vars
  PROVE  CpuInv'
<1> USE Names DEF CpuInv, ContextOK, NoRunawaySwitch
<1>0. TypeOK /\ RingInv /\ ProcessInv /\ BootInv /\ CpuInv
  BY DEF IInv
<1>1. ASSUME NEW old \in Members, NEW nt \in Members, cpu = "run",
             old = current_thread, SwitchTo(old, nt), current_thread' = nt,
             UNCHANGED process
      PROVE  CpuInv'
  <2>0. old \in Threads /\ nt \in Threads /\ state[old] # "NONE" /\ state[nt] # "NONE"
    BY DEF Members, Runnable
  <2>1. CASE process[old] # process[nt] /\ WILD \in {process[old], process[nt]}
    <3>1. process[main] = WILD
      BY <1>0, <2>0, <2>1 DEF ProcessInv
    <3> QED
      BY <1>1, <2>1, <3>1 DEF SwitchTo
  <2>2. CASE ~(process[old] # process[nt] /\ WILD \in {process[old], process[nt]})
    <3>1. cpu' = "run" /\ tss_rsp0' = nt /\ SwitchProcess(old, nt)
      BY <1>1, <2>2 DEF SwitchTo
    <3>2. ASSUME nt \in Users PROVE cr3' = Home[nt]
      <4>1. process[nt] = Home[nt] /\ Home[nt] \in Procs
        BY <1>0, <2>0, <3>2 DEF ProcessInv
      <4>2. CASE process[old] = process[nt]
        <5>1. old \in Users /\ process[old] = Home[old]
          BY <1>0, <2>0, <4>1, <4>2 DEF ProcessInv
        <5> QED
          BY <1>0, <1>1, <3>1, <4>1, <4>2, <5>1 DEF SwitchProcess
      <4>3. CASE process[old] # process[nt]
        BY <3>1, <4>1, <4>3 DEF SwitchProcess
      <4> QED
        BY <4>2, <4>3
    <3> QED
      BY <1>1, <3>1, <3>2
  <2> QED
    BY <2>1, <2>2
<1>2. ASSUME UNCHANGED <<cpu, current_thread, cr3, tss_rsp0, process>> PROVE CpuInv'
  BY <1>0, <1>2
<1>3. ASSUME NEW t \in Threads, NewThread(t) PROVE CpuInv'
  BY <1>3 DEF NewThread
<1>4. ASSUME StartScheduler PROVE CpuInv'
  BY <1>0, <1>4 DEF StartScheduler, BootInv
<1>5. ASSUME NEW nt \in Threads, TimerStep(nt) PROVE CpuInv'
  BY <1>0, <1>1, <1>5 DEF TimerStep, Rotate, RingInv
<1>6. ASSUME NEW t \in Threads, NEW k, NEW h \in Threads, LeaveStep(t, k, h) PROVE CpuInv'
  BY <1>0, <1>1, <1>6 DEF LeaveStep, Leave, RingInv
<1>7. ASSUME ReaperStep PROVE CpuInv'
  BY <1>7 DEF ReaperStep
<1> QED
  BY <1>2, <1>3, <1>4, <1>5, <1>6, <1>7, StepCases
     DEF CreateThread, CreateUserThread, TimerIdle, MutexLockFast, MutexUnlock, BlockStep,
         ExitStep, vars, usVars

(* Types. A switch and the reaper index the process table only with real   *)
(* processes.                                                              *)
LEMMA SwitchType ==
  ASSUME TypeOK, NEW old \in Threads, NEW nt \in Threads, SwitchTo(old, nt),
         frame_if' \in [Threads -> BOOLEAN]
  PROVE  /\ cpu' \in {"boot", "run", "wild", "spin"}
         /\ iflag' \in BOOLEAN
         /\ us_list_head' \in Null(Users)
         /\ ustacks_infos' \in [Procs -> Null(Users)]
         /\ cr3' \in Procs \cup {BootPML4}
         /\ tss_rsp0' \in Null(Threads)
<1>1. process[old] \in Procs \cup {NULL, WILD} /\ process[nt] \in Procs \cup {NULL, WILD}
  BY DEF TypeOK
<1>2. CASE process[old] # process[nt] /\ WILD \in {process[old], process[nt]}
  BY <1>2 DEF SwitchTo, TypeOK
<1>3. CASE ~(process[old] # process[nt] /\ WILD \in {process[old], process[nt]})
  <2>1. SwitchProcess(old, nt) /\ tss_rsp0' = nt /\ iflag' = frame_if'[nt] /\ cpu' = cpu
    BY <1>3 DEF SwitchTo
  <2>2. us_list_head' \in Null(Users) /\ ustacks_infos' \in [Procs -> Null(Users)]
        /\ cr3' \in Procs \cup {BootPML4}
    BY <1>1, <1>3, <2>1 DEF SwitchProcess, TypeOK, Null
  <2> QED
    BY <2>1, <2>2 DEF TypeOK, Null
<1> QED
  BY <1>2, <1>3

(* What the reaper writes has the right type.                              *)
LEMMA ReaperType ==
  ASSUME TypeOK, ReapInv, ProcessInv, RingInv, Reaper
  PROVE  /\ reap' \in [at : ReapSteps, t : Null(Threads), next_dead : Null(Threads),
                       old_list : Null(Users), old_cr3 : Procs \cup {BootPML4}]
         /\ state' \in [Threads -> States]
         /\ dead_list_head' \in Null(Threads)
         /\ us_list_head' \in Null(Users)
         /\ ustacks_infos' \in [Procs -> Null(Users)]
         /\ us_next' \in [Users -> Null(Users)]
         /\ us_prev' \in [Users -> Null(Users)]
         /\ cr3' \in Procs \cup {BootPML4}
         /\ unmapped_in' \in [Users -> Procs \cup {NULL, BootPML4}]
<1> USE Names
<1>0. reap \in [at : ReapSteps, t : Null(Threads), next_dead : Null(Threads),
               old_list : Null(Users), old_cr3 : Procs \cup {BootPML4}]
  BY DEF TypeOK
<1>a. /\ reap.at \in ReapSteps /\ reap.t \in Null(Threads) /\ reap.next_dead \in Null(Threads)
      /\ reap.old_list \in Null(Users) /\ reap.old_cr3 \in Procs \cup {BootPML4}
  BY <1>0
<1>b. reap.at # "idle" => reap.t \in Threads /\ reap.t # main
                          /\ next[reap.t] \in Null(Threads)
  <2>1. reap.at # "idle" => reap.t \in Dead
    BY DEF ReapInv, ChainShape, Taken, Null
  <2>2. main \notin Dead
    BY DEF RingInv, Members, Runnable, Dead
  <2> QED
    BY <2>1, <2>2 DEF Dead, TypeOK
<1>c. reap.at \notin {"idle", "destroy"} => reap.t \in Users /\ process[reap.t] \in Procs
  <2>1. reap.at \notin {"idle", "destroy"} => process[reap.t] # NULL
    BY DEF ReapInv
  <2> QED
    BY <1>b, <2>1 DEF ProcessInv
<1>1. ASSUME UNCHANGED <<state, dead_list_head, usVars, cr3, unmapped_in>>
      PROVE  /\ state' \in [Threads -> States]
             /\ dead_list_head' \in Null(Threads)
             /\ us_list_head' \in Null(Users)
             /\ ustacks_infos' \in [Procs -> Null(Users)]
             /\ us_next' \in [Users -> Null(Users)]
             /\ us_prev' \in [Users -> Null(Users)]
             /\ cr3' \in Procs \cup {BootPML4}
             /\ unmapped_in' \in [Users -> Procs \cup {NULL, BootPML4}]
  BY <1>1 DEF TypeOK, usVars
<1>2. CASE TakeDeadList
  BY <1>0, <1>2 DEF TakeDeadList, TypeOK, Null, ReapSteps, usVars
<1>3. CASE DestroyKernelThread
  BY <1>0, <1>3, <1>b DEF DestroyKernelThread, ReapFrame, FreeThread, TypeOK, Null, ReapSteps,
     States, usVars
<1>4. CASE DestroyUserThread
  BY <1>0, <1>1, <1>4, <1>b DEF DestroyUserThread, ReapFrame, TypeOK, Null, ReapSteps
<1>5. CASE ReapReadCR3
  BY <1>0, <1>1, <1>5 DEF ReapReadCR3, TypeOK, ReapSteps
<1>6. CASE ReapSetList
  BY <1>0, <1>6, <1>c DEF ReapSetList, ReapFrame, TypeOK, ReapSteps
<1>7. CASE ReapSetCR3
  BY <1>0, <1>7, <1>c DEF ReapSetCR3, ReapFrame, TypeOK, ReapSteps, usVars
<1>8. CASE ReapFind
  BY <1>0, <1>1, <1>8 DEF ReapFind, ReapSteps
<1>9. CASE ReapUnmap
  BY <1>0, <1>9, <1>c DEF ReapUnmap, ReapFrame, TypeOK, ReapSteps, usVars
<1>10. CASE ReapUnlink
  <2> DEFINE i == reap.t
  <2>1. i \in Users
    BY <1>c, <1>10 DEF ReapUnlink, ReapFrame
  <2>2. us_list_head' \in Null(Users)
    BY <1>10, <2>1 DEF ReapUnlink, TypeOK
  <2>3. us_next' \in [Users -> Null(Users)] /\ us_prev' \in [Users -> Null(Users)]
    BY <1>10, <2>1 DEF ReapUnlink, TypeOK, Null
  <2> QED
    BY <1>0, <1>10, <2>2, <2>3 DEF ReapUnlink, TypeOK, ReapSteps
<1>11. CASE ReapPutList
  BY <1>0, <1>11, <1>c DEF ReapPutList, ReapFrame, TypeOK, ReapSteps
<1>12. CASE ReapRestoreList
  BY <1>0, <1>12 DEF ReapRestoreList, TypeOK, ReapSteps
<1>13. CASE ReapRestoreCR3
  BY <1>0, <1>13, <1>b DEF ReapRestoreCR3, ReapFrame, FreeThread, TypeOK, ReapSteps, States, usVars
<1> QED
  BY <1>2, <1>3, <1>4, <1>5, <1>6, <1>7, <1>8, <1>9, <1>10, <1>11, <1>12,
     <1>13 DEF Reaper

(* Every step keeps the type invariant.                                    *)
LEMMA TypeStep ==
  ASSUME IInv, [Next]_vars
  PROVE  TypeOK'
<1> USE Names
<1>0. TypeOK /\ RingInv /\ ReapInv /\ QueueInv /\ ProcessInv /\ BootInv
  BY DEF IInv
<1>a. current_thread \in Threads /\ ready_list_head \in Threads /\ prev[ready_list_head] \in Threads
  BY <1>0 DEF RingInv, RingShape, Members
<1>1. ASSUME NEW t \in Threads, NewThread(t),
             process' \in [Threads -> Procs \cup {NULL, WILD}],
             ustacks_infos' \in [Procs -> Null(Users)],
             us_next' \in [Users -> Null(Users)],
             us_prev' \in [Users -> Null(Users)]
      PROVE  TypeOK'
  <2>1. next' \in [Threads -> Null(Threads)] /\ prev' \in [Threads -> Null(Threads)]
        /\ ready_list_head' \in Null(Threads)
    BY <1>0, <1>1, <1>a DEF NewThread, EnqueueThread, TypeOK, Null
  <2>2. state' \in [Threads -> States] /\ frame_if' \in [Threads -> BOOLEAN]
    BY <1>0, <1>1 DEF NewThread, InitialIF, TypeOK, States
  <2> QED
    BY <1>0, <1>1, <2>1, <2>2 DEF NewThread, TypeOK, mutexVars
<1>2. ASSUME NEW t \in Threads, CreateThread(t) PROVE TypeOK'
  <2>1. NewThread(t) /\ UNCHANGED <<process, ustacks_infos, us_next, us_prev>>
    BY <1>2 DEF CreateThread
  <2> QED
    BY <1>0, <1>1, <2>1 DEF TypeOK
<1>3. ASSUME NEW u \in Users, CreateUserThread(u) PROVE TypeOK'
  <2> DEFINE p == Home[u]
             last == CHOOSE v \in Users : process[v] = p /\ us_next[v] = NULL
  <2>1. p \in Procs /\ cpu = "boot" /\ NewThread(u)
    BY <1>3 DEF CreateUserThread, NewThread
  <2>2. ustacks_infos[p] # NULL => last \in Users
    BY <1>0, <2>1 DEF BootInv
  <2>3. /\ process' = [process EXCEPT ![u] = p]
        /\ ustacks_infos' = IF ustacks_infos[p] = NULL THEN [ustacks_infos EXCEPT ![p] = u]
                            ELSE ustacks_infos
        /\ us_next' = IF ustacks_infos[p] = NULL THEN us_next ELSE [us_next EXCEPT ![last] = u]
        /\ us_prev' = IF ustacks_infos[p] = NULL THEN us_prev ELSE [us_prev EXCEPT ![u] = last]
    BY <1>3 DEF CreateUserThread
  <2> HIDE DEF last, p
  <2>4. /\ process' \in [Threads -> Procs \cup {NULL, WILD}]
        /\ ustacks_infos' \in [Procs -> Null(Users)]
        /\ us_next' \in [Users -> Null(Users)]
        /\ us_prev' \in [Users -> Null(Users)]
    BY <1>0, <2>1, <2>2, <2>3 DEF TypeOK, Null
  <2> QED
    BY <1>1, <2>1, <2>4
<1>4. ASSUME StartScheduler \/ TimerIdle \/ UNCHANGED vars PROVE TypeOK'
  BY <1>0, <1>4 DEF StartScheduler, TimerIdle, TypeOK, vars, ringVars, mutexVars, usVars
<1>5. ASSUME NEW nt \in Threads, TimerStep(nt) PROVE TypeOK'
  <2>1. frame_if' \in [Threads -> BOOLEAN] /\ state' \in [Threads -> States]
    BY <1>0, <1>5 DEF TimerStep, Rotate, TypeOK, States
  <2>2. SwitchTo(current_thread, nt)
    BY <1>5 DEF TimerStep, Rotate
  <2> QED
    BY <1>0, <1>5, <1>a, <2>1, <2>2, SwitchType
       DEF TimerStep, Rotate, TypeOK, ringVars, mutexVars, Null
<1>6. ASSUME NEW t \in Threads, NEW k \in {"DEAD", "BLOCKED"}, NEW h \in Threads,
             LeaveStep(t, k, h),
             pc' \in [Threads -> {"out", "locking", "cs"}],
             next_blocked' \in [Threads -> Null(Threads)],
             blocked_head' \in Null(Threads), blocked_tail' \in Null(Threads)
      PROVE  TypeOK'
  <2>1. state' \in [Threads -> States] /\ dead_list_head' \in Null(Threads)
    BY <1>0, <1>6 DEF LeaveStep, Leave, TypeOK, States, Null
  <2>2. SwitchTo(t, h) /\ frame_if' \in [Threads -> BOOLEAN]
    BY <1>6 DEF LeaveStep, Leave
  <2> QED
    BY <1>0, <1>6, <2>1, <2>2, SwitchType DEF LeaveStep, Leave, TypeOK, Null
<1>7. ASSUME NEW t \in Threads, NEW h \in Threads, BlockStep(t, h) PROVE TypeOK'
  <2>1. /\ pc' \in [Threads -> {"out", "locking", "cs"}]
        /\ next_blocked' \in [Threads -> Null(Threads)]
        /\ blocked_head' \in Null(Threads) /\ blocked_tail' \in Null(Threads)
    BY <1>0, <1>7 DEF BlockStep, TypeOK, Null
  <2> QED
    BY <1>6, <1>7, <2>1 DEF BlockStep
<1>8. ASSUME NEW t \in Threads, NEW h \in Threads, ExitStep(t, h) PROVE TypeOK'
  <2>1. /\ pc' \in [Threads -> {"out", "locking", "cs"}]
        /\ next_blocked' \in [Threads -> Null(Threads)]
        /\ blocked_head' \in Null(Threads) /\ blocked_tail' \in Null(Threads)
    BY <1>0, <1>8 DEF ExitStep, TypeOK, mutexVars
  <2> QED
    BY <1>6, <1>8, <2>1 DEF ExitStep
<1>9. ASSUME NEW t \in Workers, MutexLockFast(t) PROVE TypeOK'
  BY <1>0, <1>9 DEF MutexLockFast, TypeOK, ringVars, usVars
<1>10. ASSUME NEW t \in Workers, MutexUnlock(t) PROVE TypeOK'
  <2>1. blocked_head # NULL => blocked_head \in Threads /\ next_blocked[blocked_head] \in Null(Threads)
    BY <1>0 DEF TypeOK, Null
  <2>2. /\ pc' \in [Threads -> {"out", "locking", "cs"}]
        /\ next_blocked' \in [Threads -> Null(Threads)]
        /\ state' \in [Threads -> States]
        /\ blocked_head' \in Null(Threads) /\ blocked_tail' \in Null(Threads)
        /\ locked' \in BOOLEAN
    <3>1. CASE blocked_head = NULL
      BY <1>0, <1>10, <3>1 DEF MutexUnlock, LockedAfterUnlock, TypeOK
    <3>2. CASE blocked_head # NULL
      <4>1. /\ pc' = [pc EXCEPT ![t] = "out"]
            /\ blocked_head' = next_blocked[blocked_head]
            /\ blocked_tail' = IF next_blocked[blocked_head] = NULL THEN NULL ELSE blocked_tail
            /\ state' = [state EXCEPT ![blocked_head] = "READY"]
            /\ next_blocked' = [next_blocked EXCEPT ![blocked_head] = NULL]
            /\ locked' = locked
        BY <1>10, <3>2 DEF MutexUnlock, LockedAfterUnlock, TailAfterPop
      <4> QED
        BY <1>0, <2>1, <3>2, <4>1 DEF TypeOK, Null, States
    <3> QED
      BY <3>1, <3>2
  <2> QED
    BY <1>0, <1>10, <2>2 DEF MutexUnlock, TypeOK, ringVars, usVars
<1>11. ASSUME Reaper PROVE TypeOK'
  <2>1. ReaperStep
    BY <1>0, <1>11, ReaperSteps
  <2> QED
    BY <1>0, <1>11, <2>1, ReaperType DEF ReaperStep, TypeOK, ringVars, mutexVars
<1> QED
  BY <1>2, <1>3, <1>4, <1>5, <1>7, <1>8, <1>9, <1>10, <1>11, StepCases

-----------------------------------------------------------------------------
(* The ring of main alone, empty queues, no dead thread.                   *)
LEMMA InitInv == Init => IInv
<1> SUFFICES ASSUME Init PROVE IInv
  OBVIOUS
<1> USE Names
<1>1. TypeOK
  <2>1. process \in [Threads -> Procs \cup {NULL, WILD}]
    BY ProcessNames DEF Init
  <2> QED
    BY <2>1 DEF Init, TypeOK, Null, States, ReapSteps
<1>2. Members = {main}
  BY DEF Init, Members, Runnable
<1>3. Dead = {} /\ Blocked = {} /\ Owners = {} /\ Taken = NULL
  BY DEF Init, Dead, Blocked, Owners, Taken
<1>4. RingInv
  <2>1. next[main] = main /\ prev[main] = main /\ ready_list_head = main
    BY DEF Init
  <2>2. RingShape(next, prev, ready_list_head, {main})
    BY <2>1 DEF RingShape
  <2> QED
    BY <1>2, <2>2 DEF RingInv, OneRunning, Init
<1>5. LifeInv /\ BootInv
  BY DEF Init, LifeInv, BootInv
<1>6. ProcessInv
  BY ProcessNames DEF Init, ProcessInv
<1>7. ReapInv
  BY <1>3 DEF Init, ReapInv, ChainShape, Null
<1>8. QueueInv
  BY <1>3 DEF Init, QueueInv, QueueShape
<1>9. MutexOwned
  BY <1>3 DEF Init, MutexOwned
<1>10. FrameInv /\ CpuInv
  BY <1>2 DEF Init, FrameInv, Preemptible, CpuInv, ContextOK, NoRunawaySwitch
<1> QED
  BY <1>1, <1>4, <1>5, <1>6, <1>7, <1>8, <1>9, <1>10 DEF IInv

(* The invariant is inductive, whatever the threads and processes.         *)
THEOREM Inductive == Spec => []IInv
<1>1. IInv /\ [Next]_vars => IInv'
  BY TypeStep, RingStep, LifeStep, ProcessStep, BootStep, ReapStep, MutexStep,
     FrameStep, CpuStep DEF IInv
<1> QED
  BY InitInv, <1>1, PTL DEF Spec

(* Every variable keeps the type it has in the C code.                     *)
THEOREM TypeCorrect == Spec => []TypeOK
<1>1. IInv => TypeOK
  BY DEF IInv
<1> QED
  BY <1>1, Inductive, PTL

(* The ready list is always one ring through all schedulable threads:      *)
(* enqueue_thread, dequeue_thread and scheduler_handler keep it so.        *)
THEOREM ReadyRing == Spec => []RingOK
<1>1. IInv => RingOK
  <2> SUFFICES ASSUME IInv PROVE RingOK
    OBVIOUS
  <2>1. RingInv /\ TypeOK
    BY DEF IInv
  <2>2. Members \in SUBSET DOMAIN next /\ NULL \notin Members
    BY <2>1, Names DEF Members, TypeOK
  <2>3. Reach(next, ready_list_head) = Members
    BY <2>1, <2>2, RingReach DEF RingInv
  <2> QED
    BY <2>1, <2>3 DEF RingInv, RingShape, RingOK
<1> QED
  BY <1>1, Inductive, PTL

(* scheduler_handler leaves exactly the current thread RUNNING.            *)
THEOREM SingleRunner == Spec => []OneRunning
<1>1. IInv => OneRunning
  BY DEF IInv, RingInv
<1> QED
  BY <1>1, Inductive, PTL

(* No dead thread is lost or freed twice between thread_exit and the       *)
(* reaper.                                                                 *)
THEOREM DeadList == Spec => []DeadAccounted
<1>1. IInv => DeadAccounted
  <2> SUFFICES ASSUME IInv PROVE DeadAccounted
    OBVIOUS
  <2>1. ChainShape(next, dead_list_head, Taken, Dead) /\ TypeOK
    BY DEF IInv, ReapInv
  <2>2. Dead \in SUBSET DOMAIN next /\ NULL \notin Dead
    BY <2>1, Names DEF Dead, TypeOK
  <2>3. /\ Reach(next, dead_list_head) \cap Reach(next, Taken) = {}
        /\ Reach(next, dead_list_head) \cup Reach(next, Taken) = Dead
    BY <2>1, <2>2, ChainReach
  <2>4. Reach(next, Taken) = IF reap.at = "idle" THEN {} ELSE Reach(next, reap.t)
    BY ReachFacts DEF Taken
  <2> QED
    BY <2>3, <2>4 DEF DeadAccounted, Dead
<1> QED
  BY <1>1, Inductive, PTL

(* The mutex excludes, also through mutex_unlock's handoff, and a locked   *)
(* one always has the one thread that must unlock it.                      *)
THEOREM MutualExclusion == Spec => []MutexOwned
<1>1. IInv => MutexOwned
  BY DEF IInv
<1> QED
  BY <1>1, Inductive, PTL

(* The mutex's queue holds exactly the blocked threads, up to its tail.    *)
THEOREM BlockedQueue == Spec => []BlockedQueueOK
<1>1. IInv => BlockedQueueOK
  <2> SUFFICES ASSUME IInv PROVE BlockedQueueOK
    OBVIOUS
  <2>1. QueueShape(next_blocked, blocked_head, blocked_tail, Blocked) /\ TypeOK
    BY DEF IInv, QueueInv
  <2>2. Blocked \in SUBSET DOMAIN next_blocked
    BY <2>1 DEF Blocked, TypeOK
  <2>3. Reach(next_blocked, blocked_head) = Blocked
    BY <2>1, <2>2, QueueReach
  <2>4. \A t \in Blocked : (t = blocked_tail) <=> (next_blocked[t] = NULL)
    BY <2>1, Names DEF QueueShape, Blocked
  <2>5. blocked_tail # NULL => blocked_tail \in Blocked
    BY <2>1 DEF QueueShape
  <2> QED
    BY <2>3, <2>4, <2>5 DEF BlockedQueueOK, Blocked
<1> QED
  BY <1>1, Inductive, PTL

(* scheduler_handler returns only to frames with IF = 1.                   *)
THEOREM AlwaysPreemptible == Spec => []Preemptible
<1>1. IInv => Preemptible
  BY DEF IInv, FrameInv
<1> QED
  BY <1>1, Inductive, PTL

(* A user thread runs only in its own address space and on its own kernel  *)
(* stack.                                                                  *)
THEOREM Context == Spec => []ContextOK
<1>1. IInv => ContextOK
  BY DEF IInv, CpuInv
<1> QED
  BY <1>1, Inductive, PTL

(* scheduler_handler never spins, and never follows a bad process pointer  *)
(* but main_thread's.                                                      *)
THEOREM NoRunaway == Spec => []NoRunawaySwitch
<1>1. IInv => NoRunawaySwitch
  BY DEF IInv, CpuInv
<1> QED
  BY <1>1, Inductive, PTL

-----------------------------------------------------------------------------
(* The stack record of the one user thread: where its process's list is,   *)
(* what the reaper has done with it when it is on its way through          *)
(* destroy_thread, and that nothing is left of it afterwards.              *)
OneUser == \A u, v \in Users : u = v

ReapPlace(u) == IF reap.t = u THEN reap.at ELSE "idle"

DyingStack(u) ==
  /\ ReapPlace(u) \notin {"rstlist", "rstcr3"} => ustacks_infos[Home[u]] = u
  /\ ReapPlace(u) \in {"setcr3", "find", "unmap", "unlink"} => us_list_head = u
  /\ ReapPlace(u) \in {"find", "unmap"} => cr3 = Home[u]
  /\ ReapPlace(u) = "putlist" => us_list_head = NULL
  /\ ReapPlace(u) \in {"unlink", "putlist", "rstlist", "rstcr3"} => unmapped_in[u] = Home[u]
  /\ ReapPlace(u) \in {"rstlist", "rstcr3"} => ustacks_infos[Home[u]] = NULL

StackOf(u) ==
  /\ us_next[u] = NULL /\ us_prev[u] = NULL
  /\ cpu = "boot" => state[u] \in {"NONE", "READY"}
  /\ state[u] = "NONE" => ustacks_infos[Home[u]] = NULL
  /\ (state[u] \in {"READY", "RUNNING", "BLOCKED"} /\ cpu \in {"boot", "run"}) =>
       ProcList(Home[u]) = u
  /\ (state[u] = "DEAD" /\ cpu = "run") => DyingStack(u)
  /\ state[u] = "FREED" => ustacks_infos[Home[u]] = NULL /\ unmapped_in[u] = Home[u]

StackInv == OneUser => \A u \in Users : StackOf(u)

(* With one user thread, no other thread has a process, and the reaper     *)
(* handles a user stack only when that thread is dead.                     *)
LEMMA OneProcess ==
  ASSUME TypeOK, RingInv, ProcessInv, ReapInv, OneUser, NEW u \in Users
  PROVE  /\ Home[u] \in Procs /\ u \in Threads
         /\ process[u] = IF state[u] = "NONE" THEN NULL ELSE Home[u]
         /\ \A t \in Threads \ {u} : process[t] \in {NULL, WILD}
         /\ ProcList(Home[u]) = IF current_thread = u THEN us_list_head
                                ELSE ustacks_infos[Home[u]]
         /\ reap.at # "idle" => reap.t \in Threads /\ state[reap.t] = "DEAD"
         /\ reap.at \notin {"idle", "destroy"} => reap.t = u
<1> USE Names
<1>1. Home[u] \in Procs /\ u \in Threads /\ Home[u] \notin {NULL, WILD}
  OBVIOUS
<1>2. process[u] = IF state[u] = "NONE" THEN NULL ELSE Home[u]
  BY DEF ProcessInv
<1>3. \A t \in Threads \ {u} : process[t] \in {NULL, WILD}
  BY DEF ProcessInv, OneUser
<1>4. current_thread \in Threads /\ state[current_thread] # "NONE"
  BY DEF RingInv, Members, Runnable
<1>5. ProcList(Home[u]) = IF current_thread = u THEN us_list_head ELSE ustacks_infos[Home[u]]
  BY <1>1, <1>2, <1>3, <1>4 DEF ProcList
<1>6. reap.at # "idle" => reap.t \in Threads /\ state[reap.t] = "DEAD"
  BY DEF ReapInv, ChainShape, Taken, Null, Dead
<1>7. reap.at \notin {"idle", "destroy"} => reap.t = u
  <2> SUFFICES ASSUME reap.at \notin {"idle", "destroy"} PROVE reap.t = u
    OBVIOUS
  <2>1. process[reap.t] # NULL /\ reap.t \in Threads /\ reap.t # main
    BY <1>6 DEF ReapInv, RingInv, Members, Runnable
  <2> QED
    BY <2>1 DEF ProcessInv, OneUser
<1> QED
  BY <1>1, <1>2, <1>3, <1>5, <1>6, <1>7

(* A context switch to or from the user thread moves its list, any other   *)
(* leaves it alone.                                                        *)
LEMMA StackSwitch ==
  ASSUME IInv, OneUser, NEW u \in Users, cpu = "run",
         NEW nt \in Members, SwitchTo(current_thread, nt), current_thread' = nt, cpu' = "run"
  PROVE  /\ state[u] \in {"READY", "RUNNING", "BLOCKED"} /\ ProcList(Home[u]) = u =>
              (IF nt = u THEN us_list_head' ELSE ustacks_infos'[Home[u]]) = u
         /\ current_thread # u /\ nt # u => UNCHANGED <<us_list_head, ustacks_infos, cr3>>
<1> USE Names
<1>0. TypeOK /\ RingInv /\ ProcessInv /\ ReapInv
  BY DEF IInv
<1>1. /\ Home[u] \in Procs /\ u \in Threads
      /\ process[u] = IF state[u] = "NONE" THEN NULL ELSE Home[u]
      /\ \A t \in Threads \ {u} : process[t] \in {NULL, WILD}
      /\ ProcList(Home[u]) = IF current_thread = u THEN us_list_head
                             ELSE ustacks_infos[Home[u]]
  BY <1>0, OneProcess
<1>2. current_thread \in Threads /\ nt \in Threads /\ Home[u] \notin {NULL, WILD}
      /\ (nt = u => state[u] # "NONE") /\ ustacks_infos \in [Procs -> Null(Users)]
  BY <1>0 DEF RingInv, Members, Runnable, TypeOK
<1>3. /\ SwitchProcess(current_thread, nt)
      /\ process[current_thread] = process[nt] \/ WILD \notin {process[current_thread], process[nt]}
  BY DEF SwitchTo
<1>4. CASE current_thread = u /\ nt = u
  BY <1>1, <1>3, <1>4 DEF SwitchProcess
<1>5. CASE current_thread = u /\ nt # u
  BY <1>1, <1>2, <1>3, <1>5 DEF SwitchProcess
<1>6. CASE current_thread # u /\ nt = u
  BY <1>1, <1>2, <1>3, <1>6 DEF SwitchProcess
<1>7. CASE current_thread # u /\ nt # u
  <2>1. process[current_thread] = process[nt]
    BY <1>1, <1>2, <1>3, <1>7
  <2> QED
    BY <1>1, <1>3, <1>7, <2>1 DEF SwitchProcess
<1> QED
  BY <1>4, <1>5, <1>6, <1>7

(* The reaper takes the record off its process's list, having unmapped the *)
(* stack in the process's address space: with one user thread nobody moves *)
(* the list or CR3 under it.                                               *)
LEMMA StackReap ==
  ASSUME IInv, OneUser, NEW u \in Users, StackOf(u), Reaper
  PROVE  StackOf(u)'
<1> USE Names
<1>0. TypeOK /\ RingInv /\ ProcessInv /\ ReapInv
  BY DEF IInv
<1>1. /\ Home[u] \in Procs /\ u \in Threads
      /\ process[u] = IF state[u] = "NONE" THEN NULL ELSE Home[u]
      /\ \A t \in Threads \ {u} : process[t] \in {NULL, WILD}
      /\ reap.at # "idle" => reap.t \in Threads /\ state[reap.t] = "DEAD"
      /\ reap.at \notin {"idle", "destroy"} => reap.t = u
  BY <1>0, OneProcess
<1>2. /\ cpu = "run" /\ current_thread = idle /\ idle # u
      /\ UNCHANGED <<cpu, process, current_thread>>
  BY DEF Reaper, TakeDeadList, DestroyKernelThread, DestroyUserThread, ReapReadCR3, ReapSetList,
         ReapSetCR3, ReapFind, ReapUnmap, ReapUnlink, ReapPutList, ReapRestoreList,
         ReapRestoreCR3, ReapFrame
<1>3. process[idle] = NULL /\ Home[u] # NULL
  BY <1>0 DEF ProcessInv
<1>4. /\ ProcList(Home[u]) = ustacks_infos[Home[u]]
      /\ ProcList(Home[u])' = ustacks_infos'[Home[u]]
  BY <1>2, <1>3 DEF ProcList
<1>5. /\ state \in [Threads -> States] /\ ustacks_infos \in [Procs -> Null(Users)]
      /\ us_next \in [Users -> Null(Users)] /\ us_prev \in [Users -> Null(Users)]
      /\ unmapped_in \in [Users -> Procs \cup {NULL, BootPML4}]
      /\ reap \in [at : ReapSteps, t : Null(Threads), next_dead : Null(Threads),
                   old_list : Null(Users), old_cr3 : Procs \cup {BootPML4}]
  BY <1>0 DEF TypeOK
<1> USE DEF StackOf, DyingStack, ReapPlace, ReapFrame, usVars
<1>6. CASE TakeDeadList
  BY <1>1, <1>2, <1>4, <1>5, <1>6 DEF TakeDeadList
<1>7. CASE DestroyKernelThread
  <2>1. reap.at = "destroy" /\ reap.t # u
    BY <1>1, <1>3, <1>7 DEF DestroyKernelThread
  <2> QED
    BY <1>1, <1>2, <1>4, <1>5, <1>7, <2>1 DEF DestroyKernelThread, FreeThread
<1>8. CASE DestroyUserThread
  BY <1>1, <1>2, <1>4, <1>5, <1>8 DEF DestroyUserThread
<1>9. CASE ReapReadCR3
  BY <1>1, <1>2, <1>4, <1>5, <1>9 DEF ReapReadCR3
<1>10. CASE ReapSetList
  BY <1>1, <1>2, <1>4, <1>5, <1>10 DEF ReapSetList
<1>11. CASE ReapSetCR3
  BY <1>1, <1>2, <1>4, <1>5, <1>11 DEF ReapSetCR3
<1>12. CASE ReapFind
  <2>1. reap.t = u /\ reap.at = "find" /\ state[u] = "DEAD" /\ us_list_head = u
    BY <1>1, <1>2, <1>12 DEF ReapFind
  <2>2. u \in Reach(us_next, us_list_head)
    BY <1>5, <2>1, ReachFacts
  <2>3. reap' = [reap EXCEPT !.at = "unmap"]
    BY <1>12, <2>1, <2>2 DEF ReapFind
  <2> QED
    BY <1>1, <1>2, <1>4, <1>5, <1>12, <2>1, <2>3 DEF ReapFind
<1>13. CASE ReapUnmap
  BY <1>1, <1>2, <1>4, <1>5, <1>13 DEF ReapUnmap
<1>14. CASE ReapUnlink
  <2>1. reap.t = u /\ reap.at = "unlink" /\ state[u] = "DEAD" /\ us_list_head = u
        /\ us_next[u] = NULL /\ us_prev[u] = NULL
    BY <1>1, <1>2, <1>14 DEF ReapUnlink
  <2>2. us_list_head' = NULL /\ us_next'[u] = NULL /\ us_prev'[u] = NULL
    BY <1>14, <2>1 DEF ReapUnlink
  <2> QED
    BY <1>1, <1>2, <1>4, <1>5, <1>14, <2>1, <2>2 DEF ReapUnlink
<1>15. CASE ReapPutList
  BY <1>1, <1>2, <1>4, <1>5, <1>15 DEF ReapPutList
<1>16. CASE ReapRestoreList
  BY <1>1, <1>2, <1>4, <1>5, <1>16 DEF ReapRestoreList
<1>17. CASE ReapRestoreCR3
  BY <1>1, <1>2, <1>4, <1>5, <1>17 DEF ReapRestoreCR3, FreeThread
<1> QED
  BY <1>6, <1>7, <1>8, <1>9, <1>10, <1>11, <1>12, <1>13, <1>14, <1>15, <1>16, <1>17 DEF Reaper

(* Every step keeps the stack record of the one user thread tracked.       *)
LEMMA StackStep ==
  ASSUME IInv, StackInv, [Next]_vars
  PROVE  StackInv'
<1> USE Names
<1> SUFFICES ASSUME OneUser, NEW u \in Users PROVE StackOf(u)'
  BY DEF StackInv, OneUser
<1>0. TypeOK /\ RingInv /\ ProcessInv /\ ReapInv /\ BootInv /\ LifeInv /\ StackOf(u)
  BY DEF IInv, StackInv
<1>1. /\ Home[u] \in Procs /\ u \in Threads
      /\ process[u] = IF state[u] = "NONE" THEN NULL ELSE Home[u]
      /\ \A t \in Threads \ {u} : process[t] \in {NULL, WILD}
      /\ ProcList(Home[u]) = IF current_thread = u THEN us_list_head
                             ELSE ustacks_infos[Home[u]]
      /\ reap.at # "idle" => reap.t \in Threads /\ state[reap.t] = "DEAD"
      /\ reap.at \notin {"idle", "destroy"} => reap.t = u
  BY <1>0, OneProcess
<1>2. TypeOK' /\ RingInv' /\ ProcessInv' /\ ReapInv'
  BY TypeStep, RingStep, ProcessStep, ReapStep
<1>3. ProcList(Home[u])' = IF current_thread' = u THEN us_list_head'
                           ELSE ustacks_infos'[Home[u]]
  <2>1. Home[u] \notin {NULL, WILD}
    BY <1>1
  <2>2. current_thread' \in Threads /\ state'[current_thread'] # "NONE"
    BY <1>2 DEF RingInv, Members, Runnable
  <2>3. /\ process'[u] = IF state'[u] = "NONE" THEN NULL ELSE Home[u]
        /\ \A t \in Threads \ {u} : process'[t] \in {NULL, WILD}
    BY <1>2 DEF ProcessInv, OneUser
  <2> QED
    BY <2>1, <2>2, <2>3 DEF ProcList
<1>4. state \in [Threads -> States] /\ ustacks_infos \in [Procs -> Null(Users)]
      /\ current_thread \in Threads /\ current_thread \in Members
  BY <1>0 DEF TypeOK, RingInv
<1>5. ASSUME UNCHANGED <<cpu, current_thread, usVars, cr3, unmapped_in, reap, process>>,
             \/ state'[u] = state[u]
             \/ cpu = "run" /\ {state[u], state'[u]} \subseteq {"READY", "RUNNING", "BLOCKED"}
      PROVE  StackOf(u)'
  BY <1>0, <1>1, <1>3, <1>5 DEF StackOf, DyingStack, ReapPlace, usVars
(* A switch, in which the thread that loses the CPU becomes k.             *)
<1>6. ASSUME NEW nt \in Members, SwitchTo(current_thread, nt), current_thread' = nt,
             cpu = "run", NEW k \in {"READY", "BLOCKED", "DEAD"},
             state' = [[state EXCEPT ![current_thread] = k] EXCEPT ![nt] = "RUNNING"],
             k = "DEAD" => nt # current_thread,
             UNCHANGED <<us_next, us_prev, unmapped_in, reap>>
      PROVE  StackOf(u)'
  <2>1. nt \in Threads /\ state[nt] \in {"READY", "RUNNING"}
        /\ state[current_thread] \in {"READY", "RUNNING"}
    BY <1>4, <1>6 DEF Members, Runnable
  <2>2. CASE cpu' = "run"
    <3>1. /\ state[u] \in {"READY", "RUNNING", "BLOCKED"} /\ ProcList(Home[u]) = u =>
               (IF nt = u THEN us_list_head' ELSE ustacks_infos'[Home[u]]) = u
          /\ current_thread # u /\ nt # u => UNCHANGED <<us_list_head, ustacks_infos, cr3>>
      BY <1>6, <2>2, StackSwitch
    <3>2. CASE current_thread # u /\ nt # u
      <4>1. state'[u] = state[u]
        BY <1>1, <1>4, <1>6, <2>1, <3>2
      <4> QED
        BY <1>0, <1>1, <1>3, <1>6, <2>2, <3>1, <3>2, <4>1 DEF StackOf, DyingStack, ReapPlace
    <3>3. CASE current_thread = u \/ nt = u
      <4>1. state[u] \in {"READY", "RUNNING"}
        BY <2>1, <3>3
      <4>2. state'[u] \in {"READY", "RUNNING", "BLOCKED", "DEAD"}
            /\ (state'[u] = "DEAD" => nt # u)
        BY <1>1, <1>4, <1>6, <3>3
      <4>3. (IF nt = u THEN us_list_head' ELSE ustacks_infos'[Home[u]]) = u
        BY <1>0, <1>6, <3>1, <4>1 DEF StackOf
      <4>4. ReapPlace(u)' \in {"idle", "destroy"}
        BY <1>1, <1>6, <4>1 DEF ReapPlace
      <4> QED
        BY <1>0, <1>3, <1>6, <2>2, <4>2, <4>3, <4>4 DEF StackOf, DyingStack
    <3> QED
      BY <3>2, <3>3
  <2>3. CASE cpu' # "run"
    <3>1. cpu' = "wild" /\ UNCHANGED <<us_list_head, ustacks_infos>>
      BY <1>6, <2>3 DEF SwitchTo
    <3>2. state'[u] \in {"NONE", "FREED"} => state'[u] = state[u]
      BY <1>1, <1>4, <1>6
    <3> QED
      BY <1>0, <1>6, <3>1, <3>2 DEF StackOf
  <2> QED
    BY <2>2, <2>3
<1>7. ASSUME NEW t \in Threads \ ({main} \cup Users), CreateThread(t) PROVE StackOf(u)'
  <2>1. state'[u] = state[u]
    BY <1>1, <1>4, <1>7 DEF CreateThread, NewThread
  <2> QED
    BY <1>5, <1>7, <2>1 DEF CreateThread, NewThread, usVars
<1>8. ASSUME NEW v \in Users, CreateUserThread(v) PROVE StackOf(u)'
  <2>1. v = u /\ cpu = "boot" /\ state[u] = "NONE" /\ cpu' = "boot" /\ state'[u] = "READY"
        /\ current_thread' = main /\ u # main
    BY <1>0, <1>1, <1>4, <1>8 DEF CreateUserThread, NewThread, OneUser, BootInv
  <2>2. ustacks_infos[Home[u]] = NULL /\ us_next[u] = NULL /\ us_prev[u] = NULL
    BY <1>0, <2>1 DEF StackOf
  <2>3. /\ ustacks_infos' = [ustacks_infos EXCEPT ![Home[u]] = u]
        /\ us_next' = us_next /\ us_prev' = us_prev
    BY <1>8, <2>1, <2>2 DEF CreateUserThread
  <2> QED
    BY <1>1, <1>3, <1>4, <2>1, <2>2, <2>3 DEF StackOf
<1>9. ASSUME StartScheduler PROVE StackOf(u)'
  <2>1. state[u] # "DEAD"
    BY <1>0, <1>9 DEF StartScheduler, StackOf
  <2> QED
    BY <1>0, <1>1, <1>3, <1>9, <2>1
       DEF StartScheduler, StackOf, DyingStack, ReapPlace, usVars
<1>10. ASSUME NEW nt \in Threads, TimerStep(nt) PROVE StackOf(u)'
  <2>1. nt \in Members /\ SwitchTo(current_thread, nt) /\ current_thread' = nt /\ cpu = "run"
        /\ state' = [[state EXCEPT ![current_thread] = "READY"] EXCEPT ![nt] = "RUNNING"]
        /\ UNCHANGED <<us_next, us_prev, unmapped_in, reap>>
    BY <1>10 DEF TimerStep, Rotate
  <2> QED
    BY <1>6, <2>1
<1>11. ASSUME NEW t \in Threads, NEW k \in {"BLOCKED", "DEAD"}, NEW x \in Threads,
              LeaveStep(t, k, x)
       PROVE  StackOf(u)'
  <2>1. x \in Members /\ SwitchTo(current_thread, x) /\ current_thread' = x /\ cpu = "run"
        /\ x # current_thread
        /\ state' = [[state EXCEPT ![current_thread] = k] EXCEPT ![x] = "RUNNING"]
        /\ UNCHANGED <<us_next, us_prev, unmapped_in, reap>>
    BY <1>11 DEF LeaveStep, Leave
  <2> QED
    BY <1>6, <2>1
<1>12. ASSUME NEW t \in Workers, MutexUnlock(t) PROVE StackOf(u)'
  <2>1. UNCHANGED <<cpu, current_thread, usVars, cr3, unmapped_in, reap, process>>
    BY <1>12 DEF MutexUnlock
  <2>2. \/ state'[u] = state[u]
        \/ cpu = "run" /\ {state[u], state'[u]} \subseteq {"READY", "RUNNING", "BLOCKED"}
    <3>1. CASE blocked_head = NULL
      BY <1>12, <3>1 DEF MutexUnlock
    <3>2. CASE blocked_head # NULL
      <4>1. state[blocked_head] = "BLOCKED" /\ blocked_head \in Threads
        BY <3>2 DEF IInv, QueueInv, QueueShape, Blocked
      <4>2. cpu = "run" /\ state' = [state EXCEPT ![blocked_head] = "READY"]
        BY <1>12, <3>2 DEF MutexUnlock
      <4> QED
        BY <1>1, <1>4, <4>1, <4>2
    <3> QED
      BY <3>1, <3>2
  <2> QED
    BY <1>5, <2>1, <2>2
<1>13. ASSUME Reaper PROVE StackOf(u)'
  BY <1>0, <1>13, StackReap
<1>14. ASSUME TimerIdle \/ UNCHANGED vars \/ \E t \in Workers : MutexLockFast(t)
       PROVE  StackOf(u)'
  BY <1>5, <1>14 DEF TimerIdle, vars, MutexLockFast
<1> QED
  BY <1>7, <1>8, <1>9, <1>10, <1>11, <1>12, <1>13, <1>14, StepCases DEF BlockStep, ExitStep

(* With one user thread, its stack record stays on its process's list      *)
(* through all switches until the reaper takes it off, and the reaper has  *)
(* unmapped the stack in that thread's address space when it frees it.     *)
THEOREM OneUserStack == Spec => [](OneUser => UserStackTracked)
<1>1. Init => StackInv
  BY Names DEF Init, StackInv, StackOf
<1>2. IInv /\ StackInv /\ [Next]_vars => StackInv'
  BY StackStep
<1>3. IInv /\ StackInv => (OneUser => UserStackTracked)
  <2> SUFFICES ASSUME IInv, StackInv, OneUser, NEW u \in Users
               PROVE  /\ (cpu = "run" /\ state[u] \in Runnable) =>
                           u \in Reach(us_next, ProcList(Home[u]))
                      /\ state[u] = "FREED" =>
                           /\ u \notin Reach(us_next, ProcList(Home[u]))
                           /\ unmapped_in[u] = Home[u]
    BY DEF UserStackTracked
  <2>1. TypeOK /\ RingInv /\ ProcessInv /\ ReapInv /\ StackOf(u)
    BY DEF IInv, StackInv
  <2>2. DOMAIN us_next = Users
    BY <2>1 DEF TypeOK
  <2>3. ASSUME cpu = "run", state[u] \in Runnable
        PROVE  u \in Reach(us_next, ProcList(Home[u]))
    <3>1. ProcList(Home[u]) = u
      BY <2>1, <2>3 DEF StackOf, Runnable
    <3> QED
      BY <2>2, <3>1, Names, ReachFacts
  <2>4. ASSUME state[u] = "FREED"
        PROVE  u \notin Reach(us_next, ProcList(Home[u])) /\ unmapped_in[u] = Home[u]
    <3>1. ustacks_infos[Home[u]] = NULL /\ unmapped_in[u] = Home[u]
      BY <2>1, <2>4 DEF StackOf
    <3>2. current_thread # u
      BY <2>1, <2>4 DEF RingInv, Members, Runnable
    <3>3. ProcList(Home[u]) = NULL
      BY <2>1, <3>1, <3>2, OneProcess
    <3> QED
      BY <3>1, <3>3, ReachFacts
  <2> QED
    BY <2>3, <2>4
<1> QED
  BY <1>1, <1>2, <1>3, Inductive, PTL DEF Spec

-----------------------------------------------------------------------------
(* Ring lists the ready list.                                              *)
RingSeq == IsRing(Ring, next, ready_list_head, Members)

LEMMA RingStart ==
  ASSUME Init
  PROVE  RingSeq /\ RR!Init
<1>1. /\ Members = {main} /\ ready_list_head = main /\ next[main] = main
      /\ current_thread = main
  BY Names DEF Init, Members, Runnable
<1> DEFINE q == <<main>>
<1>2. /\ q \in Seq(Members) /\ Len(q) = 1 /\ q[1] = main
  BY <1>1
<1> HIDE DEF q
<1>3. \A i \in 1..Len(q) : i = 1 /\ i = Len(q)
  BY <1>2
<1>4. 1 \in 1..Len(q)
  BY <1>2
<1>5. IsRing(q, next, ready_list_head, Members)
  BY <1>1, <1>2, <1>3, <1>4 DEF IsRing
<1>6. Ring = q
  BY <1>5, RingIs DEF RingUnique
<1> QED
  BY <1>1, <1>5, <1>6 DEF RingSeq, RR!Init, q

(* Every step goes round the circle as RoundRobin says.                    *)
LEMMA RoundStep ==
  ASSUME IInv, RingSeq, [Next]_vars
  PROVE  RingSeq' /\ [RR!Next]_<<Ring, current_thread>>
<1> USE Names
<1> DEFINE L == Len(Ring)
<1>0. TypeOK /\ RingInv /\ LifeInv /\ ReapInv /\ QueueInv
  BY DEF IInv
<1>a. /\ Members \subseteq Threads /\ NULL \notin Members
      /\ RingShape(next, prev, ready_list_head, Members)
      /\ main \in Members /\ current_thread \in Members
      /\ next \in [Threads -> Null(Threads)]
  BY <1>0 DEF RingInv, Members, TypeOK
<1>b. IsRing(Ring, next, ready_list_head, Members)
  BY DEF RingSeq
<1>c. L \in Nat \ {0} /\ Ring \in [1..L -> Members] /\ DOMAIN Ring = 1..L
  BY <1>b, RingCount
<1>d. /\ Ring[1] = ready_list_head
      /\ \A t \in Members : \E i \in 1..L : Ring[i] = t
      /\ \A i \in 1..L : next[Ring[i]] = IF i = L THEN ready_list_head ELSE Ring[i+1]
  BY <1>b DEF IsRing
<1> HIDE DEF L
<1>1. ASSUME NEW t \in Threads \ {main}, NewThread(t)
      PROVE  RingSeq' /\ RR!Next
  <2>1. t \in Threads \ Members /\ pc[t] # "locking"
    BY <1>0, <1>1 DEF NewThread, Members, Runnable, LifeInv
  <2>2. Members' = Members \cup {t}
    BY <1>0, <1>1, <2>1 DEF NewThread, Members, Runnable, TypeOK
  <2>3. /\ next' = [next EXCEPT ![prev[ready_list_head]] = t, ![t] = ready_list_head]
        /\ ready_list_head' = ready_list_head /\ current_thread' = current_thread
    BY <1>1 DEF NewThread, EnqueueThread
  <2>4. IsRing(Append(Ring, t), next', ready_list_head', Members')
    BY <1>a, <1>b, <2>1, <2>2, <2>3, RingAppend
  <2>5. Ring' = Append(Ring, t)
    BY <2>4, RingIsNext
  <2>6. ~RR!Contains(Ring, t)
    BY <1>c, <2>1 DEF RR!Contains, L
  <2>7. RR!Join(t)
    BY <2>3, <2>5, <2>6 DEF RR!Join
  <2> QED
    BY <2>4, <2>5, <2>7 DEF RR!Next, RingSeq
<1>2. ASSUME next' = next, ready_list_head' = ready_list_head, Members' = Members
      PROVE  RingSeq' /\ Ring' = Ring
  <2>1. IsRing(Ring, next', ready_list_head', Members')
    BY <1>b, <1>2
  <2>2. Ring' = Ring
    BY <2>1, RingIsNext
  <2> QED
    BY <2>1, <2>2 DEF RingSeq
<1>3. ASSUME NEW nt \in Threads, TimerStep(nt) PROVE RingSeq' /\ RR!Next
  <2>1. Members' = Members
    BY <1>0, <1>3, <1>a DEF TimerStep, Rotate, Members, Runnable, TypeOK
  <2>2. next' = next /\ ready_list_head' = ready_list_head
        /\ current_thread' = next[current_thread]
    BY <1>3 DEF TimerStep, Rotate, ringVars
  <2>3. RingSeq' /\ Ring' = Ring
    BY <1>2, <2>1, <2>2
  <2>4. PICK i \in 1..L : Ring[i] = current_thread
    BY <1>a, <1>d
  <2>5. current_thread' = Ring[(i % L) + 1]
    <3>1. i % L = IF i = L THEN 0 ELSE i
      BY <1>c, NextAround
    <3>2. current_thread' = IF i = L THEN Ring[1] ELSE Ring[i+1]
      BY <1>d, <2>2, <2>4
    <3> QED
      BY <3>1, <3>2
  <2>6. RR!Pass
    BY <1>c, <2>3, <2>4, <2>5 DEF RR!Pass, L
  <2> QED
    BY <2>3, <2>6 DEF RR!Next
<1>4. ASSUME NEW t \in Threads, NEW k \in {"DEAD", "BLOCKED"}, NEW h \in Threads,
             LeaveStep(t, k, h), pc' = pc \/ pc' = [pc EXCEPT ![t] = "locking"]
      PROVE  RingSeq' /\ RR!Next
  <2>1. t \in Members /\ h \in Members /\ h # t /\ t = current_thread /\ t # main
    BY <1>4, <1>a DEF LeaveStep, Leave
  <2>2. Members' = Members \ {t}
    BY <1>0, <1>4, <2>1 DEF LeaveStep, Leave, Members, Runnable, TypeOK
  <2>3. PICK i \in 1..L : Ring[i] = t
    BY <1>d, <2>1
  <2>4. /\ next[t] # t /\ next'[prev[t]] = next[t]
        /\ \A y \in Members \ {t} : y # prev[t] => next'[y] = next[y]
        /\ ready_list_head' = IF ready_list_head = t THEN next[t] ELSE ready_list_head
        /\ current_thread' = ready_list_head'
    BY <1>4, <1>a DEF LeaveStep, Leave
  <2>5. IsRing(RR!RemoveAt(Ring, i), next', ready_list_head', Members')
    <3>1. i \in 1..Len(Ring)
      BY <2>3 DEF L
    <3>2. /\ next[Ring[i]] # Ring[i]
          /\ next'[prev[Ring[i]]] = next[Ring[i]]
          /\ \A y \in Members \ {Ring[i]} : y # prev[Ring[i]] => next'[y] = next[y]
          /\ ready_list_head' = IF ready_list_head = Ring[i] THEN next[Ring[i]]
                                                            ELSE ready_list_head
          /\ Members' = Members \ {Ring[i]}
      BY ONLY <2>2, <2>3, <2>4
    <3>3. RingShape(next, prev, ready_list_head, Members)
      BY <1>a
    <3> QED
      BY ONLY <1>b, <3>1, <3>2, <3>3, RingRemoveAt
  <2>6. Ring' = RR!RemoveAt(Ring, i)
    BY <2>5, RingIsNext
  <2>7. RingSeq'
    BY <2>5, <2>6 DEF RingSeq
  <2>8. current_thread' = Head(Ring')
    <3>1. Ring' \in Seq(Members') /\ Len(Ring') >= 1 /\ Ring'[1] = ready_list_head'
      BY <2>5, <2>6 DEF IsRing
    <3> QED
      BY <2>4, <3>1
  <2>9. RR!Leave
    BY <1>c, <2>1, <2>3, <2>6, <2>8 DEF RR!Leave
  <2> QED
    BY <2>7, <2>9 DEF RR!Next
<1>5. ASSUME UNCHANGED <<ringVars, current_thread>>, Members' = Members
      PROVE  RingSeq' /\ UNCHANGED <<Ring, current_thread>>
  BY <1>2, <1>5 DEF ringVars
<1>6. ASSUME NEW t \in Workers, MutexLockFast(t)
      PROVE  UNCHANGED <<ringVars, current_thread>> /\ Members' = Members
  BY <1>0, <1>6 DEF MutexLockFast, Members, Runnable, TypeOK
<1>7. ASSUME NEW t \in Workers, MutexUnlock(t)
      PROVE  UNCHANGED <<ringVars, current_thread>> /\ Members' = Members
  <2>1. t \in Members /\ t = current_thread
    BY <1>7, <1>a DEF MutexUnlock
  <2>2. blocked_head # NULL => blocked_head \in Threads /\ state[blocked_head] = "BLOCKED"
                               /\ pc[blocked_head] = "locking"
    BY <1>0 DEF QueueInv, QueueShape, Blocked, LifeInv
  <2> QED
    BY <1>0, <1>7, <2>1, <2>2 DEF MutexUnlock, Members, Runnable, TypeOK
<1>8. ASSUME ReaperStep
      PROVE  UNCHANGED <<ringVars, current_thread>> /\ Members' = Members
  <2>1. CASE state' = state
    BY <1>8, <2>1 DEF ReaperStep, Members
  <2>2. CASE ReaperFree
    <3>1. reap.t \in Threads /\ state[reap.t] = "DEAD"
      BY <1>0, <2>2 DEF ReapInv, ReaperFree, ChainShape, Taken, Null, Dead
    <3> QED
      BY <1>0, <1>8, <2>2, <3>1 DEF ReaperFree, ReaperStep, Members, Runnable, TypeOK
  <2> QED
    BY <1>8, <2>1, <2>2 DEF ReaperStep, ReaperTake, ReaperWalk
<1>9. ASSUME StartScheduler \/ TimerIdle \/ UNCHANGED vars
      PROVE  UNCHANGED <<ringVars, current_thread>> /\ Members' = Members
  BY <1>9 DEF StartScheduler, TimerIdle, Members, vars
<1> QED
  BY <1>1, <1>3, <1>4, <1>5, <1>6, <1>7, <1>8, <1>9, StepCases
     DEF CreateThread, CreateUserThread, BlockStep, ExitStep

(* The scheduler is a round robin: seen through the list that next makes   *)
(* of the ready threads, every step of create_thread, scheduler_handler,   *)
(* the mutex, thread_exit and the reaper lets a thread join at the end,    *)
(* passes the CPU to the next, takes the running thread out, or does none. *)
THEOREM IsARoundRobin == Spec => IsRoundRobin
<1>1. Init => RingSeq /\ RR!Init
  BY RingStart
<1>2. IInv /\ RingSeq /\ [Next]_vars => RingSeq' /\ [RR!Next]_<<Ring, current_thread>>
  BY RoundStep
<1> QED
  BY <1>1, <1>2, Inductive, PTL DEF Spec, IsRoundRobin, RR!Spec

-----------------------------------------------------------------------------
(* The system call path: Syscalls is a Scheduler with two registers more.  *)

(* Every step of Syscalls is one of Scheduler.                             *)
LEMMA SyscallStep == SNext => Next
BY DEF SNext, Switching, SysExit, Next

(* The system call path adds nothing to what the threads do: whatever is   *)
(* proved of Scheduler holds with it.                                      *)
THEOREM SyscallsAreScheduler == SSpec => Spec
<1>1. SInit => Init
  BY DEF SInit
<1>2. [SNext]_<<vars, gsVars>> => [Next]_vars
  BY SyscallStep
<1> QED
  BY <1>1, <1>2, PTL DEF SSpec, Spec

(* KERNEL_GS_BASE is right whenever a user thread has the CPU.             *)
GsInv == (cpu = "run" /\ current_thread \in Users) => kernel_gs = "sstacks"

(* The scheduler gives the CPU only to threads that exist.                 *)
LEMMA CurrentHasProcess ==
  ASSUME IInv, current_thread \in Users
  PROVE  process[current_thread] # NULL
<1>1. state[current_thread] # "NONE"
  BY DEF IInv, RingInv, Members, Runnable
<1> QED
  BY <1>1, Names DEF IInv, ProcessInv

(* No step changes process but the creation of a thread, at boot.          *)
LEMMA ProcessKept ==
  ASSUME Timer \/ \E t \in Workers \cup Users : MutexLockBlock(t) \/ ThreadExit(t)
  PROVE  UNCHANGED process
BY DEF Timer, MutexLockBlock, ThreadExit

(* What a user thread that gets or keeps the CPU finds in KERNEL_GS_BASE.  *)
LEMMA SwitchWritesGs ==
  ASSUME IInv', NEW g, InitKernelGsBase(g), UNCHANGED process,
         current_thread' \in Users, current_thread' # current_thread
  PROVE  kernel_gs' = "sstacks"
<1>1. (current_thread \in Users => process[current_thread] # NULL)'
  BY CurrentHasProcess, PTL
<1> QED
  BY <1>1 DEF InitKernelGsBase

(* A switch to a user thread writes KERNEL_GS_BASE, a step that does not   *)
(* switch leaves it, and boot ends in main.                                *)
LEMMA GsStep ==
  ASSUME IInv, IInv', GsInv, [SNext]_<<vars, gsVars>>
  PROVE  GsInv'
<1>1. CASE Switching
  <2>1. UNCHANGED process /\ cpu = "run" /\ InitKernelGsBase(kernel_gs)
    BY <1>1, ProcessKept DEF Switching, Timer, MutexLockBlock, ThreadExit
  <2>2. current_thread' = current_thread => kernel_gs' = kernel_gs
    BY <2>1 DEF InitKernelGsBase
  <2> QED
    BY <2>1, <2>2, SwitchWritesGs DEF GsInv
<1>2. CASE \E u \in Users : SysExit(u)
  <2> PICK u \in Users : SysExit(u)
    BY <1>2
  <2>1. /\ UNCHANGED process /\ u = current_thread
        /\ Yield([state EXCEPT ![u] = "DEAD"]) /\ InitKernelGsBase(gs)
    BY DEF SysExit, ThreadExit
  <2>2. current_thread' # current_thread
    <3>1. u # main /\ TypeOK /\ RingInv
      BY Names DEF IInv
    <3>2. \E h \in Threads : Leave(u, "DEAD", h)
      BY <2>1, <3>1, HandlerLeave DEF Yield
    <3> QED
      BY <2>1, <3>2 DEF Leave
  <2> QED
    BY <2>1, <2>2, SwitchWritesGs DEF GsInv
<1>3. CASE /\ Boot \/ (\E t \in Workers : MutexLockFast(t) \/ MutexUnlock(t)) \/ Reaper
           /\ UNCHANGED gsVars
  <2>1. CASE Boot
    <3>1. cpu = "boot" /\ UNCHANGED current_thread
      BY <2>1 DEF Boot, CreateThread, CreateUserThread, NewThread, StartScheduler
    <3>2. current_thread = main /\ main \notin Users
      BY <3>1, Names DEF IInv, BootInv
    <3> QED
      BY <3>1, <3>2 DEF GsInv
  <2>2. CASE \E t \in Workers : MutexLockFast(t) \/ MutexUnlock(t)
    BY <1>3, <2>2 DEF GsInv, gsVars, MutexLockFast, MutexUnlock
  <2>3. CASE Reaper
    <3>1. UNCHANGED <<cpu, current_thread>>
      BY <2>3 DEF Reaper, ReapFrame, TakeDeadList, DestroyKernelThread, DestroyUserThread,
                  ReapReadCR3, ReapSetList, ReapSetCR3, ReapFind, ReapUnmap, ReapUnlink,
                  ReapPutList, ReapRestoreList, ReapRestoreCR3
    <3> QED
      BY <1>3, <3>1 DEF GsInv, gsVars
  <2> QED
    BY <1>3, <2>1, <2>2, <2>3
<1>4. CASE UNCHANGED <<vars, gsVars>>
  BY <1>4 DEF GsInv, vars, gsVars
<1> QED
  BY <1>1, <1>2, <1>3, <1>4 DEF SNext

(* Whenever a user thread can execute SYSCALL, swapgs and the stack it     *)
(* finds behind GS are right, although SYS_EXIT leaves the two GS bases    *)
(* swapped.                                                                *)
THEOREM SyscallStack == SSpec => []SyscallStackOK
<1>1. SInit => GsInv
  BY DEF SInit, GsInv
<1>2. IInv /\ GsInv => SyscallStackOK
  BY DEF IInv, CpuInv, ContextOK, GsInv, SyscallStackOK
<1>3. SSpec => []IInv
  BY SyscallsAreScheduler, Inductive, PTL
<1>4. IInv /\ IInv' /\ GsInv /\ [SNext]_<<vars, gsVars>> => GsInv'
  BY GsStep
<1> QED
  BY <1>1, <1>2, <1>3, <1>4, PTL DEF SSpec
=============================================================================
