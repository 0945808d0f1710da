----------------------------- MODULE PageGuard -----------------------------
(***************************************************************************)
(* page_fault_handler and the guard of a user stack: one user thread, as   *)
(* create_user_thread leaves it, that touches pages of its stack and the   *)
(* page below. Addresses are page numbers as in UserStacks.                *)
(***************************************************************************)
EXTENDS Pmm

CONSTANTS
  Bottom,   \* user_stack.bottom, the base that user_alloc_stack returned
  Sizes     \* the stack sizes asked for, in pages

VARIABLES
  size,                            \* user_stack.size
  page_guard_min, page_guard_max,
  pt, used,
  cpu                              \* "user", "exited" or "hung" in for (;;)

vars == <<size, page_guard_min, page_guard_max, pt, used, cpu>>

(* The end of create_user_thread.                                          *)
Init ==
  /\ size \in Sizes
  /\ page_guard_max = Bottom
  /\ page_guard_min = page_guard_max - 1
  /\ pt = [p \in 0..Bottom |-> IF p = Bottom - 1 THEN AllocFrame(Reserved, 1) ELSE NotMapped]
  /\ used = AfterAlloc(Reserved, 1)
  /\ cpu = "user"

(* The thread touches a page that is not mapped.                           *)
Fault(p) == cpu = "user" /\ pt[p] = NotMapped

InGuard(p) == page_guard_max > p /\ page_guard_min <= p

(* The three ways through page_fault_handler.                              *)
Expand(p) ==
  /\ Fault(p) /\ InGuard(p) /\ page_guard_max # Bottom
  /\ pt' = MapPages(pt, [g \in {page_guard_min} |-> AllocFrame(used, 1)])
  /\ used' = AfterAlloc(used, 1)
  /\ page_guard_max' = page_guard_max - 1
  /\ page_guard_min' = page_guard_min - 1
  /\ UNCHANGED <<size, cpu>>

Overflow(p) ==
  /\ Fault(p) /\ InGuard(p) /\ page_guard_max = Bottom
  /\ cpu' = "exited"
  /\ UNCHANGED <<size, page_guard_min, page_guard_max, pt, used>>

Hang(p) ==
  /\ Fault(p) /\ ~InGuard(p)
  /\ cpu' = "hung"
  /\ UNCHANGED <<size, page_guard_min, page_guard_max, pt, used>>

Next == \E p \in (Bottom - size - 1)..(Bottom - 1) : Expand(p) \/ Overflow(p) \/ Hang(p)

Spec == Init /\ [][Next]_vars

(* A user thread that touches its stack, or the page right below it, has   *)
(* its stack expanded or is closed; the kernel goes on in either case.     *)
GuardServes == cpu # "hung"
=============================================================================
