----------------------------- MODULE UserStacks -----------------------------
(***************************************************************************)
(* The user stacks of one process: user_alloc_stack, called for a new      *)
(* thread, and user_free_stack, called by the reaper for a dead one, with  *)
(* the process's address space loaded. That the reaper can be interrupted  *)
(* meanwhile is the subject of Scheduler; here a call is one step.         *)
(*                                                                         *)
(* Addresses are page numbers. A stack grows down from its base: its pages *)
(* are base-1, ..., base-size, and only the first is mapped.               *)
(***************************************************************************)
EXTENDS Pmm, Sequences, FiniteSetsExt, SequencesExt

CONSTANTS
  UsTop,     \* the page number of USER_STACK_MAX
  Sizes      \* the stack sizes asked for, in pages

VARIABLES
  us_list,   \* the us_info_t's in list order: [base, size]
  pt, used   \* as in Vmalloc

vars == <<us_list, pt, used>>

Pages == 0..UsTop
Low(r) == r.base - r.size

Init ==
  /\ us_list = <<>>
  /\ pt = [p \in Pages |-> NotMapped]
  /\ used = Reserved

(* Mutant: the size of the stack above the gap is left out.                *)
GapsNoSize(size) ==
  {k \in 1..(Len(us_list) - 1) : us_list[k].base >= us_list[k + 1].base + size}

(* The stacks with a gap of size pages below them.                         *)
Gaps(size) ==
  {k \in 1..(Len(us_list) - 1) : Low(us_list[k]) >= us_list[k + 1].base + size}

(* us_add_to_list: the stack below which the new one goes.                 *)
Above(size) == IF Gaps(size) = {} THEN Len(us_list) ELSE Min(Gaps(size))

NewBase(size) == IF us_list = <<>> THEN UsTop ELSE Low(us_list[Above(size)])

(* The one page user_alloc_stack maps.                                     *)
FirstPage(base) == base - 1

(* user_alloc_stack.                                                       *)
UserAllocStack(size) ==
  LET b == NewBase(size)
  IN /\ size <= b
     /\ us_list' = InsertAt(us_list, IF us_list = <<>> THEN 1 ELSE Above(size) + 1,
                            [base |-> b, size |-> size])
     /\ pt' = MapPages(pt, [p \in {FirstPage(b)} |-> AllocFrame(used, 1)])
     /\ used' = AfterAlloc(used, 1)

(* Mutant: the loop of vfree, which goes up.                               *)
FreedPagesUp(r) == {r.base + i : i \in 0..(r.size - 1)} \cap Pages

(* The pages user_free_stack unmaps: from base down, base itself included. *)
FreedPages(r) == {r.base - i : i \in 0..(r.size - 1)}

(* user_free_stack of the k-th stack.                                      *)
UserFreeStack(k) ==
  LET ps == FreedPages(us_list[k])
  IN /\ used' = AfterFree(used, {pt[p] : p \in ps})
     /\ pt' = UnmapPages(pt, ps)
     /\ us_list' = RemoveAt(us_list, k)

Next ==
  \/ \E size \in Sizes : UserAllocStack(size)
  \/ \E k \in DOMAIN us_list : UserFreeStack(k)

Spec == Init /\ [][Next]_vars

-----------------------------------------------------------------------------
(* The list is sorted downwards and no two stacks of a process overlap,    *)
(* though freed gaps are filled again and only neighbours are compared.    *)
StacksDisjoint ==
  \A j, k \in DOMAIN us_list : j < k => Low(us_list[j]) >= us_list[k].base

(* The exit of one thread leaves the others of its process their stacks:   *)
(* the first page of every stack on the list stays mapped.                 *)
SurvivorsMapped == \A r \in ToSet(us_list) : pt[r.base - 1] # NotMapped
=============================================================================
