------------------------------ MODULE Vmalloc ------------------------------
(***************************************************************************)
(* vmalloc and vfree: regions of kernel address space, kept in a list by   *)
(* address and backed by frames page by page. Neither takes a lock; the    *)
(* kernel calls them before the scheduler starts, so a call is one step.   *)
(*                                                                         *)
(* Addresses are byte offsets from VMALLOC_START.                          *)
(***************************************************************************)
EXTENDS Pmm, Sequences, FiniteSetsExt, SequencesExt

CONSTANTS
  PageSize,   \* PAGE_SIZE_4KB
  Sizes,      \* the sizes asked for
  VmPages     \* bound on the pages of address space used

VARIABLES
  vmalloc_list,   \* the vm_info_t's in list order: [base, size]
  pt,             \* the page table entry of each page
  used            \* the frames marked in the bitmap

vars == <<vmalloc_list, pt, used>>

Pages == 0..(VmPages - 1)
PageOf(addr) == addr \div PageSize

Init ==
  /\ vmalloc_list = <<>>
  /\ pt = [p \in Pages |-> NotMapped]
  /\ used = Reserved

End(r) == r.base + r.size

(* Mutant: a gap need only hold the first byte.                            *)
GapsLoose(size) ==
  {k \in 1..(Len(vmalloc_list) - 1) : End(vmalloc_list[k]) < vmalloc_list[k + 1].base}

(* The regions followed by a gap that holds size bytes.                    *)
Gaps(size) ==
  {k \in 1..(Len(vmalloc_list) - 1) :
     End(vmalloc_list[k]) + size <= vmalloc_list[k + 1].base}

(* vm_add_to_list: the region behind which the new one goes, the first     *)
(* with a gap or else the last. Memory before the first is not considered. *)
Before(size) == IF Gaps(size) = {} THEN Len(vmalloc_list) ELSE Min(Gaps(size))

NewBase(size) == IF vmalloc_list = <<>> THEN 0 ELSE End(vmalloc_list[Before(size)])

(* Mutant: the last page is left out.                                      *)
RegionPagesShort(r) == [k \in 1..((r.size - 1) \div PageSize) |-> PageOf(r.base) + k - 1]

(* The pages the loops of vmalloc and vfree go through: one for every      *)
(* PageSize bytes or part of it, from the page of base on.                 *)
RegionPages(r) ==
  [k \in 1..((r.size + PageSize - 1) \div PageSize) |-> PageOf(r.base) + k - 1]

(* vmalloc. (When kmalloc has no memory for the vm_info_t it returns NULL  *)
(* and changes nothing.)                                                   *)
Valloc(size) ==
  LET r == [base |-> NewBase(size), size |-> size]
      ps == RegionPages(r)
  IN /\ End(r) <= VmPages * PageSize
     /\ vmalloc_list' = InsertAt(vmalloc_list, IF vmalloc_list = <<>> THEN 1
                                               ELSE Before(size) + 1, r)
     /\ pt' = MapPages(pt, [p \in ToSet(ps) |->
                              AllocFrame(used, CHOOSE k \in DOMAIN ps : ps[k] = p)])
     /\ used' = AfterAlloc(used, Len(ps))

(* Mutant: the frames are not given back.                                  *)
FramesGivenBackNone(ps) == {}

(* The entries whose frames vfree gives to pmm_free_page.                  *)
FramesGivenBack(ps) == {pt[p] : p \in ToSet(ps)}

(* vfree of the k-th region. A pointer no region starts at is ignored.     *)
Vfree(k) ==
  LET ps == RegionPages(vmalloc_list[k])
  IN /\ used' = AfterFree(used, FramesGivenBack(ps))
     /\ pt' = UnmapPages(pt, ToSet(ps))
     /\ vmalloc_list' = RemoveAt(vmalloc_list, k)

Next ==
  \/ \E size \in Sizes : Valloc(size)
  \/ \E k \in DOMAIN vmalloc_list : Vfree(k)

Spec == Init /\ [][Next]_vars

-----------------------------------------------------------------------------
(* The list is sorted by address and its regions do not overlap, so that   *)
(* the first-fit search of vm_add_to_list, which only compares neighbours, *)
(* never gives the same address out twice.                                 *)
RegionsDisjoint ==
  \A j, k \in DOMAIN vmalloc_list : j < k => End(vmalloc_list[j]) <= vmalloc_list[k].base

(* Every byte of every region can be used: its page is mapped, and to a    *)
(* frame that no other page of a region has.                               *)
Backed ==
  /\ \A r \in ToSet(vmalloc_list) : \A a \in r.base..(End(r) - 1) :
       PageOf(a) \in Pages /\ pt[PageOf(a)] # NotMapped
  /\ \A p, q \in Pages : (p # q /\ pt[p] # NotMapped) => pt[p] # pt[q] \/ pt[p] = 0
=============================================================================
