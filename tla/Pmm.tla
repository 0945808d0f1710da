-------------------------------- MODULE Pmm --------------------------------
(***************************************************************************)
(* Physical frames and the page table entries that hold them, as far as    *)
(* the allocators of virtual memory need them. `used` is the set of frames *)
(* whose bit in the bitmap is set. The frames that page tables take are    *)
(* not counted: they are never given back.                                 *)
(***************************************************************************)
EXTENDS Naturals, FiniteSets

CONSTANTS
  TotalPages,  \* total_pages
  Reserved     \* the frames init_PMM leaves marked as used

ASSUME PmmShape ==
  /\ TotalPages \in Nat
  /\ Reserved \subseteq 0..(TotalPages - 1)
  /\ 0 \in Reserved

Frames == 0..(TotalPages - 1)
NotMapped == TotalPages  \* an empty page table entry: no frame

FreeFrames(used) == Frames \ used

(* What the k-th of several calls of pmm_alloc_page returns: they take the *)
(* free frames from the lowest on, and return 0 when there is none left.   *)
AllocFrame(used, k) ==
  IF k <= Cardinality(FreeFrames(used))
  THEN CHOOSE f \in FreeFrames(used) : Cardinality({g \in FreeFrames(used) : g < f}) = k - 1
  ELSE 0

(* The bitmap after n calls of pmm_alloc_page.                             *)
AfterAlloc(used, n) ==
  used \cup {AllocFrame(used, k) : k \in {j \in 1..n : j <= Cardinality(FreeFrames(used))}}

(* vmm_map_page with the 4 KB pages of m: the entries are overwritten,     *)
(* whether they were empty or not.                                         *)
MapPages(pt, m) ==
  [p \in DOMAIN pt \cup DOMAIN m |-> IF p \in DOMAIN m THEN m[p] ELSE pt[p]]

(* vmm_unmap_page of the pages ps.                                         *)
UnmapPages(pt, ps) == [p \in DOMAIN pt |-> IF p \in ps THEN NotMapped ELSE pt[p]]

(* What vmm_unmap_page returns for the entry e: the frame of the page, and *)
(* 0 both without a table and for an empty entry.                          *)
UnmapResult(e) == IF e = NotMapped THEN 0 ELSE e

(* The bitmap after pmm_free_page of what vmm_unmap_page returned for the  *)
(* entries S: clearing a clear bit, or one beyond the end, does nothing.   *)
AfterFree(used, S) == used \ {UnmapResult(e) : e \in S}
=============================================================================
