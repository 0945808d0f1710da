------------------------------ MODULE MCKheap ------------------------------
(***************************************************************************)
(* Small heaps for TLC: pages of 16 bytes with a slab header of 4, and     *)
(* caches of three, two and one object to a page.                          *)
(***************************************************************************)
EXTENDS Kheap

SmallObjSizes == <<4, 6, 12>>
=============================================================================
