------------------------------- MODULE MCBoot -------------------------------
(***************************************************************************)
(* Small machines: memory maps with holes, an end that is and one that is  *)
(* not a whole byte of the bitmap, reserved memory above, and too little   *)
(* memory for the heap; MADTs with and without an override for IRQ 0.      *)
(***************************************************************************)
EXTENDS Boot

Entry(from, to, available) == [from |-> from, to |-> to, available |-> available]

SmallMaps ==
  {<<Entry(0, 1, TRUE), Entry(1, 2, FALSE), Entry(2, 8, TRUE), Entry(9, 14, TRUE)>>,
   <<Entry(0, 2, TRUE), Entry(2, 9, TRUE), Entry(9, 10, FALSE), Entry(10, 17, TRUE), Entry(18, 20, FALSE)>>,
   <<Entry(0, 2, TRUE), Entry(10, 16, TRUE), Entry(2, 8, TRUE)>>,
   <<Entry(0, 2, TRUE), Entry(2, 9, TRUE), Entry(11, 12, TRUE)>>}

SmallMadts ==
  {<<LapicEntry, IoapicEntry(7)>>,
   <<IoapicEntry(7), IsoEntry(0, 2, {})>>,
   <<IsoEntry(3, 0, {"level"}), IoapicEntry(7), IsoEntry(0, 2, {"low", "level"})>>,
   <<LapicEntry, IsoEntry(1, 2, {"low"}), IoapicEntry(7)>>}
=============================================================================
