----------------------------- MODULE Allocator -----------------------------
(***************************************************************************)
(* What a memory allocator that keeps its bookkeeping in the memory it     *)
(* manages promises: an allocation is memory nobody else has, neither      *)
(* another caller nor the allocator, until it is given back.               *)
(***************************************************************************)
EXTENDS Integers

CONSTANTS Bytes,    \* the memory managed
          Requests  \* the sizes asked for

VARIABLES live,  \* the allocations in use: records of addr and size
          own    \* the bytes that hold the allocator's own data

Extent(r) == r.addr..(r.addr + r.size - 1)
InUse == UNION {Extent(r) : r \in live}

Init == live = {} /\ own \in SUBSET Bytes

(* A step may rearrange the bookkeeping, outside what is in use.           *)
Rearrange == own' \in SUBSET (Bytes \ InUse')

(* One more allocation, r, in memory nobody was using.                     *)
Alloc(r) ==
  /\ live' = live \cup {r}
  /\ r.size \in Requests
  /\ Extent(r) \subseteq Bytes \ InUse
  /\ Rearrange

Free(r) ==
  /\ live' = live \ {r}
  /\ Rearrange

Next == (\E r \in live' \ live : Alloc(r)) \/ (\E r \in live \ live' : Free(r))

Spec == Init /\ [][Next]_<<live, own>>
=============================================================================
