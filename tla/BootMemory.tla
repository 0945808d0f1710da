----------------------------- MODULE BootMemory -----------------------------
(***************************************************************************)
(* The first part of kernel_main: init_PMM makes the bitmap of frames from *)
(* the boot loader's memory map, init_VMM takes the tables of the direct   *)
(* mapping, init_kheap looks for a run of frames with pmm_alloc_pages.     *)
(*                                                                         *)
(* init_kheap's tables and everything after are the subject of Paging.     *)
(*                                                                         *)
(* Addresses are page numbers: the entries of the memory maps begin and    *)
(* end at page boundaries and do not overlap.                              *)
(***************************************************************************)
EXTENDS Naturals, Sequences, FiniteSets, FiniteSetsExt

CONSTANTS
  MemoryMaps,   \* memory maps: sequences of [from, to, available]
  LowPages,     \* the pages below 0x100000, where kernel_start is
  KernelEnd,    \* kernel_end, where the bitmap begins
  ByteBits,     \* the bits of a byte of the bitmap
  PageBytes,    \* the bytes of the bitmap that a page holds
  BigPage,      \* the pages a directory of 2 MB entries covers (1 GB)
  HeapPages,    \* HEAP_SIZE / PAGE_SIZE_4KB
  MaxBit        \* bound on the bits looked at

VARIABLES
  mmap,          \* the memory map
  bitmap,        \* TRUE: the bit is set, the frame in use
  total_pages,
  tables,        \* the frames init_VMM took
  i,             \* pmm_alloc_pages: the index of its loop
  heap,          \* what it returned
  mpc            \* "pmm", "vmm", "scan", "done"

mvars == <<mmap, bitmap, total_pages, tables, i, heap, mpc>>

Bits == 0..MaxBit
RoundUp(n, d) == (n + d - 1) \div d

PagesOf(e) == e.from..(e.to - 1)
Available(m) == {k \in DOMAIN m : m[k].available}
MaxAddr(m, ks) == Max({m[k].to : k \in ks})

BitmapSize == RoundUp(total_pages, ByteBits)

(* Mutant: the bitmap's own pages are forgotten.                           *)
KernelImageNoBitmap(size) == LowPages..(KernelEnd - 1)

(* The pages of the kernel and of a bitmap of that many bytes behind it.   *)
KernelImage(size) == LowPages..(KernelEnd + RoundUp(size, PageBytes) - 1)

(* The bits the entries of m clear.                                        *)
Cleared(m) == UNION {PagesOf(m[k]) : k \in {j \in Available(m) : m[j].from >= LowPages}}

(* No available entry goes on across 0x100000: init_PMM would leave such   *)
(* an entry out as a whole.                                                *)
ASSUME BootShape ==
  /\ LowPages \in Nat \ {0} /\ KernelEnd \in Nat /\ LowPages < KernelEnd
  /\ HeapPages \in Nat \ {0} /\ ByteBits \in Nat \ {0} /\ PageBytes \in Nat \ {0}
  /\ BigPage \in Nat \ {0} /\ MaxBit \in Nat
  /\ \A m \in MemoryMaps :
       /\ m \in Seq([from : Nat, to : Nat, available : BOOLEAN])
       /\ Available(m) # {}
       /\ \A k \in DOMAIN m : m[k].from < m[k].to
       /\ \A j, k \in DOMAIN m : j # k => PagesOf(m[j]) \cap PagesOf(m[k]) = {}
       /\ \A k \in Available(m) : m[k].from < LowPages => m[k].to <= LowPages
       /\ MaxAddr(m, Available(m)) + HeapPages < MaxBit

MInit ==
  /\ mmap \in MemoryMaps
  /\ \E junk \in BOOLEAN : bitmap = [b \in Bits |-> junk]
  /\ total_pages = 0
  /\ tables = {} /\ i = 0 /\ heap = 0
  /\ mpc = "pmm"

(* init_PMM. Bits behind the bitmap keep what the memory there held.       *)
InitPMM ==
  LET total == MaxAddr(mmap, Available(mmap))
      size == RoundUp(total, ByteBits)
  IN /\ mpc = "pmm"
     /\ total_pages' = total
     /\ bitmap' = [b \in Bits |->
          \/ b \in KernelImage(size)
          \/ b \notin Cleared(mmap) /\ (b < size * ByteBits \/ bitmap[b])]
     /\ mpc' = "vmm"
     /\ UNCHANGED <<mmap, tables, i, heap>>

Free == {f \in 0..(total_pages - 1) : ~bitmap[f]}

(* The frames n calls of pmm_alloc_page return.                            *)
Lowest(n) == {f \in Free : Cardinality({g \in Free : g < f}) < n}

(* The end of the direct mapping: of the last entry, available or not.     *)
MappedEnd == MaxAddr(mmap, DOMAIN mmap)

(* init_VMM: a PML4, a PDPT and a directory for every BigPage pages.       *)
InitVMM ==
  /\ mpc = "vmm"
  /\ tables' = Lowest(2 + RoundUp(MappedEnd, BigPage))
  /\ bitmap' = [b \in Bits |-> bitmap[b] \/ b \in tables']
  /\ mpc' = "scan"
  /\ UNCHANGED <<mmap, total_pages, i, heap>>

-----------------------------------------------------------------------------
(* pmm_alloc_pages(HeapPages), one step for every turn of its loop.        *)
Scanning == mpc = "scan" /\ HeapPages <= total_pages /\ i <= total_pages

Blocked == {j \in 1..(HeapPages - 1) : bitmap[i + j]}

ScanUsed ==
  /\ Scanning /\ bitmap[i]
  /\ i' = i + 1
  /\ UNCHANGED <<mmap, bitmap, total_pages, tables, heap, mpc>>

(* Mutant: a whole run is skipped.                                         *)
SkipRun(j) == i + HeapPages

(* i += j, and the loop's i++.                                             *)
Skip(j) == i + j + 1

ScanShort ==
  /\ Scanning /\ ~bitmap[i] /\ Blocked # {}
  /\ i' = Skip(Min(Blocked))
  /\ UNCHANGED <<mmap, bitmap, total_pages, tables, heap, mpc>>

ScanFound ==
  /\ Scanning /\ ~bitmap[i] /\ Blocked = {}
  /\ bitmap' = [b \in Bits |-> bitmap[b] \/ b \in i..(i + HeapPages - 1)]
  /\ heap' = i
  /\ mpc' = "done"
  /\ UNCHANGED <<mmap, total_pages, tables, i>>

(* It returns 0.                                                           *)
ScanFailed ==
  /\ mpc = "scan" /\ ~Scanning
  /\ mpc' = "done"
  /\ UNCHANGED <<mmap, bitmap, total_pages, tables, i, heap>>

MNext == InitPMM \/ InitVMM \/ ScanUsed \/ ScanShort \/ ScanFound \/ ScanFailed

-----------------------------------------------------------------------------
(* The memory that is there to be given out.                               *)
Usable ==
  {f \in 0..(total_pages - 1) :
     /\ f >= LowPages
     /\ \E k \in Available(mmap) : f \in PagesOf(mmap[k])
     /\ f \notin LowPages..(KernelEnd + RoundUp(BitmapSize, PageBytes) - 1)}

HeapFrames == IF heap = 0 THEN {} ELSE heap..(heap + HeapPages - 1)

(* From init_PMM on the bitmap offers exactly the usable memory that has   *)
(* not been given out: none of the kernel, of the bitmap itself, of        *)
(* reserved or missing memory, and no frame is lost. What it offers is in  *)
(* the direct mapping.                                                     *)
BitmapExact ==
  mpc # "pmm" => /\ Free = Usable \ (tables \cup HeapFrames)
                 /\ \A f \in Usable : f < MappedEnd

(* pmm_alloc_pages finds the lowest run of free frames that is long        *)
(* enough, though it skips ahead; and when there is none it fails, unless  *)
(* the memory behind the bitmap makes frames beyond the end look free.     *)
HeapLowest ==
  LET runs == {s \in Usable : s..(s + HeapPages - 1) \subseteq Usable \ tables}
  IN mpc = "done" =>
       IF runs # {} THEN heap = Min(runs) ELSE heap = 0 \/ heap + HeapPages > total_pages
=============================================================================
