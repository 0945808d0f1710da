------------------------------- MODULE Paging -------------------------------
(***************************************************************************)
(* The virtual memory manager: four levels of page tables kept in frames   *)
(* of the PMM, the kernel's address space as the boot leaves it, and the   *)
(* address spaces of processes, which copy the kernel half of a PML4 and   *)
(* from then on share the tables below it.                                 *)
(*                                                                         *)
(* Virtual pages are numbers; level 3 is the PML4, level 0 a page table.   *)
(* Boot and the creation of processes run with nothing else running, so a  *)
(* call is one step.                                                       *)
(***************************************************************************)
EXTENDS Pmm, Sequences, FiniteSetsExt, TLC

CONSTANTS
  Procs,        \* user processes
  Fan,          \* entries of a table
  DirectPage,   \* a page of the direct mapping, under a 2 MB entry
  LfbPage,      \* a page of the framebuffer, under a 2 MB entry
  BufferPage,   \* the page of lfb.buffer, vmalloc'ed at boot
  KernelPages,  \* the kernel pages vmalloc maps and vfree unmaps
  UserPages,    \* the user pages a process maps
  MaxUnmaps     \* bound on the calls of vmm_unmap_page

kernel == "kernel"
Spaces == {kernel} \cup Procs

VARIABLES
  mem,    \* the tables, by the frame that holds each
  used,   \* the bitmap
  pml4,   \* the frame of each address space's PML4
  unmaps  \* the calls of vmm_unmap_page so far

vars == <<mem, used, pml4, unmaps>>

Device == TotalPages + 1   \* the framebuffer's memory, no frame of the PMM
NoEntry == [f |-> NotMapped, user |-> FALSE, huge |-> FALSE]
EmptyTable == [i \in 0..(Fan - 1) |-> NoEntry]

(* The index of page v in a table of level l.                              *)
Ix(v, l) == (v \div Fan^l) % Fan

(* The entries of a PML4 that belong to the kernel: 256 to 511.            *)
KernelSlot(i) == i >= Fan \div 2

HugePages == {DirectPage, LfbPage}
SmallPages == KernelPages \cup UserPages \cup {BufferPage}

(* The ways to v and w part at one of the levels ls.                       *)
Apart(v, w, ls) == \E l \in ls : Ix(v, l) # Ix(w, l)

(* Pages are those that four indices can name; no 4 KB page lies under a   *)
(* 2 MB entry; vmalloc's pages share a PML4 entry with something boot maps *)
(* (as its one area does with the back buffer); boot has enough memory.    *)
ASSUME PagingShape ==
  /\ Fan \in Nat \ {0, 1} /\ kernel \notin Procs
  /\ \A l \in 0..3 : Fan^l \in Nat \ {0}
  /\ HugePages \cup SmallPages \subseteq Nat /\ BufferPage \notin KernelPages
  /\ \A v \in KernelPages \cup HugePages \cup {BufferPage} : KernelSlot(Ix(v, 3))
  /\ \A v \in UserPages : ~KernelSlot(Ix(v, 3))
  /\ \A v, w \in SmallPages : v # w => Apart(v, w, 0..3)
  /\ \A v \in SmallPages, w \in HugePages : Apart(v, w, 1..3)
  /\ Apart(DirectPage, LfbPage, 1..3)
  /\ \A v \in KernelPages : \E w \in HugePages \cup {BufferPage} : Ix(v, 3) = Ix(w, 3)
  /\ Cardinality(FreeFrames(Reserved)) >= 9

-----------------------------------------------------------------------------
(* pmm_alloc_page: the lowest free frame, or 0.                            *)
NextFrame(u) == IF FreeFrames(u) = {} THEN 0 ELSE Min(FreeFrames(u))
Mark(u, f) == u \cup {f}

(* The entry i of table t becomes e, and frame f a table.                  *)
Put(m, t, i, e) == [m EXCEPT ![t] = [@ EXCEPT ![i] = e]]
AddTable(m, f, table) == [t \in DOMAIN m \cup {f} |-> IF t = f THEN table ELSE m[t]]

(* vmm_map_page on s = [mem, used, at], at being the table reached.        *)

(* Mutant: a new table's entry lets only the kernel through.               *)
DescendKernelOnly(s, v, l, user) ==
  LET i == Ix(v, l)
      e == s.mem[s.at][i]
      n == NextFrame(s.used)
  IN IF e = NoEntry
     THEN LET link == [f |-> n, user |-> FALSE, huge |-> FALSE]
          IN [mem |-> AddTable(Put(s.mem, s.at, i, link), n, EmptyTable),
              used |-> Mark(s.used, n), at |-> n]
     ELSE [mem |-> Put(s.mem, s.at, i, [e EXCEPT !.user = @ \/ user]),
           used |-> s.used, at |-> e.f]

(* One level down: a missing table is made, an entry on the way to a user  *)
(* page becomes a user entry.                                              *)
Descend(s, v, l, user) ==
  LET i == Ix(v, l)
      e == s.mem[s.at][i]
      n == NextFrame(s.used)
  IN IF e = NoEntry
     THEN LET link == [f |-> n, user |-> user, huge |-> FALSE]
          IN [mem |-> AddTable(Put(s.mem, s.at, i, link), n, EmptyTable),
              used |-> Mark(s.used, n), at |-> n]
     ELSE [mem |-> Put(s.mem, s.at, i, [e EXCEPT !.user = @ \/ user]),
           used |-> s.used, at |-> e.f]

(* The entry at level l: 0 for a 4 KB page, 1 for a 2 MB page.             *)
SetEntry(s, v, l, f, user) ==
  [mem |-> Put(s.mem, s.at, Ix(v, l), [f |-> f, user |-> user, huge |-> l = 1]),
   used |-> s.used]

ToDirectory(s, v, user) == Descend(Descend(s, v, 3, user), v, 2, user)

MapPage(s, v, f, user) == SetEntry(Descend(ToDirectory(s, v, user), v, 1, user), v, 0, f, user)
MapHuge(s, v, f) == SetEntry(ToDirectory(s, v, FALSE), v, 1, f, FALSE)

(* The state of memory s with the PML4 root to start from.                 *)
From(root, s) == [mem |-> s.mem, used |-> s.used, at |-> root]

(* The way from root to page v, which vmm_get_entry and the hardware both  *)
(* go: the tables of the levels 3, 2, ..., as far as there are any.        *)
Walk(m, root, v) ==
  LET next(t, l) == m[t][Ix(v, l)]
      ends(e) == e = NoEntry \/ e.huge
      e3 == next(root, 3)
      e2 == next(e3.f, 2)
      e1 == next(e2.f, 1)
  IN CASE ends(e3) -> <<root>>
       [] ~ends(e3) /\ ends(e2) -> <<root, e3.f>>
       [] ~ends(e3) /\ ~ends(e2) /\ ends(e1) -> <<root, e3.f, e2.f>>
       [] OTHER -> <<root, e3.f, e2.f, e1.f>>

(* vmm_get_entry: the last entry on the way. (When that is an empty one in *)
(* an upper table it returns NULL, and vmm_unmap_page 0, as for an empty   *)
(* entry in a page table.)                                                 *)
GetEntry(m, root, v) ==
  LET w == Walk(m, root, v) IN [at |-> w[Len(w)], i |-> Ix(v, 4 - Len(w))]

-----------------------------------------------------------------------------
(* What boot maps before a process is made: the direct mapping and the     *)
(* framebuffer with 2 MB pages and, with 4 KB pages, the back buffer from  *)
(* vmalloc. (The heap is one more such page.) Every kernel entry of the    *)
(* PML4 that will be needed is in use from here on.                        *)
BootMaps(s) ==
  LET direct == MapHuge(s, DirectPage, 0)
      huge == MapHuge(From(s.at, direct), LfbPage, Device)
      f == NextFrame(huge.used)
  IN MapPage([mem |-> huge.mem, used |-> Mark(huge.used, f), at |-> s.at],
             BufferPage, f, FALSE)

Init ==
  LET root == NextFrame(Reserved)
      s == BootMaps([mem |-> [t \in {root} |-> EmptyTable], used |-> Mark(Reserved, root),
                     at |-> root])
  IN /\ mem = s.mem
     /\ used = s.used
     /\ pml4 = [a \in Spaces |-> IF a = kernel THEN root ELSE NotMapped]
     /\ unmaps = 0

Made(a) == pml4[a] # NotMapped

(* Bound: a page and the three tables it may need can be had.              *)
EnoughFrames == Cardinality(FreeFrames(used)) >= 4

Mapped(a, v) == LET e == GetEntry(mem, pml4[a], v) IN mem[e.at][e.i] # NoEntry

(* vmm_map_page(read_cr3(), pmm_alloc_page(), v, 4 KB, ...) with a loaded: *)
(* the argument's frame is taken before those of the tables.               *)
VmmMapPage(a, v, user) ==
  /\ Made(a) /\ EnoughFrames
  /\ ~Mapped(a, v)
  /\ LET f == NextFrame(used)
         s == MapPage([mem |-> mem, used |-> Mark(used, f), at |-> pml4[a]], v, f, user)
     IN mem' = s.mem /\ used' = s.used
  /\ UNCHANGED <<pml4, unmaps>>

(* Mutant: the entry stays.                                                *)
ClearedNot(e) == mem

Cleared(e) == Put(mem, e.at, e.i, NoEntry)

(* pmm_free_page(vmm_unmap_page(read_cr3(), v)) with a loaded.             *)
VmmUnmapPage(a, v) ==
  /\ Made(a) /\ unmaps < MaxUnmaps
  /\ Mapped(a, v)
  /\ unmaps' = unmaps + 1
  /\ LET e == GetEntry(mem, pml4[a], v)
     IN /\ mem' = Cleared(e)
        /\ used' = AfterFree(used, {mem[e.at][e.i].f})
  /\ UNCHANGED pml4

(* Mutant: the loop starts one entry too late.                             *)
NewPML4FromNext(old) ==
  [i \in DOMAIN old |-> IF KernelSlot(i - 1) THEN old[i] ELSE NoEntry]

(* The PML4 of a new process: the kernel half of the one loaded.           *)
NewPML4(old) == [i \in DOMAIN old |-> IF KernelSlot(i) THEN old[i] ELSE NoEntry]

(* create_user_process. (Without a frame it returns NULL.)                 *)
CreateUserProcess(p) ==
  LET f == NextFrame(used) IN
  /\ ~Made(p)
  /\ f # 0
  /\ used' = Mark(used, f)
  /\ mem' = AddTable(mem, f, NewPML4(mem[pml4[kernel]]))
  /\ pml4' = [pml4 EXCEPT ![p] = f]
  /\ UNCHANGED unmaps

(* The first process is made while the kernel's own address space is       *)
(* loaded; vmalloc and vfree run in whichever the thread switch left.      *)
Next ==
  \/ \E p \in Procs : CreateUserProcess(p)
  \/ \E a \in Spaces, v \in KernelPages : VmmMapPage(a, v, FALSE) \/ VmmUnmapPage(a, v)
  \/ \E p \in Procs, v \in UserPages : VmmMapPage(p, v, TRUE) \/ VmmUnmapPage(p, v)

Spec == Init /\ [][Next]_vars

Symmetry == Permutations(Procs)

-----------------------------------------------------------------------------
(* Where the hardware's walk takes page v in address space a, and whether  *)
(* user code may go there: every entry on the way must allow it.           *)
Translate(a, v) ==
  LET w == Walk(mem, pml4[a], v)
      entry(k) == mem[w[k]][Ix(v, 4 - k)]
  IN [f |-> entry(Len(w)).f, user |-> \A k \in DOMAIN w : entry(k).user]

Flat == INSTANCE AddressSpaces WITH
  Unmapped <- [f |-> NotMapped, user |-> FALSE],
  kmap <- [v \in KernelPages |-> Translate(kernel, v)],
  umap <- [p \in Procs |-> [v \in UserPages |->
             IF Made(p) THEN Translate(p, v) ELSE [f |-> NotMapped, user |-> FALSE]]],
  made <- {p \in Procs : Made(p)}

(* The tables are as good as a flat map for each address space: an         *)
(* operation changes the one page it is meant for, in the one address      *)
(* space or, for a kernel page, in all; a page gets a frame nobody else    *)
(* has; user code reaches exactly the pages mapped with PTE_USER.          *)
IsFlat == Flat!Spec

(* Every address space sees the kernel half as the kernel does, also what  *)
(* was mapped after the process copied its PML4 and through whichever      *)
(* address space it was mapped, and user code reaches none of it; and what *)
(* boot has mapped stays, whatever is mapped and unmapped beside it.       *)
KernelShared ==
  \A a \in Spaces : Made(a) =>
    /\ \A v \in KernelPages \cup HugePages \cup {BufferPage} :
         Translate(a, v) = Translate(kernel, v) /\ ~Translate(a, v).user
    /\ Translate(a, DirectPage).f = 0 /\ Translate(a, LfbPage).f = Device
    /\ Translate(a, BufferPage).f \in used \ Reserved

Roots == {pml4[a] : a \in {b \in Spaces : Made(b)}}

(* The entries that lead to a table or to a 4 KB page. (A table is never   *)
(* given back: mem holds those in use.)                                    *)
References == {r \in (DOMAIN mem) \X (0..(Fan - 1)) :
                 mem[r[1]][r[2]] # NoEntry /\ ~mem[r[1]][r[2]].huge}

(* A frame that holds a table or a page is marked in the bitmap and hangs  *)
(* on one entry only; but for the kernel's entries of the PML4s, in which  *)
(* all address spaces point to the same tables.                            *)
OneParent ==
  /\ \A r \in References : mem[r[1]][r[2]].f \in used \ Reserved
  /\ \A r, q \in References :
       (r # q /\ mem[r[1]][r[2]].f = mem[q[1]][q[2]].f)
         => {r[1], q[1]} \subseteq Roots /\ r[2] = q[2] /\ KernelSlot(r[2])
=============================================================================
