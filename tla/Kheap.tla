------------------------------- MODULE Kheap -------------------------------
(***************************************************************************)
(* The kernel heap: the buddy allocator, the slab caches on top of it and  *)
(* kmalloc/kfree. kmalloc_lock is held with interrupts off, and before the *)
(* scheduler starts nothing else runs, so each call is one step.           *)
(*                                                                         *)
(* Addresses are byte offsets from HEAP_START, pages are numbered from 0.  *)
(* The doubly linked lists (free blocks, slabs) are sequences in list      *)
(* order; the list of free objects threaded through a slab is a sequence   *)
(* of object addresses.                                                    *)
(***************************************************************************)
EXTENDS Integers, Sequences, FiniteSets, FiniteSetsExt, SequencesExt

CONSTANTS
  MaxOrder,    \* MAX_ORDERS; the heap has 2^MaxOrder pages
  PageSize,    \* PAGE_SIZE_4KB
  SlabHeader,  \* sizeof(slab_t), rounded up to 8
  ObjSizes,    \* the sequence of object sizes of kernel_caches
  Requests     \* the sizes asked of kmalloc

Orders == 0..MaxOrder
Pages == 0..(2^MaxOrder - 1)
Caches == DOMAIN ObjSizes
LargestObj == ObjSizes[Len(ObjSizes)]

ASSUME HeapShape ==
  /\ MaxOrder \in Nat /\ PageSize \in Nat \ {0} /\ SlabHeader \in Nat
  /\ ObjSizes \in Seq(Nat \ {0}) /\ ObjSizes # <<>>
  /\ \A i \in Caches : SlabHeader + ObjSizes[i] <= PageSize
  /\ \A i, j \in Caches : i < j => ObjSizes[i] < ObjSizes[j]
  /\ Requests \subseteq Nat \ {0}

VARIABLES
  free_areas,     \* the list of free blocks of each order, by first page
  metadata,       \* page_metadata_t of each page
  slabs_partial, slabs_full,  \* the slabs of each cache, by page
  slab,           \* the slab_t at the start of a slab page
  live            \* what kmalloc has returned and kfree not had back

vars == <<free_areas, metadata, slabs_partial, slabs_full, slab, live>>

(* The record of the page at an address: (ptr - HEAP_START) / 4096 cut to  *)
(* an int. VMALLOC_START is 2^45 bytes below HEAP_START, so page k of the  *)
(* vmalloc area, here page 2^MaxOrder + k, gets the record of page k.      *)
Index(p) == p % 2^MaxOrder

PageOf(addr) == addr \div PageSize

NoSlab == [cache |-> 0, free_list |-> <<>>, free_count |-> 0, total_count |-> 0]

(* init_kheap: one free block of the whole heap, empty caches.             *)
Init ==
  /\ free_areas = [o \in Orders |-> IF o = MaxOrder THEN <<0>> ELSE <<>>]
  /\ metadata = [p \in Pages |-> [order |-> IF p = 0 THEN MaxOrder ELSE 0,
                                  is_free |-> p = 0, is_slab |-> FALSE]]
  /\ slabs_partial = [c \in Caches |-> <<>>]
  /\ slabs_full = [c \in Caches |-> <<>>]
  /\ slab = [p \in Pages |-> NoSlab]
  /\ live = {}

-----------------------------------------------------------------------------
(* The buddy allocator.                                                    *)

(* The other half of the block of order o + 1 that holds p's block:        *)
(* addr ^ (2^o pages).                                                     *)
Buddy(p, o) == IF (p \div 2^o) % 2 = 0 THEN p + 2^o ELSE p - 2^o

(* The orders of free blocks that can serve a request of order o.          *)
Fits(o) == {j \in o..MaxOrder : free_areas[j] # <<>>}

(* The block buddy_alloc(o) returns.                                       *)
AllocPage(o) == Head(free_areas[Min(Fits(o))])

(* buddy_alloc(o) on the lists: the first block of the smallest order that *)
(* fits goes, and its upper halves are added, one per order passed.        *)
AllocAreas(o) ==
  LET j == Min(Fits(o))
      p == AllocPage(o)
  IN [i \in Orders |-> IF i = j THEN Tail(free_areas[i])
                       ELSE IF o <= i /\ i < j THEN Cons(Buddy(p, i), free_areas[i])
                       ELSE free_areas[i]]

(* Mutant: the order of an allocated block is not recorded.                *)
AllocMetaOldOrder(o) ==
  LET j == Min(Fits(o))
      p == AllocPage(o)
      split == o..(j - 1)
  IN [q \in Pages |->
        IF q = Index(p) THEN [order |-> j, is_free |-> FALSE, is_slab |-> FALSE]
        ELSE IF \E i \in split : q = Index(Buddy(p, i))
        THEN [order |-> CHOOSE i \in split : q = Index(Buddy(p, i)),
              is_free |-> TRUE, is_slab |-> FALSE]
        ELSE metadata[q]]

(* buddy_alloc(o) on the metadata.                                         *)
AllocMeta(o) ==
  LET j == Min(Fits(o))
      p == AllocPage(o)
      split == o..(j - 1)
  IN [q \in Pages |->
        IF q = Index(p) THEN [order |-> o, is_free |-> FALSE, is_slab |-> FALSE]
        ELSE IF \E i \in split : q = Index(Buddy(p, i))
        THEN [order |-> CHOOSE i \in split : q = Index(Buddy(p, i)),
              is_free |-> TRUE, is_slab |-> FALSE]
        ELSE metadata[q]]

(* Where p's block starts once it has grown to order i: the merge loop     *)
(* keeps the lower of two buddies.                                         *)
Grown(p, i) == p - (p % 2^i)

(* Mutant: the order of the buddy is not compared.                         *)
MergeableAnyOrder(p, i) == metadata[Index(Buddy(Grown(p, i), i))].is_free

(* The block grown to order i has a free buddy of the same order.          *)
Mergeable(p, i) ==
  LET b == metadata[Index(Buddy(Grown(p, i), i))] IN b.is_free /\ b.order = i

(* Mutant: only one merge is tried.                                        *)
MergedOrderOnce(p) ==
  LET o == metadata[Index(p)].order
  IN IF o < MaxOrder /\ Mergeable(p, o) THEN o + 1 ELSE o

(* The order at which the merge loop of buddy_free stops.                  *)
MergedOrder(p) ==
  Min({i \in metadata[Index(p)].order..MaxOrder : i = MaxOrder \/ ~Mergeable(p, i)})

(* buddy_free(p) on the lists and on the metadata.                         *)
FreeAreas(p) ==
  LET o == metadata[Index(p)].order
      k == MergedOrder(p)
  IN [i \in Orders |-> IF i = k THEN Cons(Grown(p, k), free_areas[i])
                       ELSE IF o <= i /\ i < k
                       THEN RemoveFirst(free_areas[i], Buddy(Grown(p, i), i))
                       ELSE free_areas[i]]

FreeMeta(p) ==
  LET o == metadata[Index(p)].order
      k == MergedOrder(p)
  IN [q \in Pages |->
        IF q = Index(Grown(p, k)) THEN [order |-> k, is_free |-> TRUE, is_slab |-> FALSE]
        ELSE IF \E i \in o..(k - 1) : q = Index(Buddy(Grown(p, i), i))
        THEN [metadata[q] EXCEPT !.is_free = FALSE]
        ELSE metadata[q]]

-----------------------------------------------------------------------------
(* kmalloc and kfree.                                                      *)

(* The order of the block kmalloc takes for a large size; all orders above *)
(* MaxOrder fail alike.                                                    *)
OrderFor(size) ==
  Min({o \in Orders : PageSize * 2^o >= size} \cup {MaxOrder + 1})

(* kmalloc of more than the largest object: a block of its own. A call     *)
(* that finds no block returns NULL and changes nothing.                   *)
KmallocLarge(size) ==
  LET o == OrderFor(size) IN
  /\ size > LargestObj
  /\ o <= MaxOrder /\ Fits(o) # {}
  /\ free_areas' = AllocAreas(o)
  /\ metadata' = AllocMeta(o)
  /\ live' = live \cup {[addr |-> AllocPage(o) * PageSize, size |-> size]}
  /\ UNCHANGED <<slabs_partial, slabs_full, slab>>

(* Mutant: one object too many is cut from a page.                         *)
SlabCapacityOver(c) == (PageSize - SlabHeader) \div ObjSizes[c] + 1

(* The objects of cache c that fit in a page behind the header.            *)
SlabCapacity(c) == (PageSize - SlabHeader) \div ObjSizes[c]

(* slab_create on page p.                                                  *)
NewSlab(c, p) ==
  [cache |-> c,
   free_list |-> [i \in 1..SlabCapacity(c) |->
                    p * PageSize + SlabHeader + (i - 1) * ObjSizes[c]],
   free_count |-> SlabCapacity(c),
   total_count |-> SlabCapacity(c)]

(* slab_alloc from cache c, whose first partial slab is s at page p in the *)
(* list partial.                                                           *)
SlabTake(c, p, s, partial, size) ==
  LET left == [s EXCEPT !.free_list = Tail(@), !.free_count = @ - 1]
      full == left.free_count = 0
  IN /\ slab' = [slab EXCEPT ![p] = left]
     /\ slabs_partial' = [slabs_partial EXCEPT ![c] = IF full THEN RemoveFirst(partial, p)
                                                      ELSE partial]
     /\ slabs_full' = IF full THEN [slabs_full EXCEPT ![c] = Cons(p, @)] ELSE slabs_full
     /\ live' = live \cup {[addr |-> Head(s.free_list), size |-> size]}

(* The cache kmalloc takes a small size from.                              *)
CacheFor(size) == Min({c \in Caches : size <= ObjSizes[c]})

(* kmalloc of a small size from a slab with room.                          *)
KmallocPartial(size) ==
  LET c == CacheFor(size)
      p == Head(slabs_partial[c])
  IN /\ size <= LargestObj
     /\ slabs_partial[c] # <<>>
     /\ SlabTake(c, p, slab[p], slabs_partial[c], size)
     /\ UNCHANGED <<free_areas, metadata>>

(* kmalloc of a small size that needs a new slab.                          *)
KmallocNewSlab(size) ==
  LET c == CacheFor(size)
      p == AllocPage(0)
  IN /\ size <= LargestObj
     /\ slabs_partial[c] = <<>>
     /\ Fits(0) # {}
     /\ free_areas' = AllocAreas(0)
     /\ metadata' = [AllocMeta(0) EXCEPT ![Index(p)].is_slab = TRUE]
     /\ SlabTake(c, p, NewSlab(c, p), <<p>>, size)

(* kfree of a block of its own.                                            *)
KfreeBlock(r) ==
  LET p == PageOf(r.addr) IN
  /\ ~metadata[Index(p)].is_slab
  /\ free_areas' = FreeAreas(p)
  /\ metadata' = FreeMeta(p)
  /\ live' = live \ {r}
  /\ UNCHANGED <<slabs_partial, slabs_full, slab>>

(* Mutant: a full slab that gets an object back stays on the full list.    *)
SlabListsStuck(c, p) == <<slabs_partial[c], slabs_full[c]>>

(* The lists of cache c, once the slab at p has an object to give.         *)
SlabLists(c, p) ==
  IF slab[p].free_count = 0
  THEN <<Cons(p, slabs_partial[c]), RemoveFirst(slabs_full[c], p)>>
  ELSE <<slabs_partial[c], slabs_full[c]>>

(* kfree of an object: slab_free, which gives an empty slab's page back    *)
(* (its mark cleared first, since a merge may leave this page's record be).*)
KfreeObject(r) ==
  LET p == PageOf(r.addr)
      c == slab[p].cache
      lists == SlabLists(c, p)
      more == [slab[p] EXCEPT !.free_list = Cons(r.addr, @), !.free_count = @ + 1]
      empty == more.free_count = more.total_count
  IN /\ metadata[Index(p)].is_slab
     /\ live' = live \ {r}
     /\ slabs_full' = [slabs_full EXCEPT ![c] = lists[2]]
     /\ slabs_partial' = [slabs_partial EXCEPT ![c] = IF empty THEN RemoveFirst(lists[1], p)
                                                      ELSE lists[1]]
     /\ IF empty
        THEN /\ free_areas' = FreeAreas(p)
             /\ metadata' = [FreeMeta(p) EXCEPT ![Index(p)].is_slab = FALSE]
             /\ slab' = [slab EXCEPT ![p] = NoSlab]
        ELSE /\ slab' = [slab EXCEPT ![p] = more]
             /\ UNCHANGED <<free_areas, metadata>>

Next ==
  \/ \E size \in Requests : KmallocLarge(size) \/ KmallocPartial(size) \/ KmallocNewSlab(size)
  \/ \E r \in live : KfreeBlock(r) \/ KfreeObject(r)

Spec == Init /\ [][Next]_vars

(* kfree(t->kernel_stack.bottom) in destroy_thread: the stack is at page k *)
(* of the vmalloc area, and the heap's record k decides what becomes of    *)
(* it. What slab_free or a merge would do follows pointers read from the   *)
(* stack itself, and is left out.                                          *)
KfreeStack(k) ==
  LET p == 2^MaxOrder + k IN
  /\ ~metadata[k].is_slab
  /\ MergedOrder(p) = metadata[k].order
  /\ free_areas' = FreeAreas(p)
  /\ metadata' = FreeMeta(p)
  /\ UNCHANGED <<slabs_partial, slabs_full, slab, live>>

(* The heap of a kernel in which a thread has been destroyed.              *)
SpecDestroy == Init /\ [][Next \/ \E k \in Pages : KfreeStack(k)]_vars

-----------------------------------------------------------------------------
BlockPages(p, o) == p..(p + 2^o - 1)
FreeBlocks == UNION {{<<p, o>> : p \in ToSet(free_areas[o])} : o \in Orders}
SlabPages == {p \in Pages : metadata[p].is_slab}
LargeLive == {r \in live : ~metadata[PageOf(r.addr)].is_slab}

(* The pages of the heap that some free block, slab or block of its own    *)
(* covers, one set for each.                                               *)
Tiles ==
  {BlockPages(b[1], b[2]) : b \in FreeBlocks} \cup {{p} : p \in SlabPages}
  \cup {BlockPages(PageOf(r.addr), metadata[PageOf(r.addr)].order) : r \in LargeLive}

(* Every page of the heap is in exactly one free block, slab page or       *)
(* allocated block: splitting and merging neither lose a page nor give one *)
(* out twice, whatever the order of the calls.                             *)
HeapTiled ==
  /\ \A S, T \in Tiles : S # T => S \cap T = {}
  /\ UNION Tiles = Pages
  /\ \A S \in Tiles : S \subseteq Pages
  /\ Cardinality(Tiles) = Cardinality(FreeBlocks) + Cardinality(SlabPages) + Cardinality(LargeLive)

(* The metadata kfree and buddy_free go by says what the lists say: a page *)
(* is marked free with order o just when it heads a block on list o. A     *)
(* stale mark would let the merge loop swallow a block in use.             *)
MetadataOK ==
  \A p \in Pages, o \in Orders :
    (metadata[p].is_free /\ metadata[p].order = o) <=> <<p, o>> \in FreeBlocks

(* When everything has been given back the heap is one block again,        *)
(* slab pages included.                                                    *)
NoLeak == live = {} => free_areas[MaxOrder] = <<0>>

Extent(r) == r.addr..(r.addr + r.size - 1)

(* Where the allocator keeps its own data inside the heap: the first byte  *)
(* of each free block and free object, which hold the list pointers, and   *)
(* the slab headers.                                                       *)
Bookkeeping ==
  {b[1] * PageSize : b \in FreeBlocks}
  \cup UNION {(p * PageSize)..(p * PageSize + SlabHeader - 1) \cup ToSet(slab[p].free_list)
             : p \in SlabPages}

(* The buddy and slab allocators together are an allocator: each kmalloc   *)
(* and kfree is a step of Allocator.                                       *)
A == INSTANCE Allocator WITH Bytes <- 0..(2^MaxOrder * PageSize - 1),
                             own <- Bookkeeping

(* kmalloc hands out memory of its own: through all splits, merges and     *)
(* slab reuse an allocation never overlaps another, the allocator's own    *)
(* pointers and headers, or the end of the heap, and kfree takes back just *)
(* what it is given.                                                       *)
IsAllocator == A!Spec

(* What kmalloc has handed out lies in the heap.                           *)
LiveInHeap == \A r \in live : Extent(r) \subseteq 0..(2^MaxOrder * PageSize - 1)

(* A slab with free objects, some in use, is on its cache's partial list,  *)
(* one without on the full list, and the counts agree with the objects:    *)
(* slab_alloc takes from a list head without looking at the count.         *)
SlabsOK ==
  \A c \in Caches :
    /\ \A p \in ToSet(slabs_partial[c]) :
         0 < slab[p].free_count /\ slab[p].free_count < slab[p].total_count
    /\ \A p \in ToSet(slabs_full[c]) : slab[p].free_count = 0
    /\ ToSet(slabs_partial[c]) \cap ToSet(slabs_full[c]) = {}
    /\ ToSet(slabs_partial[c]) \cup ToSet(slabs_full[c]) = {p \in SlabPages : slab[p].cache = c}
    /\ \A p \in SlabPages : slab[p].cache = c =>
         /\ slab[p].free_count = Len(slab[p].free_list)
         /\ slab[p].total_count - slab[p].free_count =
              Cardinality({r \in live : PageOf(r.addr) = p})
=============================================================================
