# A TLA+ model of the DestinX kernel (PointerOS)

DestinX is a 64-bit hobby kernel for one CPU: preemptive threads in a
round-robin ring, a blocking mutex, user processes with their own address
space, a buddy and slab heap, `vmalloc`, a ring-buffered kernel log behind
`kprintf`, APIC interrupts. This directory holds TLA+ models of its stateful
parts, the TLC configurations that check them and TLAPS proofs about threads
and system calls, the log, `vmalloc` and user stacks, the page tables, and the
boot. Paths and line numbers refer to the repository.

## 1. Inventory

| Part | State | Operations | What makes it correct |
|---|---|---|---|
| Scheduler, threads (`kernel/scheduler`) | ready ring (`next`, `prev`, `ready_list_head`), `dead_list_head`, `current_thread`, thread states, saved frames | `create_thread`, `create_user_thread`, `scheduler_handler` (from the LAPIC timer and from `yield`), `thread_exit`, `cleanup_dead_threads`, `destroy_thread` | the ring holds exactly the schedulable threads; one thread is RUNNING; the CPU goes round the ring; dead threads are freed once |
| Mutex, spinlock (`kernel/mutex.c`, `kernel/spinlock.c`) | `locked`, queue `blocked_head`/`blocked_tail`/`next_blocked` | `mutex_lock`, `mutex_unlock` | one owner, also through the handoff; the queue is exactly the blocked threads; a woken thread runs |
| Processes (`process.c`, `scheduler.c:86-104`) | CR3, `us_list_head`, `ustacks_infos`, `tss.rsp0` | `create_user_process`, context switch, reaper | a user thread runs in its own address space; no exit touches another process |
| System calls (`arch/x86_64/syscalls`) | GS base, `IA32_KERNEL_GS_BASE`, `sstacks.kernel_rsp` | `syscall_entry`, `SYS_EXIT`, `init_kernel_gs_base` | every entry finds the kernel stack of the calling thread |
| User stacks (`mm/stack.c`), page guard (`mm/page_fault.c`) | list of stacks, page table entries, guard | `user_alloc_stack`, `user_free_stack`, `page_fault_handler` | stacks do not overlap, an exit leaves the others alone, a stack grows or its thread is closed |
| Heap (`mm/kmalloc.c`, `buddy.c`, `slab.c`) | free lists, page metadata, slabs, cache lists | `kmalloc`, `kfree` | no memory given out twice or lost; bookkeeping never in memory in use |
| vmalloc (`mm/vmalloc.c`) | region list, page table entries, frames | `vmalloc`, `vfree` | regions disjoint, every byte backed by a frame of its own, no frame lost |
| PMM (`mm/pmm.c`) | bitmap | `init_PMM`, `pmm_alloc_page(s)`, `pmm_free_page` | exactly the usable frames are offered, each to one owner |
| VMM (`mm/vmm.c`) | four levels of tables in frames | `vmm_map_page` (4 KB, 2 MB), `vmm_unmap_page`, direct mapping | a flat map per address space, the kernel's part shared by all |
| Kernel log (`drivers/lfb/klog.c`) | ring of `[c, ready]`, head, tail | `klog_write`, `klog_flush_to_screen` | text is shown once and in order until a marked overflow, and nothing else is (except for slots whose fresh memory was marked as ready); the reader catches up |
| Console, kprintf (`drivers/lfb/lfb.c`) | cursor, cells, local buffer | `kputchar_direct`, `lfb_scroll`, `kprintf` | the screen is the end of the text, the local buffer holds, no text is cut |
| IDT, ACPI, APICs (`idt`, `apic`) | gates, `iso_list`, redirection table, `irq_handlers`, IRR and ISR of the LAPIC | `parse_acpi`, `ioapic_set_irq`, `setIRQHandler`, dispatch, EOI | an IRQ reaches its handler, none is left in service |
| Timers (`pit.c`, `lapic_timer.c`) | countdown, period | `pit_wait_ms`, `init_lapic_timer` | waits as long as asked, the period is right |
| Boot (`kernel_main`) | order of the above | – | nothing is used before it is set up |
| GDT, serial, file systems, libc | mostly none | set-up, output | – |

How they interact. The timer interrupt and `yield` both enter
`scheduler_handler`. `mutex_lock` and `thread_exit` set the thread's state and
yield; `mutex_unlock` only changes a state. `SYS_EXIT` is `thread_exit` after a
`swapgs`. The idle thread flushes the log and then reaps:
`cleanup_dead_threads` takes `dead_list_head` with interrupts off and walks it
with interrupts on, changing `us_list_head` and CR3, which every context switch
changes too. Thread records and stack records come from `kmalloc`, kernel
stacks from `vmalloc`, user stacks from `user_alloc_stack`; the latter two, and
the page tables, take frames from the PMM. `kprintf` goes to the log, the log
to the screen.

What is hard. There is one CPU, so all concurrency is preemption: code with
IF = 0 is atomic, code with IF = 1 can be interrupted anywhere. The preemptible
code that touches shared state is the reaper and the body of `klog_write`.
Interrupts are asked for while they are off, during boot too, and polled
counters are read at any time. Beyond that the difficulty is sequential: long
sequences of legal calls on linked structures (ring, queue, free lists, region
lists, shared page tables), exhaustion of memory and page-size boundaries.
Nothing is persistent and there are no messages, so there is no crash recovery
and no unreliable delivery. `PROJECT.json` lists the hazards at their lines.

## 2. Modules

| Module | Models | Checked by |
|---|---|---|
| `Scheduler` | `scheduler.c`, `thread.c`, `mutex.c`, the timer and yield entries, the reaper | `MCScheduler`, `Sched*.cfg`; proved in `SchedulerProofs` |
| `RoundRobin` | abstract: a circle of threads | `IsRoundRobin` of `Scheduler` |
| `Syscalls` | `syscall_entry`, GS, on top of `Scheduler` | `MCSyscalls`, `SchedSafe.cfg`; proved in `SchedulerProofs` |
| `Kheap` | `kmalloc.c`, `buddy.c`, `slab.c` | `MCKheap`, `Kheap*.cfg`; proved in `KheapProofs` |
| `Allocator` | abstract: disjoint allocations, and bookkeeping beside them | `IsAllocator` of `Kheap` |
| `Klog` | `klog.c` | through `Console`; proved in `ConsoleProofs` |
| `Console` | `kprintf`, `kputchar_direct`, `lfb_scroll`, on top of `Klog` | `MCConsole`, `Console.cfg`; proved in `ConsoleProofs` |
| `Pmm` | `pmm_alloc_page`, `pmm_free_page` and the flat view of `vmm_map_page`, `vmm_unmap_page`, as operators | through the next five |
| `Vmalloc` | `vmalloc.c` | through `Memory` |
| `UserStacks` | `stack.c` | through `Memory`; `UserStacksExit.cfg` |
| `Memory` | `Vmalloc` and `UserStacks` on one bitmap | `Memory.cfg`; proved in `MemoryProofs` |
| `PageGuard` | `page_fault.c` | `PageGuard.cfg` |
| `Paging` | `vmm.c`, `create_user_process` | `Paging.cfg`; proved in `PagingProofs` |
| `AddressSpaces` | abstract: one flat map per address space | `IsFlat` of `Paging` |
| `BootMemory` | `init_PMM`, `init_VMM`, `pmm_alloc_pages` | through `Boot` |
| `Timers` | `pit.c`, `lapic_timer.c` | through `Boot` |
| `Interrupts` | `acpi.c`, `ioapic`, `lapic`, `idt.c`, the entries in assembly | through `Boot` |
| `Boot` | `kernel_main` composed of these three | `MCBoot`, `Boot.cfg`; proved in `BootProofs` |
| `SchedulerLists` | lemmas about pointer structures, and about the ring as a sequence | TLAPS |
| `NatSets` | lemmas about `Max`, `Min`, the rank of an element in a finite set of numbers, quotients, remainders and powers of two, and about what functions that recur over numbers or folds compute | TLAPS |

Definitions that begin with "Mutant" in their comment are deliberately wrong
versions of the definition that follows them; replacing the one by the other
must break the property named in `PROJECT.json`.

### Scheduler, RoundRobin, Syscalls

State: the fields of `thread_t` as functions on threads, the globals under
their names, one `mutex_t`, the user stack records (named by their thread), CR3
and `tss.rsp0`, IF of the running code and in each saved frame, and the
reaper's place in `destroy_thread` with its locals (`reap`). `pc` says where a
thread is with respect to the mutex. `unmapped_in` records in which address
space `user_free_stack` did its unmapping.

A step is a stretch of code that cannot be preempted. `SchedulerHandler` is the
whole of `scheduler_handler`, up to the `iretq`; `Timer`, `MutexLockBlock` and
`ThreadExit` contain it. The reaper is cut at every access to shared state.
`MutexLockFast`, `MutexLockBlock` and `MutexUnlock` are whole calls, because
they hold a spinlock with interrupts off. The shipped threads do not use the
mutex; the model's kernel threads use it properly (no double lock, no unlock
without lock, no exit with it).

`Init` is `init_scheduler` up to the creation of the idle thread.
`main_thread`'s record is not cleared (`scheduler.c:19-23`), so its `process`
is a choice from `MainProcess`: `NULL`, or `WILD`, a bad pointer. Comparing a
wild pointer is harmless, dereferencing it ends in `cpu = "wild"`, from which
nothing is claimed. Creation may fail for any thread (a thread is simply not
created), and idle is created first or not at all. That is what the code does
where it tests for NULL; `create_user_thread` does not test what
`user_alloc_stack` returns (`thread.c:73`), nor `init_scheduler` what `kmalloc`
and `create_user_process` do (`scheduler.c:19`, `scheduler.c:31`), and the model
has none of the behaviours in which these fail.

Two steps are coarser than the rule above. `ReapUnlink` is the whole of
`us_remove_from_list`, which reads `us_list_head` twice with interrupts on; and
`mutex_lock` is never preempted between its spinlock and `yield`, which is how
the code is, since interrupts stay off from `spin_lock_irqsave` to the frame
`yield` saves.

`RoundRobin` knows no pointers: threads join at the end of a circle, the CPU
goes round it, only the thread that has the CPU leaves. `Scheduler` maps the
ring, read from `ready_list_head` along `next` (`Ring`), to that circle.

`Syscalls` adds the two GS bases. `SYS_EXIT` never returns to the second
`swapgs` of `syscall_entry`, so each exit leaves the two swapped; what keeps
the next system call right is that `scheduler_handler` writes
`IA32_KERNEL_GS_BASE` afresh on every switch to a thread of a process.

Left out: registers, the contents of stacks, `tid`s, printing. What
`destroy_thread` does to the heap when it passes a `vmalloc` stack to `kfree`
(`thread.c:123`) is in `Kheap`.

### Kheap, Allocator

Addresses are offsets from `HEAP_START`. The loops of `buddy_alloc` and
`buddy_free` are given in closed form: the smallest order with a free block,
one new block for each order passed (`AllocAreas`, `AllocMeta`); the order at
which merging stops (`MergedOrder`) and the block it has grown to (`Grown`).
Lists are sequences in list order, so which block or object a call returns is
exactly the code's choice. `live` is what the callers hold; only live
allocations are freed. A call that returns NULL changes nothing and is no step.

`Allocator` says what callers rely on: an allocation is memory no other caller
has and that the allocator does not write to. `Kheap` implements it with the
list nodes in free blocks, the slab headers and the links in free objects as
its own bytes (`Bookkeeping`). `SpecDestroy` adds the `kfree` of a kernel stack
outside the heap (`KfreeStack`).

### Klog, Console

A character is named by the place in the log `klog_write` reserved for it, so
order and identity of text can be compared with what the screen shows. Writers
are preempted between reservation, the store of `c` and the store of `ready`;
the flush runs with interrupts off and is one step. In `Console` the texts come
from `kprintf`, which cuts them into pieces where its local buffer is full or
might not hold a number (`Pieces`); other threads' pieces may come between. A
text of no characters hands over nothing, so such a call changes nothing. `log`
records, by place, the call and the piece a character belongs to, which is what
`PlacesOf` and the properties count by.
What the flush takes out goes through `kputchar_direct`; the cells are computed
from the characters shown (`Displayed`), with `kputchar_direct`'s wrap and
scroll, and compared with the layout one would expect (`Places`).

`init_klog`'s loop `i < 0` (`klog.c:16`) clears no slot, and `kmalloc` does not
zero memory, so `ready` may be set at first. `Stale` is the set of slots where
it is, and `JUNK` what memory holds in `c`; the run has one stale slot, the
proofs any set of them. A stale mark lets the flush pass a place that is
reserved and not stored yet: it shows what the memory held (once), and the
character that belongs there is never shown. When the writer marks the slot
afterwards, the mark is left for the place one lap on, which is then passed too
early in turn, so the slot stays out of step, in every lap. The repository's
`README.md:93` reports the symptom, "KLog Flakiness: Kernel log buffer
occasionally misses rendering text frames onto the LFB screen". The properties
say what is left: `ExactUntilDrop` that there is one character on the screen for
each place of the log all the same, and the right one in every slot that was
clear at first, and `NoPhantom` that memory's junk appears once at most for each
stale slot. That a place in a stale slot is shown right is claimed nowhere, as
it is false. What junk looks like is not known: the screen's layout takes it for
a character other than a newline.

### Vmalloc, UserStacks, Memory, PageGuard

Regions and stacks are sequences of `[base, size]` in list order, page tables
map page numbers to frames, `used` is the bitmap. `vmm_unmap_page` of an
unmapped page returns 0 and `pmm_free_page(0)` is carried out, as in the code,
as is mapping frame 0 when `pmm_alloc_page` has none left. `Memory` composes
the two over one bitmap, for stacks of any number of pages: those of one page,
the size the kernel asks for (`scheduler.c:44`), behave differently from larger
ones. `user_free_stack` unmaps `base`, `base - 4096`, ..., while
`user_alloc_stack` has mapped `base - 4096` (`stack.c:25`, `stack.c:37`). The
exit of a thread with one page therefore takes the page of the stack next above,
if that is of one page too (`SurvivorsMapped` of `UserStacks`, which `ustacks_exit` finds
violated), and leaves its own mapped; when the next stack there overwrites the
entry, the frame is marked as used and nobody has it any more. Hence
`LargeStacksMapped` speaks of the stacks of two pages or more, whoever exits,
and `FramesAccounted` allows for one lost frame for each such exit, which the
history variable `onePageExits` counts. The functions are called in any order, which is what
their interface allows; the shipped kernel calls `vmalloc` only while booting
and `vfree` never. Sizes given to `vmalloc` are whole pages, as those of the
kernel's stacks are: it does not round, and an unaligned size, which the
framebuffer of some screens has, makes two regions share a page (listed as a
hazard).

### Paging, AddressSpaces

Tables of `Fan` entries in frames, four levels, entries with frame, user bit
and 2 MB bit. `Descend` is one level of `vmm_map_page`, which makes missing
tables and widens the user bit of existing ones; `Walk` is the way both
`vmm_get_entry` and the hardware go. Kernel pages are mapped and unmapped
through whichever address space is loaded. `AddressSpaces` has no tables: a map
of kernel pages shared by all and a map of user pages for each process; the
mapping between the two is the hardware's translation, with the user bit the
conjunction of those on the way. `PagingShape` says which pages the model is
about: pages that four indices can tell apart, kernel pages in the upper half
of the PML4 and user pages in the lower one, no 4 KB page under a 2 MB entry.
Every kernel page shares its PML4 entry with one boot has mapped, as the area
of `vmalloc` does with the back buffer: a process copies the entries once, and
an entry made later would be missing in its PML4.

`vmm.c` has no guards, these steps do: a page is mapped when it is not mapped
and there are frames enough for the tables and itself (the results of
`pmm_alloc_page` at `vmm.c:77`, `vmm.c:89` and `vmm.c:104` are used untested,
0 included), and unmapped when it is mapped. The code does unmap pages that are
not: `user_free_stack` the one at `base`, with frame 0 freed as a result. So an
exhausted PMM and a freed frame 0 as ways to a shared table are outside
`Paging` and its proofs; `Memory` has them, on flat page tables, and its
properties except frame 0 by name.

### BootMemory, Timers, Interrupts, Boot

`BootMemory` counts in pages: a small "byte" of the bitmap and a small page, so
that the bitmap itself has a size in pages. `pmm_alloc_pages` is one step for
each turn of its loop, over bits that may lie behind the bitmap and hold junk.
The entries of the memory map are whole pages (`pmm.c:47` clears a page that is
available in part, too) and memory needs one PDPT (`vmm.c:44-49` makes one for
each 512 GB). When no run is long enough for the heap the model stops
(`ScanFailed`); the kernel goes on and maps the heap over physical address 0
(`kmalloc.c:6-9`).
`Timers` has the PIT's counter with its width and an arbitrary distance, up to
`MaxGap` ticks, between two reads. `Interrupts` has the MADT's entries, the
IOAPIC's table and the LAPIC's IRR and ISR with priority classes; the handlers
run with IF = 0 and are one step each. `Boot` runs them in `kernel_main`'s
order; the PIT may ask for an interrupt as soon as it is programmed.

## 3. Runs

`console` takes about three minutes with two workers, `sched_safe`, `kheap` and
`memory` a minute or two, the others less. Passing runs:

| Run | Instance | Shows |
|---|---|---|
| `sched_safe` | 3 symmetric kernel threads, 2 user threads of 2 processes, `process` of main NULL or wild | `TypeOK`, `RingOK`, `OneRunning`, `BlockedQueueOK`, `MutexOwned`, `Preemptible`, `ContextOK`, `DeadAccounted`, `NoRunawaySwitch`, `SyscallStackOK`. Three kernel threads are enough for an owner and a queue of two, the user threads for switches between processes and deaths while the reaper works. A wild pointer stops the model, so deadlock is not checked here; it is in `sched_live`. |
| `sched_live` | 2 kernel threads, 1 user thread | `DeadReaped`, `RingTurn` under `FairSpec`; `IsRoundRobin`; and `UserStackTracked`, which is stated for one user thread only: with more the reaper's race (below) breaks it. |
| `kheap` | 4 pages of 16 bytes, header 4, objects of 4, 6 and 12 bytes, requests of 3 to 50 bytes | `HeapTiled`, `MetadataOK`, `NoLeak`, `SlabsOK` and the refinement `IsAllocator`. Three orders give splits and merges over two levels, the caches slabs of three, two and one objects. |
| `console` | 2 writers of up to 2 texts each, log of 8 slots, local buffer of 5 with 3 kept for a number, screen of 7 by 5 pixels and characters of 2 by 2, slot 1 marked by memory | `ExactUntilDrop`, `NoPhantom`, `BufferFits`, `TextsWhole`, `LayoutExact`, and `Drained` under `CSpec`. The long text is cut before its number and the log is lapped; the marked slot is passed early by a flush between a reservation and its stores, and again one lap on; neither side of the screen is a multiple of a character. |
| `memory` | pages of 2 bytes, regions of 1 and 2 pages in an area of 3, stacks of 1 and 2 pages below a top of 5, 5 frames of which 0 and 2 are reserved, one exit with a stack of one page | `RegionsDisjoint`, `StacksDisjoint`, `LargeStacksMapped`, `Backed`, `FramesAccounted`. One such exit is enough to take a neighbour's page and to lose a frame. Three free frames are fewer than the address space can ask for, so allocations fail half way; frame 0, which the code then uses, is excepted by name in the properties. |
| `paging` | 2 symmetric processes, 4 levels of 4 entries, 1 kernel and 2 user pages beside what boot maps, one unmapping | `KernelShared` (what boot maps included), `OneParent` and the refinement `IsFlat`. The user pages share some tables and not others. The run ends when the bounds are reached, so deadlock is not checked. |
| `boot` | 4 memory maps, 4 MADTs, 2 rates of the LAPIC, counter of 4 bits | `BitmapExact`, `HeapLowest`, `WaitExact`, `PeriodSound`, `PitRouted`, `HandlersThere`, `NothingStuck`. Maps with holes, out of order, with an end that is no whole byte, with reserved memory on top, with too little for the heap; MADTs with and without an override for IRQ 0; a wait longer than the counter is wide. |

Runs that end in a violation, each a finding of `PROJECT.json`:

| Run | What the code does |
|---|---|
| `sched_woken` | The thread `mutex_unlock` wakes is not on the ready list any more and nothing puts it back: it never runs, and since the mutex was handed to it, nobody gets the mutex again. |
| `sched_isolation` | The reaper loads the dead thread's CR3, is preempted, and unmaps the stack in the address space another thread left loaded. |
| `kheap_foreign` | `destroy_thread` gives a kernel stack from `vmalloc` to `kfree`. The index computed from its address, cut to an `int`, is that of an unrelated page of the heap; the stack gets on a free list and is handed out by `kmalloc`. |
| `ustacks_exit` | `user_free_stack` unmaps from `base`, one page too high: with one-page stacks (the size the kernel uses) it unmaps another thread's stack and leaves its own mapped, whose frame is lost when the entry is overwritten (`onePageExits` of `Memory`). |
| `page_guard` | The guard is the page that is mapped, so no stack is ever expanded or closed: the fault handler hangs. |

Refinements. `IsAllocator`, `IsFlat` and `IsRoundRobin` instantiate the
abstract specifications with expressions over the detailed state and are
checked as properties. None has fairness; progress is stated separately.

Bounds. Threads, processes, pages, frames and slots are finite sets given by
the configurations. `MaxHead` and `MaxCalls` bound the characters and the texts
of a log, `VmPages` and `UsTop` the address space, `MaxExits` the exits with a
stack of one page, `MaxUnmaps` and
`EnoughFrames` the calls that change page tables, `MaxBit` the bits of the
bitmap that are looked at, `MaxGap` the time between two reads of the PIT.
Everything else is finite by itself.

Fairness. `Scheduler!FairSpec`: weak fairness of the timer (the LAPIC timer is
periodic and IF is set whenever the model's CPU runs, which `Preemptible`
shows), weak fairness of the end of boot, and strong fairness of the reaper
(idle is scheduled again and again, by `RingTurn`, and a time slice is long
enough for some instructions). `Console!CSpec`: weak fairness of the flush, of
each writer's stores and of the next piece of a text begun, since writers and
idle are threads of the ring. Threads are never required to lock, unlock, print
or exit.

## 4. Proofs

Each theorem is about the specification a run checks (`LogExact` and
`LogGenuine`: about the log by itself, which `CSpec` drives), for every value
of the constants that satisfies the named assumptions of the modules; the runs
show the same properties, by the same names, on small instances. The scheme is
always the same: an inductive invariant, one lemma or step for each action, and
one temporal step. The invariants were checked with TLC on the runs' instances
before they were proved, but for those it cannot evaluate (`PInv` and `MemoryInv`
quantify over functions or all numbers, `LogInv` over all places).

| Module | Theorems | Properties |
|---|---|---|
| `SchedulerProofs` | `Inductive`, `TypeCorrect`, `ReadyRing`, `SingleRunner`, `DeadList`, `MutualExclusion`, `BlockedQueue`, `AlwaysPreemptible`, `Context`, `NoRunaway`, `OneUserStack`, `IsARoundRobin`, `SyscallsAreScheduler`, `SyscallStack` | `TypeOK`, `RingOK`, `OneRunning`, `DeadAccounted`, `MutexOwned`, `BlockedQueueOK`, `Preemptible`, `ContextOK`, `NoRunawaySwitch`, `UserStackTracked`, `IsRoundRobin`, `SyscallStackOK` |
| `KheapProofs` | `HeapInductive`, `AlwaysTiled`, `MetadataAgrees`, `NothingLeaks`, `SlabsStaySound`, `HeapAllocates` | `HeapTiled`, `MetadataOK`, `NoLeak`, `SlabsOK`, `IsAllocator` |
| `ConsoleProofs` | `LogExact`, `LogGenuine`, `PrintedExact`, `PrintedGenuine`, `PiecesFit`, `TextsKept`, `LayoutHolds` | `ExactUntilDrop`, `NoPhantom`, `BufferFits`, `TextsWhole`, `LayoutExact` |
| `MemoryProofs` | `MemoryInductive`, `RegionsNeverOverlap`, `StacksNeverOverlap`, `StacksSurvive`, `RegionsBacked`, `NoFrameLost` | `RegionsDisjoint`, `StacksDisjoint`, `LargeStacksMapped`, `Backed`, `FramesAccounted` |
| `PagingProofs` | `PagingInductive`, `KernelAlwaysShared`, `AlwaysOneParent`, `TablesAreFlat` | `KernelShared`, `OneParent`, `IsFlat` |
| `BootProofs` | `HandlersAreThere`, `NothingStaysInService`, `PitIsRouted`, `WaitIsExact`, `PeriodIsSound`, `BitmapIsExact`, `HeapIsLowest` | `HandlersThere`, `NothingStuck`, `PitRouted`, `WaitExact`, `PeriodSound`, `BitmapExact`, `HeapLowest` |

**Threads.** For any sets of threads and processes (`ThreadNames`,
`ProcessNames`: names are distinct, every user thread has a process). The
invariants speak of reachability along pointers (`Reach`), which is not
inductive by itself. `SchedulerLists` replaces it by shapes: a ring is a set
closed under `next` and `prev`, inverse to each other, of which no proper
subset closed under `next` contains the head (`RingShape`); likewise
`QueueShape` and `ChainShape`. Its lemmas say how insertion, removal and
pushing change a shape, and that a shape is what `Reach` computes. `IInv` is
the conjunction of the type invariant, the three shapes with the sets they run
through (`RingInv`, `QueueInv`, `ReapInv`), the fit of thread states and mutex
places (`LifeInv`), the process pointers (`ProcessInv`), the boot phase
(`BootInv`), `MutexOwned`, the saved IFs (`FrameInv`: every frame of a thread on
the ring has IF = 1, which is why frames saved with IF = 0 do no harm: their
owners are never on the ring) and the CPU (`CpuInv`). `HandlerLeave` and
`HandlerRotate` reduce `SchedulerHandler` to the two things it can do in such a
state; each conjunct then has a lemma with one step per kind of action.

`IsARoundRobin` is the refinement of `RoundRobin`, for every state and step.
`IsRing` says that a sequence lists the members of the ring once each in the
order of `next`; there is only one such sequence from a given head, `Ring`
(`RingIs`: a walk that left it would do so at a first place, which is how the
induction is avoided), enqueueing appends to it (`RingAppend`) and dequeueing
removes one place of it (`RingRemoveAt`), also when the head goes.
`OneUserStack` has as hypothesis what the property is stated for, that there is
one user thread (`OneUser`, an assumption on the constants): `StackInv` follows
its stack record through the reaper's places. With two it is false, see
`sched_isolation`.

**System calls.** `SyscallsAreScheduler` shows that every behaviour of
`Syscalls` is one of `Scheduler`, so `IInv` holds with system calls too.
`GsInv` adds that `IA32_KERNEL_GS_BASE` is the kernel's whenever a user thread
has the CPU: a user thread always has a process, and the handler writes the
register on every switch to a thread that has one.

**Heap.** For a heap of any order, any page size, any caches and any requests
(`HeapShape`: the caches' sizes grow and one object of each fits behind the
header, as the sizes at `slab.c:6` do). A block is a first page and
an order, and a page is in it when both have the same quotient by its size
(`Same`); blocks and buddies thus become equalities of quotients, and powers of
two stay opaque numbers that double and divide each other (`PowerStep`,
`PowerDivides`, `SameCoarser` of `NatSets`). `HeapInv` says of the buddy
allocator (`BuddyOK`): the blocks on the lists and those in use tile the heap
(`Tiling`); a page is marked free with an order just when it heads a free block
of that order (`Marked`); no two free blocks are buddies (`NoBuddies`); the
lists repeat nothing. Of the slabs (`SlabShape`, `SlabGood`): the objects on the
free list and those in use are all the objects of the page, each once, the
counts are those of the list, and one object is in use. Of the lists: the
partial and the full list of a cache are its slabs with room and those without
(`ListsGood`). Of `live`: addresses are distinct, and what is on no slab starts
a block as large as it needs. The tiling alone is not inductive: that the merge
loop swallows only free blocks follows from the marks, and that all comes back
as one block from `NoBuddies`. Splitting replaces a block by nested ones, the
block handed out and a half for each order passed (`HalvesTile`,
`TilingReplace`), and merging is the same read backwards (`TilingNested`), so
the closed forms need no induction over the loops. In `NothingLeaks`, the buddy
of a free block of the least order is covered by a free block that is no
smaller, so it is that block and could have been merged, or the blocks overlap;
hence the least order is `MaxOrder`. For `HeapAllocates` an allocation's bytes
are located: on the pages of one block in use, on a slab within its own object
behind the header (`ExtentIs`); blocks and objects are apart, and so are the
allocations, the pointers and the headers (`Layout`).

**Log.** For any buffer size, any number of writers and texts of any length,
preempted anywhere, and any marks in the memory the log got. `LogGenuine` needs
that a slot that is ready, or stored and not yet ready, holds a character of the
log or junk, and for the bound on junk that what is on the screen and what is
still in marked slots are together no more than the stale slots (`JunkOnce`): a
flush takes the mark of every slot it shows, and no store puts junk back.
`LogExact` needs more: the places still to be written are apart and, in slots
clear at first, not yet shown (`PartsInv`, `UntilDrop`), and as long as the
reader has not been lapped (`Fits`), such a slot, when ready, holds just the
place the reader expects there (`ReadyExact`). That two places in one lap never
share a slot is arithmetic modulo the size; it is also why a stale slot spoils
no other. These two are about `Klog!Spec`, in
which texts have any of a set of lengths; `PrintedExact` and `PrintedGenuine`
say the same of `CSpec`, in which `kprintf` chooses them: each of its steps is
one of the log (`ConsoleMoves`). None assumes anything about fresh memory.

**Console.** For any set of texts made of characters and numbers, any number of
threads, any local buffer that holds the longest number (`ConsoleShape`), any
size of the screen and of its characters that leaves room for one. `Pieces`,
`Displayed` and `Places` fold or recur over a text. The induction the library
states with an operator as parameter is done over a set of numbers instead: the
numbers up to n for which a step is right contain 0 and with each its
successor, so they are all there (`UpTo`). In the same way what such a
definition denotes is shown to exist, once for a function that recurs over
numbers (`Iterates`) and once for the folds of the community modules, which
recur over the subsets of a domain (`FoldExists`); from there on each character
is one step.

`ConsoleInv` says that what a thread's call has in the log so far, followed by
the pieces the thread still holds, is the text of the call (`TextIn`), that
pieces left are marked lower than those handed over, so that no two pieces are
counted as one, and that a short text is one piece or in the log already.
`PiecesText` gives what `kprintf` computes: the pieces, put together, are the
text, none is empty or longer than the buffer, and a text that leaves `NumRoom`
free is one piece. `PiecesFit` and `TextsKept` need nothing of the log's slots.
`Right` says of the screen after k characters where the cursor is, that every
cell shows the character that belongs there or is blank, and that nothing has
been put at or behind the cursor; the last part is what makes the next cell
free and the line that scrolling uncovers blank. `PutcharRight` keeps it over
one call of `kputchar_direct`, whether it stays in the line, goes to the next
or scrolls. `LayoutHolds` holds of whatever is shown, so it needs of the log
only its types.

**Regions and stacks.** For any number of frames, page size, address space and
order of calls. `RegionList` and `StackList` keep both lists sorted and apart;
`RegionsMapped` and `StacksMapped` say that exactly the pages of regions, and
the first page of each stack of two pages or more, have an entry; `Accounts`,
over the entries of both tables together, that frames other than 0 are behind
one page each and that the bitmap marks those and the reserved ones, and
besides them only a set of lost frames. `Accounts` and the entries need each
other: a free gives back the right frames only because the entries are right,
and an allocation keeps the entries apart only because the bitmap is. That no
more frames are lost than threads with one page have exited is not inductive by
itself, since a frame is lost some time after the exit, when the entry is
overwritten: the lost frames and the pages that are still mapped and belong to
no thread (`Leftover`) are together no more than such exits (`LostAre`). A new
stack moves at most one from the latter to the former, an exit adds at most one
to the latter and only if its stack had one page. Assumed (`MemoryShape`):
regions of whole pages, as in `Memory`'s section above. Stacks may have any
sizes.

**Page tables.** For any number of processes and pages, any table size and
any `PagingShape`, over four levels. That a page changes alone follows only
from how all tables hang together, and the tables themselves do not say which
level they are of. `PInv` therefore says that there is a level for each table
and, below the PML4s, a half of the address space it serves (`lv` and `hf`,
bound by a quantifier: the model has no such state), such that every entry leads
one level down, within its half, to a frame in use, with the user bit of its
half (`Levels`); that no two entries lead to one frame, but for the same kernel
entry of two PML4s (`Unique`); that the PML4s are just those of the address
spaces (`Good`); that their kernel halves are equal and boot's pages are mapped
in them (`Kept`). `Dir`, `Leaf` and `Maps` say by quantifiers which way a page
goes; `WalkFacts` that `Walk` goes that way, and `LeafUnique` that only pages
with the same indices, in the same address space or the kernel's half, meet in
a table. One level of `vmm_map_page` either finds a table or hangs up a new one
(`DescendFacts`), its three levels and the entry set last add one page and take
nothing away (`MapPageFacts`), and a kernel page needs no new entry in a PML4
(`KernelEntries`), which is what keeps the halves equal when it is mapped
through one process's PML4 only. `MapStep`, `UnmapStep` and `CreateStep` give
the invariant and the one page that changes; `TablesAreFlat` maps each to the
step of `AddressSpaces`.

**Boot.** One invariant for each of the three parts, which share no variables.
`IrqInv`: at most the vector being handled is in service, and only vectors with
a gate and a handler are requested. `RouteInv`: what `iso_list` holds when
`init_PIT` reads it. `TimerInv`: while a part of the wait is polled, the value
read last says how much of it has passed; between parts the time passed exceeds
the ticks asked for by at most a gap for each part over (`PartsOver`,
`Waited`). `MemInv`: the bitmap offers exactly the usable frames that are not
tables or heap, and no run long enough begins below where
`pmm_alloc_pages` is looking (`NoRunBelow`), although it skips. Assumed: the
MADT overrides an IRQ at most once, has at most `MAX_ISO` overrides and one
IOAPIC (`parse_acpi` keeps the last of several, `acpi.c:66-69`), and IRQ 0
is an input (`MadtShape`); two reads of the PIT are less than a period of the
counter apart (`TimerShape`; it also states that `2^W` is a number, since the
provers know nothing of exponentiation); entries of the memory map do not
overlap and no available one lies across 0x100000, since `pmm.c:45` looks only
at where one begins (`BootShape`).

The proofs found things the models did not say. An available entry that begins
below 0x100000 and goes on above it would be left out of the bitmap as a whole,
and `iso_list` is right only for a MADT with no more than `MAX_ISO` overrides;
both are assumptions now. `Paging` had put the framebuffer's 2 MB entry in a
table of the direct mapping, which no run noticed since no property spoke of
it; the model is corrected, and `KernelShared` includes boot's pages.

Only model-checked:

- `DeadReaped`, `RingTurn`, `Drained`: liveness under fairness is out of the
  proof system's reach.
- The runs that expect a violation: each is one behaviour, which needs no proof.

## 5. Not modelled

- Serial output, glyphs and colours, `lfb_swap`'s copy: pure output.
- The file systems: unfinished in this commit; nothing reads a file
  (`dfs_finddir` is empty, `dfs_read` has no caller).
- The descriptors of the GDT, the entry into long mode, `init_pat`: constants
  written once. The TLB: `vmm_unmap_page` invalidates the one page.
- Exceptions other than page faults, which print and return.
- The search for the MADT among the firmware's tables; the controllers
  themselves are modelled from their use.
- `kputchar`, `kputnum_direct`, `deleteIRQHandler`, the PIT's `ticks`: nothing
  uses them.
- The string functions, which have no state.
- What the properties cannot reach is noted with its hazard in `PROJECT.json`.

## 6. Plan

Every safety property of a run that passes and every refinement is proved.
What is left to TLC is liveness. The next parts to model are the boot loader's
modules and its information, which lie in memory the map calls available (see
the hazard at `pmm.c:46`), and the file systems once something reads a file.
