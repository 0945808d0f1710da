------------------------------- MODULE Memory -------------------------------
(***************************************************************************)
(* The kernel's regions and a process's user stacks on the same frames:    *)
(* Vmalloc and UserStacks composed over one bitmap that may run out.       *)
(*                                                                         *)
(* pmm_alloc_page returns 0 when no frame is left, and its callers do not  *)
(* test for it; user_free_stack gives frame 0 back for the page at base,   *)
(* when that is not mapped, so that from then on 0 is also a free frame.   *)
(***************************************************************************)
EXTENDS Pmm, Sequences, FiniteSetsExt, SequencesExt

CONSTANTS
  PageSize, VmPages,   \* of Vmalloc
  RegionSizes,         \* the sizes asked of vmalloc, whole pages
  UsTop,               \* of UserStacks
  StackSizes,          \* the sizes of user stacks, in pages
  MaxExits             \* bound on onePageExits

ASSUME MemoryShape ==
  /\ PageSize \in Nat \ {0} /\ VmPages \in Nat /\ UsTop \in Nat
  /\ \A n \in RegionSizes : n \in Nat \ {0} /\ n % PageSize = 0
  /\ StackSizes \subseteq Nat \ {0} /\ MaxExits \in Nat

VARIABLES
  vmalloc_list, kpt, us_list, upt, used,
  onePageExits   \* history variable: how many stacks of one page were freed

vars == <<vmalloc_list, kpt, us_list, upt, used, onePageExits>>

V == INSTANCE Vmalloc WITH Sizes <- RegionSizes, pt <- kpt
U == INSTANCE UserStacks WITH Sizes <- StackSizes, pt <- upt

Init == V!Init /\ U!Init /\ onePageExits = 0

KernelRegion == V!Next /\ UNCHANGED <<us_list, upt, onePageExits>>

NewUserStack ==
  /\ \E size \in StackSizes : U!UserAllocStack(size)
  /\ UNCHANGED <<vmalloc_list, kpt, onePageExits>>

UserExit ==
  /\ \E k \in DOMAIN us_list :
       /\ U!UserFreeStack(k)
       /\ onePageExits' = onePageExits + (IF us_list[k].size = 1 THEN 1 ELSE 0)
  /\ onePageExits' <= MaxExits
  /\ UNCHANGED <<vmalloc_list, kpt>>

Next == KernelRegion \/ NewUserStack \/ UserExit

Spec == Init /\ [][Next]_vars

-----------------------------------------------------------------------------
KernelMapped == {kpt[p] : p \in V!Pages} \ {NotMapped}
UserMapped == {upt[p] : p \in U!Pages} \ {NotMapped}

(* vm_add_to_list never gives the same address out twice, though freed     *)
(* gaps are filled again and only neighbours are compared.                 *)
RegionsDisjoint == V!RegionsDisjoint

(* us_add_to_list, likewise, downwards.                                    *)
StacksDisjoint == U!StacksDisjoint

(* The exit of one thread leaves the others of its process their stacks,   *)
(* whatever the size of its own, as long as theirs have two pages or more: *)
(* the one page mapped is then never the one at another stack's base.      *)
LargeStacksMapped == \A r \in ToSet(us_list) : r.size > 1 => upt[r.base - 1] # NotMapped

(* Every byte of every region can be used, and what user code writes on    *)
(* its stack lands in no page of the kernel and on no other stack; but for *)
(* frame 0, which everything mapped after memory ran out shares.           *)
Backed ==
  /\ V!Backed
  /\ KernelMapped \cap UserMapped \subseteq {0}
  /\ \A p, q \in U!Pages : (p # q /\ upt[p] # NotMapped) => upt[p] # upt[q] \/ upt[p] = 0

(* But for frame 0, no frame is freed while in use, also when an           *)
(* allocation failed half way and its region was freed, and none is lost   *)
(* but by the exits of threads with a stack of one page, whose page stays  *)
(* mapped until another stack's overwrites the entry: one by each of them  *)
(* at most. Without such stacks the bitmap is exact.                       *)
FramesAccounted ==
  LET inUse == (Reserved \cup KernelMapped \cup UserMapped) \ {0}
  IN /\ inUse \subseteq used
     /\ Cardinality(used \ (inUse \cup {0})) <= onePageExits
=============================================================================
