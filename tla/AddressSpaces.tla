--------------------------- MODULE AddressSpaces ---------------------------
(***************************************************************************)
(* What the rest of the kernel takes the virtual memory manager for: one   *)
(* map of kernel pages that every address space shares, and a map of user  *)
(* pages for each process that nobody else's operations touch. Tables do   *)
(* not exist at this level.                                                *)
(***************************************************************************)
EXTENDS Naturals

CONSTANTS
  Procs, KernelPages, UserPages,
  Frames,     \* what a page can be backed with
  Unmapped    \* the translation of a page that is not mapped

VARIABLES
  kmap,    \* the kernel's pages
  umap,    \* the pages of each process
  made     \* the processes created

vars == <<kmap, umap, made>>

Init ==
  /\ kmap = [v \in KernelPages |-> Unmapped]
  /\ umap = [p \in Procs |-> [v \in UserPages |-> Unmapped]]
  /\ made = {}

InUse == {kmap[v].f : v \in KernelPages} \cup
         UNION {{umap[p][v].f : v \in UserPages} : p \in Procs}

(* A page gets a frame that no other page has.                             *)
MapKernel(v) ==
  /\ kmap[v] = Unmapped
  /\ kmap'[v].f \in Frames \ InUse /\ ~kmap'[v].user
  /\ kmap' = [kmap EXCEPT ![v] = kmap'[v]]
  /\ UNCHANGED <<umap, made>>

UnmapKernel(v) ==
  /\ kmap[v] # Unmapped
  /\ kmap' = [kmap EXCEPT ![v] = Unmapped]
  /\ UNCHANGED <<umap, made>>

Create(p) ==
  /\ p \notin made
  /\ made' = made \cup {p}
  /\ UNCHANGED <<kmap, umap>>

MapUser(p, v) ==
  /\ p \in made /\ umap[p][v] = Unmapped
  /\ umap'[p][v].f \in Frames \ InUse /\ umap'[p][v].user
  /\ umap' = [umap EXCEPT ![p][v] = umap'[p][v]]
  /\ UNCHANGED <<kmap, made>>

UnmapUser(p, v) ==
  /\ p \in made /\ umap[p][v] # Unmapped
  /\ umap' = [umap EXCEPT ![p][v] = Unmapped]
  /\ UNCHANGED <<kmap, made>>

Next ==
  \/ \E v \in KernelPages : MapKernel(v) \/ UnmapKernel(v)
  \/ \E p \in Procs : Create(p) \/ \E v \in UserPages : MapUser(p, v) \/ UnmapUser(p, v)

Spec == Init /\ [][Next]_vars
=============================================================================
