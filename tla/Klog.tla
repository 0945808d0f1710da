-------------------------------- MODULE Klog --------------------------------
(***************************************************************************)
(* The kernel log: threads put text into a ring buffer with klog_write,    *)
(* idle moves it to the screen with klog_flush_to_screen.                  *)
(*                                                                         *)
(* A writer reserves its part of the log with interrupts off and fills it  *)
(* with interrupts on, so it can be preempted between any two stores. The  *)
(* flush runs with interrupts off throughout and is one step. A character  *)
(* is named by the place in the log that klog_write reserved for it.       *)
(***************************************************************************)
EXTENDS Naturals, Sequences, FiniteSets, FiniteSetsExt

CONSTANTS
  Writers,    \* threads that write to the log
  BufMax,     \* KLOG_BUF_MAX
  Lengths,    \* the lengths of the texts written
  MaxHead,    \* bound on the characters reserved altogether
  Stale,      \* the slots fresh heap memory has marked as ready
  JUNK,       \* what fresh heap memory holds in c
  DROP        \* the text [drop]

ASSUME LogShape ==
  /\ BufMax \in Nat \ {0}
  /\ Lengths \subseteq Nat \ {0}
  /\ MaxHead \in Nat
  /\ Stale \subseteq 0..(BufMax - 1)
  /\ JUNK \notin Nat /\ DROP \notin Nat /\ JUNK # DROP

VARIABLES
  klog_buffer,           \* the slots: [c, ready]
  klog_head, klog_tail,
  writing,               \* the writers' locals: the part [from, to) left to
                         \* fill, and whether c of from is stored already
  screen                 \* what has been put on the screen

vars == <<klog_buffer, klog_head, klog_tail, writing, screen>>

Slots == 0..(BufMax - 1)
Slot(n) == n % BufMax
Idle(w) == writing[w].from = writing[w].to

(* init_klog. Its loop over the slots has the bound 0, so they keep what   *)
(* kmalloc's memory held.                                                  *)
Init ==
  /\ klog_buffer = [s \in Slots |-> [c |-> JUNK, ready |-> s \in Stale]]
  /\ klog_head = 0
  /\ klog_tail = 0
  /\ writing = [w \in Writers |-> [from |-> 0, to |-> 0, stored |-> FALSE]]
  /\ screen = <<>>

(* The part of a text of length len that klog_write keeps.                 *)
Kept(len) == IF len > BufMax THEN BufMax ELSE len

(* klog_write, up to the release of klog_write_lock.                       *)
Reserve(w, len) ==
  /\ Idle(w)
  /\ klog_head + Kept(len) <= MaxHead
  /\ klog_head' = klog_head + Kept(len)
  /\ writing' = [writing EXCEPT ![w] = [from |-> klog_head, to |-> klog_head + Kept(len),
                                        stored |-> FALSE]]
  /\ UNCHANGED <<klog_buffer, klog_tail, screen>>

(* klog_buffer[pos].c = s[i].                                              *)
StoreChar(w) ==
  LET n == writing[w].from IN
  /\ ~Idle(w) /\ ~writing[w].stored
  /\ klog_buffer' = [klog_buffer EXCEPT ![Slot(n)].c = n]
  /\ writing' = [writing EXCEPT ![w].stored = TRUE]
  /\ UNCHANGED <<klog_head, klog_tail, screen>>

(* Mutant: ready does not wait for c.                                      *)
MayMarkEarly(w) == ~Idle(w)

(* The release store of ready comes after the store of c.                  *)
MayMark(w) == ~Idle(w) /\ writing[w].stored

(* Mutant: the last character of a text is not marked.                     *)
StoreReadyNotLast(w) ==
  LET n == writing[w].from IN
  /\ MayMark(w)
  /\ klog_buffer' = [klog_buffer EXCEPT ![Slot(n)].ready = @ \/ n + 1 # writing[w].to]
  /\ writing' = [writing EXCEPT ![w] = [from |-> n + 1, to |-> @.to, stored |-> FALSE]]
  /\ UNCHANGED <<klog_head, klog_tail, screen>>

(* The store of ready, and on to the next character.                       *)
StoreReady(w) ==
  LET n == writing[w].from IN
  /\ MayMark(w)
  /\ klog_buffer' = [klog_buffer EXCEPT ![Slot(n)].ready = TRUE]
  /\ writing' = [writing EXCEPT ![w] = [from |-> n + 1, to |-> @.to, stored |-> FALSE]]
  /\ UNCHANGED <<klog_head, klog_tail, screen>>

(* Mutant: overwritten text is not skipped.                                *)
FlushFromTail == klog_tail

(* The first character a flush looks at: the last BufMax reserved are kept.*)
FlushFrom ==
  IF klog_head - klog_tail > BufMax THEN klog_head - BufMax ELSE klog_tail

(* The first character from there on that is not ready.                    *)
FlushTo ==
  Min({n \in FlushFrom..klog_head : n = klog_head \/ ~klog_buffer[Slot(n)].ready})

(* The slots that have been printed are not ready any more.                *)
Consumed ==
  [s \in Slots |-> IF \E n \in FlushFrom..(FlushTo - 1) : s = Slot(n)
                   THEN [klog_buffer[s] EXCEPT !.ready = FALSE] ELSE klog_buffer[s]]

(* klog_flush_to_screen, called by idle.                                   *)
Flush ==
  /\ klog_buffer' = Consumed
  /\ klog_tail' = FlushTo
  /\ screen' = screen \o (IF FlushFrom # klog_tail THEN <<DROP>> ELSE <<>>)
                      \o [i \in 1..(FlushTo - FlushFrom) |->
                            klog_buffer[Slot(FlushFrom + i - 1)].c]
  /\ UNCHANGED <<klog_head, writing>>

Write(w) == StoreChar(w) \/ StoreReady(w)

Next ==
  \/ \E w \in Writers : (\E len \in Lengths : Reserve(w, len)) \/ Write(w)
  \/ Flush

Spec == Init /\ [][Next]_vars

-----------------------------------------------------------------------------
Dropped == \E i \in DOMAIN screen : screen[i] = DROP

(* As long as no [drop] has been shown, the screen shows one character for *)
(* every place of the log up to klog_tail, and the right one for those     *)
(* whose slot was clear at first, however the writers were preempted and   *)
(* although they fill the buffer out of order. A stale mark spoils its own *)
(* slot, in every lap, but no other.                                       *)
ExactUntilDrop ==
  ~Dropped => /\ Len(screen) = klog_tail
              /\ \A i \in 1..klog_tail : Slot(i - 1) \notin Stale => screen[i] = i - 1

(* The screen shows nothing but [drop], text that some thread wrote, after *)
(* an overflow too, when late writers hit slots already reused, and once   *)
(* at most for each stale mark what the memory held.                       *)
NoPhantom ==
  /\ \A i \in DOMAIN screen : screen[i] \in (0..(klog_head - 1)) \cup {DROP, JUNK}
  /\ Cardinality({i \in DOMAIN screen : screen[i] = JUNK}) <= Cardinality(Stale)

(* The reader catches up with the writers in the end: no slot stays not    *)
(* ready for good because its mark was spent on another character.         *)
Drained == (klog_tail # klog_head) ~> (klog_tail = klog_head)
=============================================================================
