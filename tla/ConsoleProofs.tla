--------------------------- MODULE ConsoleProofs ---------------------------
(***************************************************************************)
(* The kernel log shows what was written, kprintf's pieces are the texts   *)
(* they were cut from, and the screen shows what was put on it: for any    *)
(* number of threads, any texts, any sizes of the buffers and the screen.  *)
(***************************************************************************)
EXTENDS Console, NatSets, SequenceTheorems


(* w has yet to fill place n.                                              *)
Pending(w, n) == writing[w].from <= n /\ n < writing[w].to

LogType ==
  /\ klog_buffer \in [Slots -> [c : Nat \cup {JUNK}, ready : BOOLEAN]]
  /\ klog_head \in Nat /\ klog_tail \in Nat /\ klog_tail <= klog_head
  /\ writing \in [Writers -> [from : Nat, to : Nat, stored : BOOLEAN]]
  /\ screen \in Seq(Nat \cup {JUNK, DROP})

(* The writers' parts of the log.                                          *)
PartsInv ==
  /\ \A w \in Writers : /\ writing[w].from <= writing[w].to
                        /\ writing[w].to <= klog_head
                        /\ writing[w].stored => writing[w].from < writing[w].to
  /\ \A w, v \in Writers, n \in Nat : Pending(w, n) /\ Pending(v, n) => w = v

(* Characters of the log are all that can be shown, but for what the       *)
(* memory held, which goes from its slot to the screen at most once.       *)
JunkReady == {s \in Slots : klog_buffer[s].ready /\ klog_buffer[s].c = JUNK}
JunkShown == {i \in DOMAIN screen : screen[i] = JUNK}
JunkOnce == Cardinality(JunkShown) + Cardinality(JunkReady) <= Cardinality(Stale)

ShownText == \A i \in DOMAIN screen : screen[i] \in (0..(klog_head - 1)) \cup {DROP, JUNK}

ShownInv ==
  /\ \A s \in Slots : klog_buffer[s].ready => klog_buffer[s].c \in (0..(klog_head - 1)) \cup {JUNK}
  /\ \A w \in Writers : writing[w].stored =>
       klog_buffer[Slot(writing[w].from)].c \in 0..(klog_head - 1)
  /\ ShownText /\ JunkOnce

(* The reader has not lost the writers: the places it has yet to show have *)
(* a slot each.                                                            *)
Fits == klog_head - klog_tail <= BufMax

(* A slot that is ready holds the one place the reader expects there, and  *)
(* nobody will write to it: unless it was marked at first.                 *)
Clear(n) == Slot(n) \notin Stale

ReadyExact ==
  \A n \in klog_tail..(klog_tail + BufMax - 1) :
    Clear(n) /\ klog_buffer[Slot(n)].ready =>
      n < klog_head /\ klog_buffer[Slot(n)].c = n /\ \A w \in Writers : ~Pending(w, n)

StoredExact ==
  \A w \in Writers : writing[w].stored /\ Clear(writing[w].from) =>
    klog_buffer[Slot(writing[w].from)].c = writing[w].from

(* What holds until the first [drop].                                      *)
UntilDrop ==
  /\ Len(screen) = klog_tail /\ \A i \in 1..klog_tail : Clear(i - 1) => screen[i] = i - 1
  /\ \A w \in Writers, n \in Nat : Pending(w, n) /\ Clear(n) => klog_tail <= n
  /\ Fits => ReadyExact /\ StoredExact

LogInv == LogType /\ PartsInv /\ ShownInv /\ (~Dropped => UntilDrop)

-----------------------------------------------------------------------------
LEMMA SlotType == \A n \in Nat : Slot(n) \in Slots
<1> SUFFICES ASSUME NEW n \in Nat PROVE n % BufMax \in 0..(BufMax - 1)
  BY DEF Slot, Slots
<1> QED
  BY LogShape, Division, Zenon

(* Two places the buffer can hold at the same time have different slots.   *)
LEMMA SlotInjective ==
  ASSUME NEW m \in Nat, NEW n \in Nat, m < n + BufMax, n < m + BufMax, Slot(m) = Slot(n)
  PROVE  m = n
<1>1. BufMax \in Nat \ {0} /\ m % BufMax = n % BufMax
  BY LogShape DEF Slot
<1>2. CASE m <= n
  BY <1>1, <1>2, RemainderInjective
<1>3. CASE n <= m
  BY <1>1, <1>3, RemainderInjective
<1> QED
  BY <1>2, <1>3

(* A place has the slot of the one BufMax before it.                       *)
LEMMA SlotReused ==
  ASSUME NEW n \in Nat
  PROVE  Slot(n + BufMax) = Slot(n)
BY LogShape, RemainderPeriodic, Zenon DEF Slot

(* Up to FlushTo every place the flush looks at is ready.                  *)
LEMMA FlushRange ==
  ASSUME LogType
  PROVE  /\ FlushFrom \in klog_tail..klog_head
         /\ FlushTo \in FlushFrom..klog_head
         /\ \A n \in FlushFrom..(FlushTo - 1) : klog_buffer[Slot(n)].ready
         /\ FlushFrom = klog_tail <=> Fits
<1> DEFINE S == {n \in FlushFrom..klog_head : n = klog_head \/ ~klog_buffer[Slot(n)].ready}
<1>1. FlushFrom \in klog_tail..klog_head /\ (FlushFrom = klog_tail <=> Fits)
  BY LogShape DEF LogType, FlushFrom, Fits
<1>2. S \in SUBSET Nat /\ klog_head \in S
  BY <1>1 DEF LogType
<1>3. FlushTo \in S /\ \A y \in S : FlushTo <= y
  <2>1. FlushTo = Min(S)
    BY DEF FlushTo
  <2> HIDE DEF S
  <2> QED
    BY <1>2, <2>1, MinIsLeast
<1>4. ASSUME NEW n \in FlushFrom..(FlushTo - 1) PROVE klog_buffer[Slot(n)].ready
  <2>1. n \in FlushFrom..klog_head /\ n < FlushTo
    BY <1>1, <1>3 DEF LogType
  <2>2. n \notin S
    BY <1>1, <1>2, <1>3, <2>1 DEF LogType
  <2> QED
    BY <2>1, <2>2
<1> QED
  BY <1>1, <1>3, <1>4

(* A step of the log under any texts.                                      *)
LogMoves ==
  \/ \E w \in Writers : (\E len \in Nat : Reserve(w, len)) \/ Write(w)
  \/ Flush

LEMMA ReserveType ==
  ASSUME LogType, NEW w \in Writers, NEW len \in Nat, Reserve(w, len)
  PROVE  LogType'
<1>1. Kept(len) \in Nat
  BY LogShape DEF Kept
<1> QED
  BY <1>1 DEF Reserve, LogType

LEMMA StoreType ==
  ASSUME LogType, NEW w \in Writers, Write(w)
  PROVE  LogType'
<1> DEFINE n == writing[w].from
<1>1. n \in Nat /\ Slot(n) \in Slots
  BY SlotType DEF LogType
<1>2. UNCHANGED <<klog_head, klog_tail, screen>>
  BY DEF Write, StoreChar, StoreReady
<1>3. CASE StoreChar(w)
  <2>1. /\ klog_buffer' = [klog_buffer EXCEPT ![Slot(n)].c = n]
        /\ writing' = [writing EXCEPT ![w].stored = TRUE]
    BY <1>3 DEF StoreChar
  <2> HIDE DEF n
  <2> QED
    BY <1>1, <1>2, <2>1 DEF LogType
<1>4. CASE StoreReady(w)
  <2>1. /\ klog_buffer' = [klog_buffer EXCEPT ![Slot(n)].ready = TRUE]
        /\ writing' = [writing EXCEPT ![w] = [from |-> n + 1, to |-> @.to, stored |-> FALSE]]
    BY <1>4 DEF StoreReady
  <2> HIDE DEF n
  <2>2. klog_buffer' \in [Slots -> [c : Nat \cup {JUNK}, ready : BOOLEAN]]
    BY <1>1, <2>1 DEF LogType
  <2>3. writing' \in [Writers -> [from : Nat, to : Nat, stored : BOOLEAN]]
    BY <1>1, <2>1 DEF LogType
  <2> QED
    BY <1>2, <2>2, <2>3 DEF LogType
<1> QED
  BY <1>3, <1>4 DEF Write

LEMMA FlushType ==
  ASSUME LogType, Flush
  PROVE  LogType'
<1> DEFINE from == FlushFrom
           to == FlushTo
           head == IF from # klog_tail THEN <<DROP>> ELSE <<>>
           text == [i \in 1..(to - from) |-> klog_buffer[Slot(from + i - 1)].c]
           A == Nat \cup {JUNK, DROP}
<1>1. from \in klog_tail..klog_head /\ to \in from..klog_head
  BY FlushRange
<1>2. /\ klog_tail \in Nat /\ klog_head \in Nat /\ from \in Nat /\ to \in Nat
      /\ to - from \in Nat /\ to <= klog_head
  BY <1>1 DEF LogType
<1>3. /\ klog_buffer' = Consumed /\ klog_tail' = to
      /\ screen' = screen \o head \o text
      /\ UNCHANGED <<klog_head, writing>>
  BY DEF Flush
<1>4. klog_buffer' \in [Slots -> [c : Nat \cup {JUNK}, ready : BOOLEAN]]
  BY <1>3 DEF Consumed, LogType
<1>5. text \in Seq(A)
  <2>1. ASSUME NEW i \in 1..(to - from) PROVE klog_buffer[Slot(from + i - 1)].c \in A
    <3>1. from + i - 1 \in Nat
      BY <1>2
    <3> QED
      BY <3>1, SlotType DEF LogType
  <2>2. text \in [1..(to - from) -> A]
    BY <2>1
  <2> HIDE DEF text, from, to, A
  <2> QED
    BY <1>2, <2>2
<1>6. head \in Seq(A)
  <2>1. <<DROP>> \in Seq(A) /\ <<>> \in Seq(A)
    OBVIOUS
  <2> QED
    BY <2>1
<1>7. screen \in Seq(A)
  BY DEF LogType
<1> HIDE DEF from, to, head, text, A
<1>8. screen' \in Seq(A)
  BY <1>3, <1>5, <1>6, <1>7, ConcatProperties
<1> QED
  BY <1>2, <1>3, <1>4, <1>8 DEF LogType, A

LEMMA LogTypeStep ==
  ASSUME LogType, [LogMoves]_vars
  PROVE  LogType'
<1>1. CASE UNCHANGED vars
  BY <1>1 DEF vars, LogType
<1> QED
  BY <1>1, ReserveType, StoreType, FlushType DEF LogMoves

LEMMA JunkFacts ==
  ASSUME LogType
  PROVE  /\ IsFiniteSet(JunkReady) /\ Cardinality(JunkReady) \in Nat
         /\ IsFiniteSet(JunkShown) /\ Cardinality(JunkShown) \in Nat
         /\ IsFiniteSet(Stale) /\ Cardinality(Stale) \in Nat
<1>1. screen \in Seq(Nat \cup {JUNK, DROP})
  BY DEF LogType
<1>2. Len(screen) \in Nat /\ DOMAIN screen = 1..Len(screen)
  BY <1>1
<1>3. IsFiniteSet(Slots) /\ IsFiniteSet(DOMAIN screen)
  BY <1>2, LogShape, FS_Interval DEF Slots
<1>4. JunkReady \subseteq Slots /\ JunkShown \subseteq DOMAIN screen /\ Stale \subseteq Slots
  BY LogShape DEF JunkReady, JunkShown, Slots
<1> QED
  BY <1>3, <1>4, FS_Subset, FS_CardinalityType

(* A step that shows nothing and marks nothing unwritten.                  *)
LEMMA JunkKept ==
  ASSUME LogType, LogType', JunkOnce, screen' = screen, JunkReady' \subseteq JunkReady
  PROVE  JunkOnce'
<1>1. JunkShown' = JunkShown
  BY DEF JunkShown
<1>2. Cardinality(JunkShown') = Cardinality(JunkShown)
  BY <1>1
<1>3. /\ IsFiniteSet(JunkReady) /\ Cardinality(JunkReady) \in Nat
      /\ Cardinality(JunkShown) \in Nat /\ Cardinality(Stale) \in Nat
  BY JunkFacts
<1>4. Cardinality(JunkReady') \in Nat /\ Cardinality(JunkReady') <= Cardinality(JunkReady)
  BY <1>3, FS_Subset, FS_CardinalityType
<1>5. Cardinality(JunkShown') + Cardinality(JunkReady') <= Cardinality(Stale)
  BY <1>2, <1>3, <1>4 DEF JunkOnce
<1> QED
  BY <1>5 DEF JunkOnce

(* A flush takes the mark of every slot whose character it shows.          *)
LEMMA JunkFlushed ==
  ASSUME LogType, JunkOnce, Flush
  PROVE  JunkOnce'
<1> DEFINE from == FlushFrom
           to == FlushTo
           head == IF from # klog_tail THEN <<DROP>> ELSE <<>>
           text == [i \in 1..(to - from) |-> klog_buffer[Slot(from + i - 1)].c]
           A == Nat \cup {JUNK, DROP}
           o == Len(screen \o head)
           new == {i \in (o + 1)..(o + (to - from)) : screen'[i] = JUNK}
           gone == {s \in JunkReady : s \notin JunkReady'}
           f == [i \in new |-> Slot(from + (i - o) - 1)]
<1>1. /\ from \in klog_tail..klog_head /\ to \in from..klog_head
      /\ \A n \in from..(to - 1) : klog_buffer[Slot(n)].ready
  BY FlushRange
<1>2. /\ klog_tail \in Nat /\ klog_head \in Nat /\ from \in Nat /\ to \in Nat
      /\ to - from \in Nat /\ to - from <= BufMax
  BY <1>1, LogShape DEF LogType, FlushFrom
<1>3. /\ klog_buffer' = Consumed
      /\ screen' = (screen \o head) \o text
  BY DEF Flush
<1>4. \A s \in Slots : /\ klog_buffer'[s].c = klog_buffer[s].c
                       /\ klog_buffer'[s].ready =>
                            /\ klog_buffer[s].ready
                            /\ \A n \in from..(to - 1) : s # Slot(n)
  BY <1>3 DEF Consumed, LogType
<1>5. /\ text \in Seq(A) /\ Len(text) = to - from
      /\ \A i \in 1..(to - from) : text[i] = klog_buffer[Slot(from + i - 1)].c
  <2>1. ASSUME NEW i \in 1..(to - from) PROVE klog_buffer[Slot(from + i - 1)].c \in A
    <3>1. from + i - 1 \in Nat
      BY <1>2
    <3> QED
      BY <3>1, SlotType DEF LogType
  <2>2. text \in [1..(to - from) -> A]
    BY <2>1
  <2> HIDE DEF text, from, to, A
  <2>3. text \in Seq(A) /\ Len(text) = to - from
    BY <1>2, <2>2
  <2> QED
    BY <2>3 DEF text
<1>6. head \in Seq(A) /\ \A i \in 1..Len(head) : head[i] # JUNK
  <2>1. <<DROP>> \in Seq(A) /\ <<>> \in Seq(A) /\ Len(<<DROP>>) = 1 /\ Len(<<>>) = 0
        /\ <<DROP>>[1] = DROP
    OBVIOUS
  <2> HIDE DEF A, from
  <2>2. CASE from # klog_tail
    <3>1. head = <<DROP>>
      BY <2>2
    <3> HIDE DEF head
    <3> QED
      BY <2>1, <3>1, LogShape
  <2>3. CASE from = klog_tail
    <3>1. head = <<>>
      BY <2>3
    <3> HIDE DEF head
    <3> QED
      BY <2>1, <3>1
  <2> QED
    BY <2>2, <2>3
<1>7. screen \in Seq(A)
  BY DEF LogType
<1> HIDE DEF from, to, head, text, A
<1>8. /\ screen \o head \in Seq(A) /\ o = Len(screen) + Len(head)
      /\ \A i \in 1..o : (screen \o head)[i] = IF i <= Len(screen) THEN screen[i]
                                                ELSE head[i - Len(screen)]
  BY <1>6, <1>7, ConcatProperties
<1>9. o \in Nat /\ Len(screen) \in Nat /\ Len(head) \in Nat /\ DOMAIN screen = 1..Len(screen)
  BY <1>6, <1>7, <1>8
<1> DEFINE x == screen \o head
<1>10. /\ DOMAIN screen' = 1..(o + (to - from))
       /\ \A i \in 1..(o + (to - from)) :
            screen'[i] = IF i <= o THEN x[i] ELSE text[i - o]
  <2>1. x \in Seq(A) /\ text \in Seq(A) /\ Len(x) = o /\ Len(text) = to - from
    BY <1>5, <1>8
  <2>2. screen' = x \o text
    BY <1>3
  <2> HIDE DEF x, o
  <2> QED
    BY <2>1, <2>2, ConcatProperties
<1>11. JunkShown' \subseteq JunkShown \cup new
  <2> SUFFICES ASSUME NEW i \in DOMAIN screen', screen'[i] = JUNK, i \notin new
               PROVE  i \in DOMAIN screen /\ screen[i] = JUNK
    BY DEF JunkShown
  <2>1. i \in 1..(o + (to - from))
    BY <1>10
  <2> HIDE DEF o
  <2>2. i \in 1..o
    BY <1>2, <1>9, <2>1 DEF o
  <2> HIDE DEF x
  <2>3. screen'[i] = x[i]
    BY <1>9, <1>10, <2>1, <2>2
  <2>4. CASE i <= Len(screen)
    BY <1>8, <1>9, <2>2, <2>3, <2>4 DEF x
  <2>5. CASE ~(i <= Len(screen))
    <3>1. x[i] = head[i - Len(screen)]
      BY <1>8, <2>2, <2>5 DEF x
    <3>2. i - Len(screen) \in 1..Len(head)
      BY <1>8, <1>9, <2>2, <2>5
    <3> QED
      BY <1>6, <2>3, <3>1, <3>2
  <2> QED
    BY <2>4, <2>5
<1>12. ASSUME NEW i \in new
       PROVE  /\ from + (i - o) - 1 \in from..(to - 1) /\ i \in Nat
              /\ Slot(from + (i - o) - 1) \in gone
  <2> DEFINE n == from + (i - o) - 1
  <2>1. /\ i \in Nat /\ i > o /\ i <= o + (to - from) /\ screen'[i] = JUNK
        /\ i \in 1..(o + (to - from)) /\ ~(i <= o) /\ i - o \in 1..(to - from)
        /\ from + (i - o) - 1 \in from..(to - 1)
    <3> HIDE DEF o
    <3> QED
      BY <1>2, <1>9
  <2>2. n \in Nat /\ Slot(n) \in Slots
    <3>1. n \in Nat
      BY <1>2, <2>1
    <3> QED
      BY <3>1, SlotType
  <2>3. klog_buffer[Slot(n)].c = JUNK
    <3> HIDE DEF o, x
    <3>1. screen'[i] = text[i - o]
      BY <1>10, <2>1
    <3> QED
      BY <1>5, <2>1, <3>1
  <2>4. klog_buffer[Slot(n)].ready /\ ~klog_buffer'[Slot(n)].ready
    BY <1>1, <1>4, <2>1, <2>2
  <2>5. Slot(n) \in JunkReady
    BY <2>2, <2>3, <2>4 DEF JunkReady
  <2>6. Slot(n) \notin JunkReady'
    BY <2>4 DEF JunkReady
  <2> HIDE DEF o
  <2> QED
    BY <2>1, <2>5, <2>6
<1>13. f \in Injection(new, gone)
  <2>1. ASSUME NEW i \in new, NEW j \in new, f[i] = f[j] PROVE i = j
    <3> DEFINE m == from + (i - o) - 1
               n == from + (j - o) - 1
    <3>1. m \in from..(to - 1) /\ n \in from..(to - 1) /\ i \in Nat /\ j \in Nat
      BY <1>12
    <3>2. Slot(m) = Slot(n)
      BY <2>1
    <3>3. m \in Nat /\ n \in Nat /\ m < n + BufMax /\ n < m + BufMax
      <4> HIDE DEF m, n
      <4> QED
        BY <1>2, <3>1, LogShape
    <3>4. m = n
      <4> HIDE DEF m, n
      <4> QED
        BY <3>2, <3>3, SlotInjective
    <3> HIDE DEF o
    <3> QED
      BY <1>2, <1>9, <3>1, <3>4
  <2>2. f \in [new -> gone]
    BY <1>12
  <2> HIDE DEF f, new, gone
  <2> QED
    BY <2>1, <2>2, Zenon DEF Injection, IsInjective
<1>14. gone \subseteq JunkReady /\ JunkReady' \subseteq JunkReady /\ gone \cap JunkReady' = {}
  BY <1>4 DEF JunkReady
<1> HIDE DEF f, new, gone, o, x
<1>15. /\ IsFiniteSet(JunkReady) /\ Cardinality(JunkReady) \in Nat
       /\ IsFiniteSet(JunkShown) /\ Cardinality(JunkShown) \in Nat
       /\ Cardinality(Stale) \in Nat
  BY JunkFacts
<1>16. /\ IsFiniteSet(gone) /\ Cardinality(gone) \in Nat
       /\ IsFiniteSet(JunkReady') /\ Cardinality(JunkReady') \in Nat
  BY <1>14, <1>15, FS_Subset, FS_CardinalityType
<1>17. /\ IsFiniteSet(new) /\ Cardinality(new) \in Nat /\ Cardinality(new) <= Cardinality(gone)
  BY <1>13, <1>16, FS_Injection, FS_CardinalityType
<1>18. Cardinality(gone) + Cardinality(JunkReady') <= Cardinality(JunkReady)
  <2>1. Cardinality(gone \cup JunkReady') <= Cardinality(JunkReady)
    <3>1. gone \cup JunkReady' \subseteq JunkReady
      BY <1>14
    <3> QED
      BY <1>15, <3>1, FS_Subset
  <2>2. Cardinality(gone \cup JunkReady') =
          Cardinality(gone) + Cardinality(JunkReady') - Cardinality(gone \cap JunkReady')
    BY <1>16, FS_Union
  <2>3. Cardinality(gone \cap JunkReady') = 0
    BY <1>14, FS_EmptySet
  <2> QED
    BY <1>16, <2>1, <2>2, <2>3
<1>19. Cardinality(JunkShown') \in Nat
       /\ Cardinality(JunkShown') <= Cardinality(JunkShown) + Cardinality(new)
  <2>1. /\ IsFiniteSet(JunkShown \cup new)
        /\ Cardinality(JunkShown \cup new) =
             Cardinality(JunkShown) + Cardinality(new) - Cardinality(JunkShown \cap new)
    BY <1>15, <1>17, FS_Union
  <2>2. Cardinality(JunkShown \cap new) \in Nat
    BY <1>15, FS_Subset, FS_CardinalityType
  <2>3. /\ Cardinality(JunkShown') \in Nat
        /\ Cardinality(JunkShown') <= Cardinality(JunkShown \cup new)
    BY <1>11, <2>1, FS_Subset, FS_CardinalityType
  <2> QED
    BY <1>15, <1>17, <2>1, <2>2, <2>3
<1>20. Cardinality(JunkShown') + Cardinality(JunkReady') <= Cardinality(Stale)
  BY <1>15, <1>16, <1>17, <1>18, <1>19 DEF JunkOnce
<1> QED
  BY <1>20 DEF JunkOnce

(* A text is reserved behind everything reserved so far.                   *)
LEMMA ReserveStep ==
  ASSUME LogInv, NEW w \in Writers, NEW len \in Nat, Reserve(w, len)
  PROVE  LogInv'
<1> DEFINE k == Kept(len)
<1>1. k \in Nat
  BY LogShape DEF Kept
<1>2. /\ klog_head' = klog_head + k
      /\ writing' = [writing EXCEPT ![w] = [from |-> klog_head, to |-> klog_head + k,
                                            stored |-> FALSE]]
      /\ UNCHANGED <<klog_buffer, klog_tail, screen>>
      /\ writing[w].from = writing[w].to
  BY DEF Reserve, Idle
<1> HIDE DEF k
<1>3. LogType'
  BY ReserveType DEF LogInv
<1>4. /\ writing'[w].from = klog_head /\ writing'[w].to = klog_head'
      /\ writing'[w].stored = FALSE
      /\ \A v \in Writers \ {w} : writing'[v] = writing[v]
  BY <1>2 DEF LogInv, LogType, PartsInv
<1>5. \A n \in Nat : Pending(w, n)' => klog_head <= n
  BY <1>4 DEF Pending
<1>6. \A v \in Writers \ {w}, n \in Nat : Pending(v, n)' <=> Pending(v, n)
  BY <1>4 DEF Pending
<1>7. PartsInv'
  <2>1. \A v \in Writers, n \in Nat : Pending(v, n) => n < klog_head
    BY DEF LogInv, LogType, PartsInv, Pending
  <2>2. ASSUME NEW u \in Writers, NEW v \in Writers, NEW n \in Nat,
               Pending(u, n)' /\ Pending(v, n)'
        PROVE  u = v
    BY <1>5, <1>6, <2>1, <2>2 DEF LogInv, LogType, PartsInv
  <2>3. ASSUME NEW v \in Writers
        PROVE  /\ writing'[v].from <= writing'[v].to /\ writing'[v].to <= klog_head'
               /\ writing'[v].stored => writing'[v].from < writing'[v].to
    BY <1>1, <1>2, <1>4 DEF LogInv, LogType, PartsInv
  <2> QED
    BY <2>2, <2>3 DEF PartsInv
<1>8. ShownInv'
  <2>1. ShownText' /\ JunkOnce'
    <3>1. ShownText'
      BY <1>1, <1>2 DEF LogInv, LogType, ShownInv, ShownText
    <3>2. JunkReady' \subseteq JunkReady
      BY <1>2 DEF JunkReady
    <3> QED
      BY <1>2, <1>3, <3>1, <3>2, JunkKept DEF LogInv, ShownInv
  <2>2. \A s \in Slots :
          (klog_buffer[s].ready => klog_buffer[s].c \in (0..(klog_head - 1)) \cup {JUNK})'
    BY <1>1, <1>2 DEF LogInv, LogType, ShownInv
  <2>3. ASSUME NEW v \in Writers, writing'[v].stored
        PROVE  klog_buffer'[Slot(writing'[v].from)].c \in 0..(klog_head' - 1)
    BY <1>1, <1>2, <1>4, <2>3 DEF LogInv, LogType, ShownInv
  <2> QED
    BY <2>1, <2>2, <2>3 DEF ShownInv
<1>9. ASSUME ~Dropped' PROVE UntilDrop'
  <2>1. UntilDrop
    BY <1>2, <1>9 DEF LogInv, Dropped
  <2>2. ASSUME NEW v \in Writers, NEW n \in Nat, Pending(v, n)', Clear(n)
        PROVE  klog_tail' <= n
    <3>1. klog_tail' = klog_tail /\ klog_tail \in Nat /\ klog_head \in Nat
          /\ klog_tail <= klog_head
      BY <1>2 DEF LogInv, LogType
    <3>2. CASE v = w
      <4>1. klog_head <= n
        BY <1>5, <2>2, <3>2
      <4> QED
        BY <3>1, <4>1
    <3>3. CASE v # w
      <4>1. Pending(v, n)
        BY <1>6, <2>2, <3>3
      <4>2. klog_tail <= n
        BY <2>1, <2>2, <4>1 DEF UntilDrop
      <4> QED
        BY <3>1, <4>2
    <3> QED
      BY <3>2, <3>3
  <2>3. ASSUME Fits' PROVE ReadyExact' /\ StoredExact'
    <3>1. Fits /\ ReadyExact /\ StoredExact
      BY <1>1, <1>2, <2>1, <2>3, LogShape DEF LogInv, LogType, Fits, UntilDrop
    <3>2. ReadyExact'
      <4> SUFFICES ASSUME NEW m \in klog_tail..(klog_tail + BufMax - 1), Clear(m),
                          klog_buffer[Slot(m)].ready
                   PROVE  /\ m < klog_head' /\ klog_buffer[Slot(m)].c = m
                          /\ \A v \in Writers : ~Pending(v, m)'
        BY <1>2 DEF ReadyExact, Clear
      <4>1. m \in Nat /\ klog_head \in Nat
        BY LogShape DEF LogInv, LogType
      <4>2. /\ m < klog_head /\ klog_buffer[Slot(m)].c = m
            /\ \A v \in Writers : ~Pending(v, m)
        BY <3>1 DEF ReadyExact
      <4>3. ~Pending(w, m)'
        BY <1>5, <4>1, <4>2
      <4>4. m < klog_head'
        BY <1>1, <1>2, <4>1, <4>2
      <4> QED
        BY <1>6, <4>1, <4>2, <4>3, <4>4
    <3>3. StoredExact'
      BY <1>2, <1>4, <3>1 DEF StoredExact, Clear
    <3> QED
      BY <3>2, <3>3
  <2> QED
    BY <1>2, <2>1, <2>2, <2>3 DEF UntilDrop, Clear
<1> QED
  BY <1>3, <1>7, <1>8, <1>9 DEF LogInv

(* The store of a character goes to a slot that is not ready, as long as   *)
(* the reader has not lost the writers.                                    *)
LEMMA StoreCharStep ==
  ASSUME LogInv, NEW w \in Writers, StoreChar(w)
  PROVE  LogInv'
<1> DEFINE n == writing[w].from
<1>1. /\ n \in Nat /\ n < writing[w].to /\ n < klog_head /\ Slot(n) \in Slots
      /\ Pending(w, n)
  BY SlotType DEF LogInv, LogType, PartsInv, StoreChar, Idle, Pending
<1>2. /\ klog_buffer' = [klog_buffer EXCEPT ![Slot(n)].c = n]
      /\ writing' = [writing EXCEPT ![w].stored = TRUE]
      /\ UNCHANGED <<klog_head, klog_tail, screen>>
  BY DEF StoreChar
<1> HIDE DEF n
<1>3. LogType'
  BY StoreType DEF LogInv, Write
<1>4. \A v \in Writers : /\ writing'[v].from = writing[v].from
                         /\ writing'[v].to = writing[v].to
                         /\ writing'[v].stored = (writing[v].stored \/ v = w)
  BY <1>2 DEF LogInv, LogType
<1>5. \A s \in Slots : /\ klog_buffer'[s].ready = klog_buffer[s].ready
                       /\ klog_buffer'[s].c = IF s = Slot(n) THEN n ELSE klog_buffer[s].c
  BY <1>1, <1>2 DEF LogInv, LogType
<1>6. \A v \in Writers, m \in Nat : Pending(v, m)' <=> Pending(v, m)
  BY <1>4 DEF Pending
<1>7. PartsInv'
  <2>1. \A v \in Writers : /\ writing'[v].from <= writing'[v].to /\ writing'[v].to <= klog_head'
                           /\ writing'[v].stored => writing'[v].from < writing'[v].to
    BY <1>1, <1>2, <1>4 DEF LogInv, PartsInv, n
  <2> QED
    BY <1>6, <2>1 DEF LogInv, PartsInv
<1>8. ShownInv'
  <2>1. ShownText' /\ JunkOnce'
    <3>1. ShownText'
      BY <1>2 DEF LogInv, ShownInv, ShownText
    <3>2. JunkReady' \subseteq JunkReady
      BY <1>1, <1>5, LogShape DEF JunkReady
    <3> QED
      BY <1>2, <1>3, <3>1, <3>2, JunkKept DEF LogInv, ShownInv
  <2>2. \A s \in Slots :
          (klog_buffer[s].ready => klog_buffer[s].c \in (0..(klog_head - 1)) \cup {JUNK})'
    BY <1>1, <1>2, <1>5 DEF LogInv, LogType, ShownInv
  <2>3. ASSUME NEW v \in Writers, writing'[v].stored
        PROVE  klog_buffer'[Slot(writing'[v].from)].c \in 0..(klog_head' - 1)
    <3>1. writing[v].from \in Nat /\ Slot(writing[v].from) \in Slots
      BY SlotType DEF LogInv, LogType
    <3>2. CASE v = w
      BY <1>1, <1>2, <1>4, <1>5, <3>1, <3>2 DEF LogInv, LogType, n
    <3>3. CASE v # w
      BY <1>1, <1>2, <1>4, <1>5, <2>3, <3>1, <3>3 DEF LogInv, LogType, ShownInv
    <3> QED
      BY <3>2, <3>3
  <2> QED
    BY <2>1, <2>2, <2>3 DEF ShownInv
<1>9. ASSUME ~Dropped' PROVE UntilDrop'
  <2>1. UntilDrop
    BY <1>2, <1>9 DEF LogInv, Dropped
  <2>2. Clear(n) => klog_tail <= n
    BY <1>1, <2>1 DEF UntilDrop
  <2>3. ASSUME Fits' PROVE ReadyExact' /\ StoredExact'
    <3>1. Fits /\ ReadyExact /\ StoredExact
      BY <1>2, <2>1, <2>3 DEF Fits, UntilDrop
    <3>2. \A m \in klog_tail..(klog_tail + BufMax - 1) : Clear(m) /\ Slot(m) = Slot(n) => m = n
      <4> SUFFICES ASSUME NEW m \in klog_tail..(klog_tail + BufMax - 1), Clear(m),
                          Slot(m) = Slot(n)
                   PROVE  m = n
        OBVIOUS
      <4>1. m \in Nat /\ m < n + BufMax /\ n < m + BufMax
        <5>1. klog_tail <= n
          BY <2>2 DEF Clear
        <5> QED
          BY <1>1, <5>1, <3>1, LogShape DEF LogInv, LogType, Fits
      <4> QED
        BY <1>1, <4>1, SlotInjective
    <3>3. ReadyExact'
      <4> SUFFICES ASSUME NEW m \in klog_tail..(klog_tail + BufMax - 1), Clear(m),
                          klog_buffer'[Slot(m)].ready
                   PROVE  /\ m < klog_head /\ klog_buffer'[Slot(m)].c = m
                          /\ \A v \in Writers : ~Pending(v, m)'
        BY <1>2 DEF ReadyExact, Clear
      <4>1. m \in Nat /\ Slot(m) \in Slots
        BY LogShape, SlotType DEF LogInv, LogType
      <4>2. /\ m < klog_head /\ klog_buffer[Slot(m)].c = m
            /\ \A v \in Writers : ~Pending(v, m)
        BY <1>5, <3>1, <4>1 DEF ReadyExact
      <4>3. m # n
        BY <1>1, <4>2
      <4> QED
        BY <1>5, <1>6, <3>2, <4>1, <4>2, <4>3
    <3>4. StoredExact'
      <4> SUFFICES ASSUME NEW v \in Writers, writing'[v].stored, Clear(writing[v].from)
                   PROVE  klog_buffer'[Slot(writing[v].from)].c = writing[v].from
        BY <1>4 DEF StoredExact, Clear
      <4>1. writing[v].from \in Nat /\ Slot(writing[v].from) \in Slots
        BY SlotType DEF LogInv, LogType
      <4>2. CASE v = w
        BY <1>5, <4>1, <4>2 DEF n
      <4>3. CASE v # w
        <5>1. /\ writing[v].stored /\ writing[v].from < writing[v].to
              /\ writing[v].to <= klog_head
              /\ klog_buffer[Slot(writing[v].from)].c = writing[v].from
          BY <1>4, <3>1, <4>3 DEF LogInv, PartsInv, StoredExact
        <5>2. Pending(v, writing[v].from) /\ klog_tail <= writing[v].from
          BY <2>1, <4>1, <5>1 DEF Pending, UntilDrop
        <5>3. writing[v].from # n
          BY <1>1, <4>1, <4>3, <5>2 DEF LogInv, PartsInv
        <5>4. writing[v].from \in klog_tail..(klog_tail + BufMax - 1)
          BY <3>1, <4>1, <5>1, <5>2, LogShape DEF LogInv, LogType, Fits
        <5>5. Slot(writing[v].from) # Slot(n)
          BY <3>2, <5>3, <5>4
        <5> QED
          BY <1>5, <4>1, <5>1, <5>5
      <4> QED
        BY <4>2, <4>3
    <3> QED
      BY <3>3, <3>4
  <2> QED
    BY <1>2, <1>6, <2>1, <2>3 DEF UntilDrop, Clear
<1> QED
  BY <1>3, <1>7, <1>8, <1>9 DEF LogInv

(* The mark of a character: it is the only one of its place.               *)
LEMMA StoreReadyStep ==
  ASSUME LogInv, NEW w \in Writers, StoreReady(w)
  PROVE  LogInv'
<1> DEFINE n == writing[w].from
<1>1. /\ n \in Nat /\ n < writing[w].to /\ n < klog_head /\ Slot(n) \in Slots
      /\ Pending(w, n) /\ writing[w].stored
  BY SlotType DEF LogInv, LogType, PartsInv, StoreReady, MayMark, Idle, Pending
<1>2. /\ klog_buffer' = [klog_buffer EXCEPT ![Slot(n)].ready = TRUE]
      /\ writing' = [writing EXCEPT ![w] = [from |-> n + 1, to |-> @.to, stored |-> FALSE]]
      /\ UNCHANGED <<klog_head, klog_tail, screen>>
  BY DEF StoreReady
<1> HIDE DEF n
<1>3. LogType'
  BY StoreType DEF LogInv, Write
<1>4. /\ writing'[w].from = n + 1 /\ writing'[w].to = writing[w].to
      /\ writing'[w].stored = FALSE
      /\ \A v \in Writers \ {w} : writing'[v] = writing[v]
  BY <1>2 DEF LogInv, LogType
<1>5. \A s \in Slots : /\ klog_buffer'[s].ready = (klog_buffer[s].ready \/ s = Slot(n))
                       /\ klog_buffer'[s].c = klog_buffer[s].c
  BY <1>1, <1>2 DEF LogInv, LogType
<1>6. \A v \in Writers, m \in Nat : Pending(v, m)' => Pending(v, m) /\ m # n
  <2> SUFFICES ASSUME NEW v \in Writers, NEW m \in Nat, Pending(v, m)'
               PROVE  Pending(v, m) /\ m # n
    OBVIOUS
  <2>1. CASE v = w
    BY <1>1, <1>4, <2>1 DEF Pending, n
  <2>2. CASE v # w
    <3>1. Pending(v, m)
      BY <1>4, <2>2 DEF Pending
    <3> QED
      BY <1>1, <2>2, <3>1 DEF LogInv, PartsInv
  <2> QED
    BY <2>1, <2>2
<1>7. PartsInv'
  <2>1. \A v \in Writers : /\ writing'[v].from <= writing'[v].to /\ writing'[v].to <= klog_head'
                           /\ writing'[v].stored => writing'[v].from < writing'[v].to
    BY <1>1, <1>2, <1>4 DEF LogInv, LogType, PartsInv
  <2> QED
    BY <1>6, <2>1 DEF LogInv, PartsInv
<1>8. ShownInv'
  <2>1. ShownText' /\ JunkOnce'
    <3>1. ShownText'
      BY <1>2 DEF LogInv, ShownInv, ShownText
    <3>2. klog_buffer[Slot(n)].c # JUNK
      BY <1>1, LogShape DEF LogInv, LogType, ShownInv, n
    <3>3. JunkReady' \subseteq JunkReady
      BY <1>1, <1>5, <3>2 DEF JunkReady
    <3> QED
      BY <1>2, <1>3, <3>1, <3>3, JunkKept DEF LogInv, ShownInv
  <2>2. ASSUME NEW s \in Slots, klog_buffer'[s].ready
        PROVE  klog_buffer'[s].c \in (0..(klog_head' - 1)) \cup {JUNK}
    BY <1>1, <1>2, <1>5, <2>2 DEF LogInv, ShownInv, n
  <2>3. ASSUME NEW v \in Writers, writing'[v].stored
        PROVE  klog_buffer'[Slot(writing'[v].from)].c \in 0..(klog_head' - 1)
    <3>1. v # w /\ writing[v].stored /\ writing'[v].from = writing[v].from
      BY <1>4, <2>3
    <3>2. Slot(writing[v].from) \in Slots
      BY SlotType DEF LogInv, LogType
    <3> QED
      BY <1>2, <1>5, <3>1, <3>2 DEF LogInv, ShownInv
  <2> QED
    BY <2>1, <2>2, <2>3 DEF ShownInv
<1>9. ASSUME ~Dropped' PROVE UntilDrop'
  <2>1. UntilDrop
    BY <1>2, <1>9 DEF LogInv, Dropped
  <2>2. Clear(n) => klog_tail <= n
    BY <1>1, <2>1 DEF UntilDrop
  <2>3. ASSUME Fits' PROVE ReadyExact' /\ StoredExact'
    <3>1. Fits /\ ReadyExact /\ StoredExact
      BY <1>2, <2>1, <2>3 DEF Fits, UntilDrop
    <3>2. ReadyExact'
      <4> SUFFICES ASSUME NEW m \in klog_tail..(klog_tail + BufMax - 1), Clear(m),
                          klog_buffer'[Slot(m)].ready
                   PROVE  /\ m < klog_head /\ klog_buffer'[Slot(m)].c = m
                          /\ \A v \in Writers : ~Pending(v, m)'
        BY <1>2 DEF ReadyExact, Clear
      <4>1. m \in Nat /\ Slot(m) \in Slots
        BY LogShape, SlotType DEF LogInv, LogType
      <4>2. CASE Slot(m) = Slot(n)
        <5>4. Clear(n) /\ klog_tail <= n
          BY <2>2, <4>2 DEF Clear
        <5>1. m < n + BufMax /\ n < m + BufMax
          BY <1>1, <3>1, <5>4, <4>1, LogShape DEF LogInv, LogType, Fits
        <5>2. m = n
          BY <1>1, <4>1, <4>2, <5>1, SlotInjective
        <5>3. klog_buffer[Slot(n)].c = n
          BY <1>1, <3>1, <5>4 DEF StoredExact, n
        <5> QED
          BY <1>1, <1>5, <1>6, <5>2, <5>3
      <4>3. CASE Slot(m) # Slot(n)
        <5>1. /\ m < klog_head /\ klog_buffer[Slot(m)].c = m
              /\ \A v \in Writers : ~Pending(v, m)
          BY <1>5, <3>1, <4>1, <4>3 DEF ReadyExact
        <5> QED
          BY <1>5, <1>6, <4>1, <5>1
      <4> QED
        BY <4>2, <4>3
    <3>3. StoredExact'
      <4> SUFFICES ASSUME NEW v \in Writers, writing'[v].stored, Clear(writing'[v].from)
                   PROVE  klog_buffer'[Slot(writing'[v].from)].c = writing'[v].from
        BY DEF StoredExact, Clear
      <4>1. v # w /\ writing'[v] = writing[v] /\ Slot(writing[v].from) \in Slots
        BY <1>4, SlotType DEF LogInv, LogType
      <4> QED
        BY <1>5, <3>1, <4>1 DEF StoredExact
    <3> QED
      BY <3>2, <3>3
  <2> QED
    BY <1>2, <1>6, <2>1, <2>3 DEF UntilDrop, Clear
<1> QED
  BY <1>3, <1>7, <1>8, <1>9 DEF LogInv

(* The reader takes marked characters only and takes their marks with them.*)
LEMMA FlushStep ==
  ASSUME LogInv, Flush
  PROVE  LogInv'
<1> DEFINE from == FlushFrom
           to == FlushTo
           head == IF from # klog_tail THEN <<DROP>> ELSE <<>>
           text == [i \in 1..(to - from) |-> klog_buffer[Slot(from + i - 1)].c]
<1>1. /\ from \in klog_tail..klog_head /\ to \in from..klog_head
      /\ \A n \in from..(to - 1) : klog_buffer[Slot(n)].ready
      /\ (from = klog_tail <=> Fits)
  BY FlushRange DEF LogInv
<1>2. /\ klog_tail \in Nat /\ klog_head \in Nat /\ from \in Nat /\ to \in Nat
      /\ to - from \in Nat
  BY <1>1 DEF LogInv, LogType
<1>3. /\ klog_buffer' = Consumed /\ klog_tail' = to
      /\ screen' = screen \o head \o text
      /\ UNCHANGED <<klog_head, writing>>
  BY DEF Flush
<1>4. /\ klog_buffer' \in [Slots -> [c : Nat \cup {JUNK}, ready : BOOLEAN]]
      /\ \A s \in Slots : /\ klog_buffer'[s].c = klog_buffer[s].c
                          /\ klog_buffer'[s].ready =>
                               /\ klog_buffer[s].ready
                               /\ \A n \in from..(to - 1) : s # Slot(n)
  BY <1>3 DEF Consumed, LogInv, LogType
<1>5. /\ text \in Seq((0..(klog_head - 1)) \cup {JUNK}) /\ Len(text) = to - from
      /\ \A i \in 1..(to - from) : text[i] = klog_buffer[Slot(from + i - 1)].c
  <2>1. ASSUME NEW i \in 1..(to - from)
        PROVE  klog_buffer[Slot(from + i - 1)].c \in (0..(klog_head - 1)) \cup {JUNK}
    <3>1. from + i - 1 \in from..(to - 1) /\ from + i - 1 \in Nat
      BY <1>1, <1>2
    <3> QED
      BY <1>1, <3>1, SlotType DEF LogInv, ShownInv
  <2> DEFINE Y == (0..(klog_head - 1)) \cup {JUNK}
  <2>2. text \in [1..(to - from) -> Y]
    BY <2>1
  <2> HIDE DEF text, from, to, Y
  <2>3. text \in Seq(Y) /\ Len(text) = to - from
    BY <1>2, <2>2
  <2> QED
    BY <2>3 DEF text, Y
<1>6. head \in Seq({DROP})
  <2>1. <<DROP>> \in Seq({DROP}) /\ <<>> \in Seq({DROP})
    OBVIOUS
  <2> QED
    BY <2>1
<1> HIDE DEF from, to, head, text
<1>7. LogType'
  BY FlushType DEF LogInv
<1>8. PartsInv'
  BY <1>3 DEF LogInv, PartsInv, Pending
<1>9. ShownInv'
  <2>1. ShownText'
    <3> DEFINE A == (0..(klog_head - 1)) \cup {DROP, JUNK}
               Y == (0..(klog_head - 1)) \cup {JUNK}
    <3>1. screen \in Seq(A)
      BY DEF LogInv, LogType, ShownInv, ShownText
    <3>2. Y \subseteq A /\ {DROP} \subseteq A /\ text \in Seq(Y)
      BY <1>5
    <3> HIDE DEF Y
    <3>3. screen' \in Seq(A) /\ \A i \in DOMAIN screen' : screen'[i] \in A
      <4> HIDE DEF A
      <4>1. text \in Seq(A) /\ head \in Seq(A)
        BY <1>6, <3>2, SeqMonotonic
      <4>2. screen' \in Seq(A)
        BY <1>3, <3>1, <4>1, ConcatProperties
      <4> QED
        BY <4>2
    <3> QED
      BY <1>3, <3>3 DEF ShownText
  <2>2. ASSUME NEW v \in Writers, writing[v].stored
        PROVE  klog_buffer'[Slot(writing[v].from)].c \in 0..(klog_head - 1)
    <3>1. Slot(writing[v].from) \in Slots
      BY SlotType DEF LogInv, LogType
    <3> QED
      BY <1>4, <2>2, <3>1 DEF LogInv, ShownInv
  <2> QED
    <3>1. JunkOnce'
      BY JunkFlushed DEF LogInv, ShownInv
    <3> QED
      BY <1>3, <1>4, <2>1, <2>2, <3>1 DEF LogInv, ShownInv
<1>10. ASSUME ~Dropped' PROVE UntilDrop'
  <2>1. ~Dropped /\ Fits /\ from = klog_tail
    <3> DEFINE A == Nat \cup {JUNK, DROP}
    <3>1. screen \in Seq(A) /\ head \in Seq(A) /\ text \in Seq(A)
      <4>1. (0..(klog_head - 1)) \cup {JUNK} \subseteq A /\ {DROP} \subseteq A
        OBVIOUS
      <4>2. screen \in Seq(A)
        BY DEF LogInv, LogType
      <4> HIDE DEF A
      <4> QED
        BY <1>5, <1>6, <4>1, <4>2, SeqMonotonic
    <3> HIDE DEF A
    <3>2. ~Dropped
      <4> SUFFICES ASSUME NEW i \in DOMAIN screen, screen[i] = DROP
                   PROVE  i \in DOMAIN screen' /\ screen'[i] = DROP
        BY <1>10 DEF Dropped
      <4> QED
        BY <1>3, <3>1
    <3>3. from = klog_tail
      <4> SUFFICES ASSUME from # klog_tail
                   PROVE  /\ Len(screen) + 1 \in DOMAIN screen'
                          /\ screen'[Len(screen) + 1] = DROP
        BY <1>10 DEF Dropped
      <4>1. head = <<DROP>>
        BY DEF head
      <4> QED
        BY <1>3, <3>1, <4>1
    <3> QED
      BY <1>1, <3>2, <3>3
  <2>2. UntilDrop /\ ReadyExact /\ StoredExact
    BY <2>1 DEF LogInv, UntilDrop
  <2>3. \A n \in from..(to - 1) :
          /\ n \in klog_tail..(klog_tail + BufMax - 1) /\ n \in Nat /\ Slot(n) \in Slots
          /\ Clear(n) => /\ klog_buffer[Slot(n)].c = n
                         /\ \A v \in Writers : ~Pending(v, n)
    <3> TAKE n \in from..(to - 1)
    <3>1. n \in klog_tail..(klog_tail + BufMax - 1) /\ n \in Nat
      BY <1>1, <1>2, <2>1, LogShape DEF Fits
    <3> QED
      BY <1>1, <2>2, <3>1, SlotType DEF ReadyExact
  <2>4. Len(screen') = klog_tail' /\ \A i \in 1..klog_tail' : Clear(i - 1) => screen'[i] = i - 1
    <3> DEFINE A == Nat \cup {JUNK, DROP}
    <3>1. screen \in Seq(A) /\ text \in Seq(A)
      <4>1. (0..(klog_head - 1)) \cup {JUNK} \subseteq A
        OBVIOUS
      <4>2. screen \in Seq(A)
        BY DEF LogInv, LogType
      <4> HIDE DEF A
      <4> QED
        BY <1>5, <4>1, <4>2, SeqMonotonic
    <3> HIDE DEF A
    <3>2. /\ Len(screen) = klog_tail
          /\ \A i \in 1..klog_tail : Clear(i - 1) => screen[i] = i - 1
      BY <2>2 DEF UntilDrop
    <3>3. screen' = screen \o text
      BY <1>3, <2>1, <3>1, ConcatEmptySeq DEF head
    <3>4. /\ Len(screen') = to
          /\ \A i \in 1..to :
               screen'[i] = IF i <= klog_tail THEN screen[i] ELSE text[i - klog_tail]
      <4>1. Len(screen) + Len(text) = to
        BY <1>2, <1>5, <2>1, <3>2
      <4> QED
        BY <3>1, <3>2, <3>3, <4>1, ConcatProperties
    <3>5. ASSUME NEW i \in 1..to, Clear(i - 1) PROVE screen'[i] = i - 1
      <4>1. CASE i <= klog_tail
        BY <1>2, <3>2, <3>4, <3>5, <4>1
      <4>2. CASE i > klog_tail
        <5>1. i - klog_tail \in 1..(to - from) /\ screen'[i] = text[i - klog_tail]
          BY <1>2, <2>1, <3>4, <4>2
        <5>2. from + (i - klog_tail) - 1 = i - 1 /\ i - 1 \in from..(to - 1)
          BY <1>2, <2>1, <4>2
        <5> QED
          BY <1>5, <2>3, <3>5, <5>1, <5>2
      <4> QED
        BY <1>2, <4>1, <4>2
    <3> QED
      BY <1>3, <3>4, <3>5
  <2>5. ASSUME NEW v \in Writers, NEW n \in Nat, Pending(v, n), Clear(n) PROVE to <= n
    <3>1. klog_tail <= n
      BY <2>2, <2>5 DEF UntilDrop
    <3> QED
      BY <1>2, <2>1, <2>3, <2>5, <3>1
  <2>6. ReadyExact'
    <3> SUFFICES ASSUME NEW m \in to..(to + BufMax - 1), Clear(m),
                        klog_buffer'[Slot(m)].ready
                 PROVE  /\ m < klog_head /\ klog_buffer'[Slot(m)].c = m
                        /\ \A v \in Writers : ~Pending(v, m)
      BY <1>3 DEF ReadyExact, Pending, Clear
    <3>1. m \in Nat /\ Slot(m) \in Slots
      BY <1>2, LogShape, SlotType
    <3>2. CASE m < klog_tail + BufMax
      <4>1. m \in klog_tail..(klog_tail + BufMax - 1)
        BY <1>1, <1>2, <3>1, <3>2, LogShape
      <4> QED
        BY <1>4, <2>2, <3>1, <4>1 DEF ReadyExact
    <3>3. CASE ~(m < klog_tail + BufMax)
      <4>1. m - BufMax \in from..(to - 1) /\ m - BufMax \in Nat
        BY <1>2, <2>1, <3>1, <3>3, LogShape
      <4>2. (m - BufMax) + BufMax = m
        BY <3>1, LogShape
      <4>3. Slot(m) = Slot(m - BufMax)
        BY <4>1, <4>2, SlotReused
      <4> QED
        BY <1>4, <3>1, <4>1, <4>3
    <3> QED
      BY <3>2, <3>3
  <2>7. StoredExact'
    <3> SUFFICES ASSUME NEW v \in Writers, writing[v].stored, Clear(writing[v].from)
                 PROVE  klog_buffer'[Slot(writing[v].from)].c = writing[v].from
      BY <1>3 DEF StoredExact, Clear
    <3>1. Slot(writing[v].from) \in Slots
      BY SlotType DEF LogInv, LogType
    <3> QED
      BY <1>4, <2>2, <3>1 DEF StoredExact
  <2>8. \A v \in Writers, n \in Nat : Pending(v, n)' /\ Clear(n) => klog_tail' <= n
    BY <1>3, <2>5 DEF Pending
  <2> QED
    BY <2>4, <2>6, <2>7, <2>8 DEF UntilDrop, Clear
<1> QED
  BY <1>7, <1>8, <1>9, <1>10 DEF LogInv

(* kmalloc's memory may hold anything in the slots.                        *)
LEMMA InitType == Init => LogType
<1> SUFFICES ASSUME Init PROVE LogType
  OBVIOUS
<1>1. klog_buffer \in [Slots -> [c : Nat \cup {JUNK}, ready : BOOLEAN]]
  BY DEF Init
<1>2. klog_head = 0 /\ klog_tail = 0 /\ screen = <<>>
      /\ writing = [w \in Writers |-> [from |-> 0, to |-> 0, stored |-> FALSE]]
  BY DEF Init
<1> QED
  BY <1>1, <1>2 DEF LogType

LEMMA InitLog ==
  ASSUME Init
  PROVE  LogInv
<1>1. /\ \A s \in Slots : klog_buffer[s].c = JUNK /\ (klog_buffer[s].ready <=> s \in Stale)
      /\ klog_head = 0 /\ klog_tail = 0 /\ screen = <<>>
      /\ writing = [w \in Writers |-> [from |-> 0, to |-> 0, stored |-> FALSE]]
  BY DEF Init
<1>2. LogType
  BY InitType
<1>3. PartsInv
  BY <1>1 DEF PartsInv, Pending
<1>4. ShownInv
  <2>1. JunkReady = Stale /\ JunkShown = {}
    <3>1. Stale \subseteq Slots
      BY LogShape DEF Slots
    <3>2. JunkReady = Stale
      BY <1>1, <3>1, Zenon DEF JunkReady
    <3>3. DOMAIN screen = {}
      BY <1>1
    <3> QED
      BY <3>2, <3>3 DEF JunkShown
  <2>2. Cardinality(JunkShown) = 0 /\ Cardinality(JunkReady) = Cardinality(Stale)
    BY <2>1, FS_EmptySet
  <2>3. JunkOnce
    BY <1>2, <2>2, JunkFacts DEF JunkOnce
  <2> QED
    BY <1>1, <2>3 DEF ShownInv, ShownText
<1>5. UntilDrop
  <2>1. ReadyExact
    <3> SUFFICES ASSUME NEW n \in 0..(0 + BufMax - 1), Clear(n) PROVE ~klog_buffer[Slot(n)].ready
      BY <1>1 DEF ReadyExact
    <3>1. Slot(n) \in Slots
      BY SlotType, LogShape
    <3> QED
      BY <1>1, <3>1, Zenon DEF Clear
  <2> QED
    BY <1>1, <2>1 DEF UntilDrop, Pending, StoredExact
<1> QED
  BY <1>2, <1>3, <1>4, <1>5 DEF LogInv

(* The invariant says more than the two properties of the log.             *)
LEMMA LogShown == LogInv => ExactUntilDrop /\ NoPhantom
<1> SUFFICES ASSUME LogInv PROVE ExactUntilDrop /\ NoPhantom
  OBVIOUS
<1>1. ExactUntilDrop
  BY DEF LogInv, UntilDrop, ExactUntilDrop, Clear
<1>2. Cardinality(JunkShown) <= Cardinality(Stale)
  BY JunkFacts DEF LogInv, ShownInv, JunkOnce
<1>3. NoPhantom
  BY <1>2 DEF LogInv, ShownInv, ShownText, JunkShown, NoPhantom
<1> QED
  BY <1>1, <1>3

LEMMA LogStep ==
  ASSUME LogInv, [LogMoves]_vars
  PROVE  LogInv'
<1>1. CASE UNCHANGED vars
  <2>1. LogType' /\ JunkReady' = JunkReady
    BY <1>1 DEF vars, LogInv, LogType, JunkReady
  <2>2. JunkOnce'
    BY <1>1, <2>1, JunkKept DEF vars, LogInv, ShownInv
  <2>3. ShownInv'
    BY <1>1, <2>2 DEF vars, LogInv, ShownInv, ShownText
  <2> QED
    BY <1>1, <2>1, <2>3 DEF vars, LogInv, PartsInv, Pending, Dropped,
                            UntilDrop, Fits, ReadyExact, StoredExact, Clear
<1>2. ASSUME NEW w \in Writers, NEW len \in Nat, Reserve(w, len) PROVE LogInv'
  BY <1>2, ReserveStep
<1>3. ASSUME NEW w \in Writers, Write(w) PROVE LogInv'
  BY <1>3, StoreCharStep, StoreReadyStep DEF Write
<1>4. CASE Flush
  BY <1>4, FlushStep
<1> QED
  BY <1>1, <1>2, <1>3, <1>4 DEF LogMoves

LEMMA NextMoves == [Next]_vars => [LogMoves]_vars
BY LogShape DEF Next, LogMoves

(* As long as the reader has kept up, the screen shows the log: one        *)
(* character for every place klog_write reserved, in order, and the right  *)
(* one, whatever the memory the log got from kmalloc had marked in other   *)
(* slots.                                                                  *)
THEOREM LogExact == Spec => []ExactUntilDrop
<1>1. Init => LogInv
  BY InitLog
<1>2. LogInv /\ [Next]_vars => LogInv'
  BY LogStep, NextMoves
<1>3. LogInv => ExactUntilDrop
  BY LogShown
<1> QED
  BY <1>1, <1>2, <1>3, PTL DEF Spec

(* Nothing but text that was written and [drop] reaches the screen, even   *)
(* after the writers have run over the reader, except what the memory of   *)
(* the log held at first: once at most for each slot it had marked.        *)
THEOREM LogGenuine == Spec => []NoPhantom
<1>1. Init => LogInv
  BY InitLog
<1>2. LogInv /\ [Next]_vars => LogInv'
  BY LogStep, NextMoves
<1>3. LogInv => NoPhantom
  BY LogShown
<1> QED
  BY <1>1, <1>2, <1>3, PTL DEF Spec

-----------------------------------------------------------------------------
(* Sequences gathered into one.                                            *)

LEMMA ConcatThrice ==
  ASSUME NEW X, NEW a, NEW b, NEW c, a \in Seq(X), b \in Seq(X), c \in Seq(X)
  PROVE  (a \o b) \o c = a \o (b \o c)
BY ConcatAssociative

(* u gathers the sequences of q one after the other.                       *)
Gathers(X, q, u) ==
  /\ u \in [0..Len(q) -> Seq(X)] /\ u[0] = <<>>
  /\ \A k \in 1..Len(q) : u[k] = u[k - 1] \o q[k]
  /\ FlattenSeq(q) = u[Len(q)]

LEMMA FlattenGathers ==
  ASSUME NEW X, NEW q, q \in Seq(Seq(X))
  PROVE  \E u : Gathers(X, q, u)
<1> DEFINE n == Len(q)
           T == Seq(X)
           F == [p \in (1..n) \X T |-> p[2] \o q[p[1]]]
           h == CHOOSE g : g = [i \in 1..n |-> IF i = 1 THEN q[i] ELSE g[i - 1] \o q[i]]
           u == [k \in 0..n |-> IF k = 0 THEN <<>> ELSE h[k]]
<1>1. n \in Nat /\ (\A k \in 1..n : q[k] \in T) /\ <<>> \in T
  OBVIOUS
<1>2. ASSUME NEW s \in T, NEW k \in 1..n PROVE s \o q[k] \in T
  BY <1>1
<1> HIDE DEF n, T
<1>3. PICK g : Iterated(T, <<>>, n, F, g)
  <2>1. F \in [(1..n) \X T -> T]
    <3> SUFFICES ASSUME NEW p \in (1..n) \X T PROVE p[2] \o q[p[1]] \in T
      OBVIOUS
    <3> QED
      BY <1>2
  <2> HIDE DEF F
  <2> QED
    BY <1>1, <2>1, Iterates
<1>4. h = [i \in 1..n |-> IF i = 1 THEN q[i] ELSE h[i - 1] \o q[i]]
  <2> DEFINE v == [i \in 1..n |-> g[i]]
  <2>1. ASSUME NEW i \in 1..n PROVE g[i] = IF i = 1 THEN q[i] ELSE g[i - 1] \o q[i]
    <3>1. i - 1 \in 0..n /\ g[i - 1] \in T /\ g[0] = <<>>
      BY <1>1, <1>3 DEF Iterated
    <3>2. g[i] = g[i - 1] \o q[i]
      <4>1. g[i] = F[<<i, g[i - 1]>>]
        BY <1>3 DEF Iterated
      <4>2. <<i, g[i - 1]>> \in (1..n) \X T
        BY <3>1
      <4> QED
        BY <4>1, <4>2
    <3>3. CASE i = 1
      <4>1. q[i] \in T
        BY <1>1
      <4>2. g[i - 1] = <<>>
        BY <3>1, <3>3
      <4>3. <<>> \o q[i] = q[i]
        BY <4>1, ConcatEmptySeq DEF T
      <4>4. g[i] = <<>> \o q[i]
        BY <3>2, <4>2
      <4> QED
        BY <3>3, <4>3, <4>4
    <3> QED
      BY <3>2, <3>3
  <2>2. \A i \in 1..n : i # 1 => i - 1 \in 1..n
    BY <1>1
  <2>3. v = [i \in 1..n |-> IF i = 1 THEN q[i] ELSE v[i - 1] \o q[i]]
    BY <2>1, <2>2
  <2> HIDE DEF v
  <2> QED
    BY <2>3
<1>5. n # 0 => FlattenSeq(q) = h[n]
  BY DEF FlattenSeq, n
<1>6. n = 0 => FlattenSeq(q) = <<>>
  BY DEF FlattenSeq, n
<1> HIDE DEF h
<1>7. ASSUME NEW k \in 1..n, u[k - 1] \in T PROVE u[k] = u[k - 1] \o q[k] /\ u[k] \in T
  <2>1. k - 1 \in 0..n /\ k \in 0..n /\ k # 0 /\ q[k] \in T
    BY <1>1
  <2>2. u[k] = h[k] /\ (k # 1 => u[k - 1] = h[k - 1]) /\ (k = 1 => u[k - 1] = <<>>)
    BY <1>1, <2>1
  <2>3. h[k] = IF k = 1 THEN q[k] ELSE h[k - 1] \o q[k]
    BY <1>4
  <2>4. k = 1 => u[k - 1] \o q[k] = q[k]
    BY <2>1, <2>2, ConcatEmptySeq DEF T
  <2>5. u[k] = u[k - 1] \o q[k]
    BY <2>2, <2>3, <2>4
  <2> QED
    BY <1>2, <1>7, <2>5
<1>8. \A k \in 0..n : u[k] \in T
  <2> DEFINE S == {k \in 0..n : u[k] \in T}
  <2>1. 0 \in S
    BY <1>1
  <2>2. ASSUME NEW k \in 1..n, k - 1 \in S PROVE k \in S
    <3>1. u[k - 1] \in T /\ k \in 0..n
      BY <2>2
    <3> HIDE DEF u
    <3> QED
      BY <1>7, <3>1
  <2> HIDE DEF S
  <2>3. \A k \in 0..n : k \in S
    BY <1>1, <2>1, <2>2, UpTo
  <2> QED
    BY <2>3 DEF S
<1>9. Gathers(X, q, u)
  <2>1. u \in [0..n -> T] /\ u[0] = <<>>
    BY <1>1, <1>8
  <2>2. ASSUME NEW k \in 1..n PROVE u[k] = u[k - 1] \o q[k]
    <3>1. k - 1 \in 0..n
      BY <1>1
    <3> HIDE DEF u
    <3> QED
      BY <1>7, <1>8, <3>1
  <2>3. FlattenSeq(q) = u[n]
    BY <1>1, <1>5, <1>6
  <2> QED
    BY <2>1, <2>2, <2>3 DEF Gathers, n, T
<1> QED
  BY <1>9

LEMMA FlattenType ==
  ASSUME NEW X, NEW q, q \in Seq(Seq(X))
  PROVE  FlattenSeq(q) \in Seq(X)
<1>1. PICK u : Gathers(X, q, u)
  BY FlattenGathers
<1>2. Len(q) \in 0..Len(q)
  OBVIOUS
<1> QED
  BY <1>1, <1>2 DEF Gathers

LEMMA FlattenEmpty == FlattenSeq(<<>>) = <<>>
BY DEF FlattenSeq

(* Two sequences that begin alike are gathered alike so far.               *)
LEMMA GathersAlike ==
  ASSUME NEW X, NEW q, NEW r, NEW u, NEW v, NEW n \in Nat,
         Gathers(X, q, u), Gathers(X, r, v), n <= Len(q), n <= Len(r),
         Len(q) \in Nat, Len(r) \in Nat,
         \A k \in 1..n : q[k] = r[k]
  PROVE  \A k \in 0..n : u[k] = v[k]
<1> DEFINE S == {k \in 0..n : u[k] = v[k]}
<1>1. 0 \in S
  BY DEF Gathers
<1>2. ASSUME NEW k \in 1..n, k - 1 \in S PROVE k \in S
  <2>1. k \in 1..Len(q) /\ k \in 1..Len(r) /\ u[k - 1] = v[k - 1]
    BY <1>2
  <2>2. u[k] = u[k - 1] \o q[k] /\ v[k] = v[k - 1] \o r[k]
    BY <2>1 DEF Gathers
  <2>3. q[k] = r[k] /\ k \in 0..n
    OBVIOUS
  <2>4. u[k] = v[k]
    BY ONLY <2>1, <2>2, <2>3
  <2> QED
    BY <2>3, <2>4
<1> HIDE DEF S
<1>3. \A k \in 0..n : k \in S
  BY <1>1, <1>2, UpTo
<1> QED
  BY <1>3 DEF S

LEMMA FlattenAppend ==
  ASSUME NEW X, NEW q, NEW e, q \in Seq(Seq(X)), e \in Seq(X)
  PROVE  FlattenSeq(Append(q, e)) = FlattenSeq(q) \o e
<1> DEFINE r == Append(q, e)
           n == Len(q)
<1>1. r \in Seq(Seq(X)) /\ Len(r) = n + 1 /\ n \in Nat /\ r[n + 1] = e
      /\ \A k \in 1..n : q[k] = r[k]
  <2> DEFINE T == Seq(X)
  <2>1. q \in Seq(T) /\ e \in T
    OBVIOUS
  <2> HIDE DEF T
  <2>2. r \in Seq(T) /\ Len(r) = n + 1 /\ n \in Nat /\ r[n + 1] = e
        /\ \A k \in 1..n : q[k] = r[k]
    BY <2>1
  <2> QED
    BY <2>2 DEF T
<1> HIDE DEF r, n
<1>2. PICK u : Gathers(X, q, u)
  BY FlattenGathers
<1>3. PICK v : Gathers(X, r, v)
  BY <1>1, FlattenGathers
<1>4. u[n] = v[n]
  <2>1. n <= Len(q) /\ n <= Len(r) /\ Len(r) \in Nat /\ Len(q) \in Nat
    BY <1>1 DEF n
  <2>2. n \in Nat /\ Gathers(X, q, u) /\ Gathers(X, r, v) /\ \A k \in 1..n : q[k] = r[k]
    BY <1>1, <1>2, <1>3
  <2>3. \A k \in 0..n : u[k] = v[k]
    BY ONLY <2>1, <2>2, GathersAlike
  <2> QED
    BY <1>1, <2>3
<1>5. FlattenSeq(q) = u[n] /\ FlattenSeq(r) = v[n + 1]
  BY <1>1, <1>2, <1>3 DEF Gathers, n
<1>6. v[n + 1] = v[n] \o e
  <2>1. n + 1 \in 1..Len(r) /\ (n + 1) - 1 = n
    BY <1>1
  <2>2. v[n + 1] = v[(n + 1) - 1] \o r[n + 1]
    BY <1>3, <2>1 DEF Gathers
  <2> QED
    BY <1>1, <2>1, <2>2
<1> QED
  BY <1>4, <1>5, <1>6 DEF r

LEMMA FlattenHead ==
  ASSUME NEW X, NEW q, q \in Seq(Seq(X)), q # <<>>
  PROVE  FlattenSeq(q) = Head(q) \o FlattenSeq(Tail(q))
<1> DEFINE r == Tail(q)
           n == Len(r)
           e == q[1]
<1>1. /\ r \in Seq(Seq(X)) /\ Len(q) = n + 1 /\ n \in Nat /\ e = Head(q)
      /\ e \in Seq(X) /\ \A k \in 1..n : r[k] = q[k + 1] /\ r[k] \in Seq(X)
  <2> DEFINE T == Seq(X)
  <2>1. q \in Seq(T)
    OBVIOUS
  <2> HIDE DEF T
  <2>2. r \in Seq(T) /\ Len(q) = n + 1 /\ n \in Nat /\ e = Head(q)
        /\ e \in T /\ \A k \in 1..n : r[k] = q[k + 1] /\ r[k] \in T
    BY <2>1
  <2> QED
    BY <2>2 DEF T
<1> HIDE DEF r, e
<1>2. PICK u : Gathers(X, q, u)
  BY FlattenGathers
<1>3. PICK v : Gathers(X, r, v)
  BY <1>1, FlattenGathers
<1> HIDE DEF n
<1>4. v \in [0..n -> Seq(X)] /\ v[0] = <<>> /\ \A k \in 1..n : v[k] = v[k - 1] \o r[k]
  BY <1>3 DEF Gathers, n
<1>5. u[0] = <<>> /\ \A k \in 1..(n + 1) : u[k] = u[k - 1] \o q[k]
  BY <1>1, <1>2 DEF Gathers
<1> DEFINE S == {k \in 0..n : u[k + 1] = e \o v[k]}
<1>6. 0 \in S
  <2>1. 1 \in 1..(n + 1) /\ 1 - 1 = 0 /\ 0 + 1 = 1 /\ 0 \in 0..n
    BY <1>1
  <2>2. u[1] = u[0] \o q[1]
    BY <1>5, <2>1
  <2>3. <<>> \o e = e /\ e \o <<>> = e
    BY <1>1, ConcatEmptySeq
  <2>4. u[1] = e \o v[0]
    BY <1>4, <1>5, <2>2, <2>3 DEF e
  <2> QED
    BY <2>1, <2>4
<1>7. ASSUME NEW k \in 1..n, k - 1 \in S PROVE k \in S
  <2>1. (k - 1) + 1 = k /\ (k + 1) - 1 = k /\ k + 1 \in 1..(n + 1) /\ k - 1 \in 0..n
    BY <1>1
  <2>2. u[k] = e \o v[k - 1]
    BY <1>7, <2>1
  <2>3. u[k + 1] = u[k] \o r[k]
    BY <1>1, <1>5, <2>1
  <2>4. e \in Seq(X) /\ v[k - 1] \in Seq(X) /\ r[k] \in Seq(X)
    BY <1>1, <1>4, <2>1
  <2>5. (e \o v[k - 1]) \o r[k] = e \o (v[k - 1] \o r[k])
    <3> DEFINE a == e
               b == v[k - 1]
               c == r[k]
    <3>1. a \in Seq(X) /\ b \in Seq(X) /\ c \in Seq(X)
      BY <2>4
    <3> HIDE DEF a, b, c
    <3>2. (a \o b) \o c = a \o (b \o c)
      BY ONLY <3>1, ConcatThrice
    <3> QED
      BY <3>2 DEF a, b, c
  <2>6. v[k] = v[k - 1] \o r[k]
    BY <1>4
  <2>7. u[k + 1] = e \o v[k]
    BY ONLY <2>2, <2>3, <2>5, <2>6
  <2> QED
    BY <2>7
<1> HIDE DEF S
<1>8. n \in S
  <2>1. n \in 0..n
    BY <1>1
  <2> QED
    BY <1>1, <1>6, <1>7, <2>1, UpTo
<1>9. FlattenSeq(q) = u[n + 1] /\ FlattenSeq(r) = v[n]
  BY <1>1, <1>2, <1>3 DEF Gathers, n
<1> QED
  BY <1>1, <1>8, <1>9 DEF S, r

-----------------------------------------------------------------------------
LEMMA Sizes ==
  /\ NumRoom \in Nat /\ BufLen \in Nat /\ 1 < NumRoom /\ NumRoom <= BufLen
  /\ Width \in Nat /\ Height \in Nat
  /\ CharWidth \in Nat \ {0} /\ CharWidth <= Width
  /\ CharHeight \in Nat \ {0} /\ CharHeight <= Height
BY ConsoleShape

(* The buffer of kprintf, and what has gone through it.                    *)
Strings == Seq(Chars)
Buffers == [out : Seq(Strings), buf : Strings]
TextPut(s) == FlattenSeq(s.out) \o s.buf

(* No piece is empty or longer than local_buf, and a text that leaves      *)
(* NumRoom free is in one piece.                                           *)
WellCut(s) ==
  /\ \A i \in 1..Len(s.out) : Len(s.out[i]) \in 1..BufLen
  /\ Len(s.buf) <= BufLen
  /\ Len(TextPut(s)) <= BufLen - NumRoom => s.out = <<>>

(* u puts q, character by character.                                       *)
Puts(q, t, u) ==
  /\ u \in [0..Len(q) -> Buffers] /\ u[0] = t
  /\ \A k \in 1..Len(q) : u[k] = PutChar(u[k - 1], q[k])
  /\ FoldLeft(PutChar, t, q) = u[Len(q)]

LEMMA HandedText ==
  ASSUME NEW s, s \in Buffers
  PROVE  Handed(s) \in Buffers /\ TextPut(Handed(s)) = TextPut(s)
<1> DEFINE o == s.out
           b == s.buf
<1>1. o \in Seq(Strings) /\ b \in Strings /\ <<>> \in Strings
  BY DEF Buffers, Strings
<1> HIDE DEF o, b
<1>2. Append(o, b) \in Seq(Strings)
  <2> HIDE DEF Strings
  <2> QED
    BY <1>1
<1>3. Handed(s).out = Append(o, b) /\ Handed(s).buf = <<>> /\ Handed(s) \in Buffers
  BY <1>1, <1>2 DEF Handed, Buffers, o, b
<1>4. FlattenSeq(Append(o, b)) = FlattenSeq(o) \o b
  BY <1>1, FlattenAppend DEF Strings
<1>5. FlattenSeq(Append(o, b)) \in Seq(Chars)
  BY <1>2, FlattenType DEF Strings
<1>6. FlattenSeq(Append(o, b)) \o <<>> = FlattenSeq(Append(o, b))
  BY <1>5, ConcatEmptySeq
<1> QED
  BY <1>3, <1>4, <1>6 DEF TextPut, o, b

LEMMA TextPutType ==
  ASSUME NEW s, s \in Buffers
  PROVE  /\ FlattenSeq(s.out) \in Seq(Chars) /\ s.buf \in Seq(Chars) /\ TextPut(s) \in Seq(Chars)
         /\ Len(TextPut(s)) = Len(FlattenSeq(s.out)) + Len(s.buf)
         /\ s.out = <<>> => TextPut(s) = s.buf
<1> DEFINE x == FlattenSeq(s.out)
           b == s.buf
<1>1. x \in Seq(Chars) /\ b \in Seq(Chars)
  <2>1. s.out \in Seq(Seq(Chars)) /\ b \in Seq(Chars)
    BY DEF Buffers, Strings
  <2> QED
    BY <2>1, FlattenType
<1>2. s.out = <<>> => x = <<>>
  BY FlattenEmpty
<1> HIDE DEF x, b
<1>3. x \o b \in Seq(Chars) /\ Len(x \o b) = Len(x) + Len(b) /\ <<>> \o b = b
  BY <1>1, ConcatEmptySeq
<1> QED
  BY <1>1, <1>2, <1>3 DEF TextPut, x, b

(* Handing over what makes the text long enough.                           *)
LEMMA HandedCut ==
  ASSUME NEW s, s \in Buffers, WellCut(s), Len(s.buf) > BufLen - NumRoom
  PROVE  WellCut(Handed(s)) /\ Len(TextPut(s)) > BufLen - NumRoom
<1> DEFINE o == s.out
           b == s.buf
<1>1. o \in Seq(Strings) /\ b \in Strings /\ Len(b) \in 1..BufLen /\ Len(b) \in Nat
  <2>1. Len(b) \in Nat /\ Len(b) <= BufLen /\ Len(b) > BufLen - NumRoom
    BY DEF Buffers, Strings, WellCut
  <2> QED
    BY <2>1, ConsoleShape DEF Buffers
<1>2. Len(TextPut(s)) > BufLen - NumRoom
  <2> DEFINE x == FlattenSeq(s.out)
             y == TextPut(s)
  <2>1. x \in Seq(Chars) /\ Len(y) = Len(x) + Len(b)
    BY TextPutType
  <2> HIDE DEF x, y
  <2>2. Len(x) \in Nat
    BY <2>1
  <2>3. Len(b) > BufLen - NumRoom
    OBVIOUS
  <2> HIDE DEF b
  <2>4. Len(y) > BufLen - NumRoom
    BY <1>1, <2>1, <2>2, <2>3, Sizes
  <2> QED
    BY <2>4 DEF y
<1>3. Handed(s).out = Append(o, b) /\ Handed(s).buf = <<>> /\ TextPut(Handed(s)) = TextPut(s)
  BY HandedText DEF Handed
<1>4. \A i \in 1..Len(o) : Len(o[i]) \in 1..BufLen
  BY DEF WellCut
<1> HIDE DEF o, b
<1>5. \A i \in 1..Len(Append(o, b)) : Len(Append(o, b)[i]) \in 1..BufLen
  <2> HIDE DEF Strings
  <2> TAKE i \in 1..Len(Append(o, b))
  <2>1. Append(o, b)[i] = IF i = Len(o) + 1 THEN b ELSE o[i]
    BY <1>1
  <2>2. i = Len(o) + 1 \/ i \in 1..Len(o)
    BY <1>1
  <2> QED
    BY <1>1, <1>4, <2>1, <2>2
<1>6. Len(<<>>) <= BufLen
  BY ConsoleShape
<1> QED
  BY <1>2, <1>3, <1>5, <1>6, ConsoleShape DEF WellCut

LEMMA PutCharText ==
  ASSUME NEW s, NEW c, s \in Buffers, c \in Chars
  PROVE  /\ PutChar(s, c) \in Buffers
         /\ TextPut(PutChar(s, c)) = TextPut(s) \o <<c>>
         /\ WellCut(s) => WellCut(PutChar(s, c))
<1> DEFINE t == IF Len(s.buf) >= BufLen - 1 THEN Handed(s) ELSE s
           r == PutChar(s, c)
           x == FlattenSeq(t.out)
           b == t.buf
<1>1. t \in Buffers /\ TextPut(t) = TextPut(s)
  BY HandedText
<1>2. WellCut(s) => WellCut(t) /\ (Len(s.buf) >= BufLen - 1 => Len(TextPut(s)) > BufLen - NumRoom)
                    /\ Len(t.buf) < BufLen
  <2>1. Len(s.buf) \in Nat /\ Handed(s).buf = <<>>
    BY DEF Buffers, Strings, Handed
  <2>2. Len(s.buf) >= BufLen - 1 => Len(s.buf) > BufLen - NumRoom
    BY <2>1, Sizes
  <2>3. ASSUME WellCut(s), Len(s.buf) >= BufLen - 1
        PROVE  WellCut(Handed(s)) /\ Len(TextPut(s)) > BufLen - NumRoom
    BY <2>2, <2>3, HandedCut
  <2>4. 0 < BufLen
    BY Sizes
  <2> QED
    BY <2>1, <2>3, <2>4, Sizes
<1>3. x \in Seq(Chars) /\ b \in Seq(Chars) /\ TextPut(t) = x \o b
  BY <1>1, TextPutType DEF TextPut
<1>4. r.out = t.out /\ r.buf = Append(b, c) /\ r \in Buffers
  <2>1. t.out \in Seq(Strings) /\ t = [out |-> t.out, buf |-> t.buf] /\ Append(b, c) \in Strings
    BY <1>1, <1>3 DEF Buffers, Strings
  <2>2. r = [t EXCEPT !.buf = Append(@, c)]
    BY DEF PutChar
  <2> HIDE DEF t, r
  <2> QED
    BY <1>1, <2>1, <2>2 DEF Buffers
<1> HIDE DEF t, r, x, b
<1>5. Append(b, c) = b \o <<c>> /\ <<c>> \in Seq(Chars) /\ Len(Append(b, c)) = Len(b) + 1
      /\ Len(b) \in Nat
  BY <1>3
<1>6. TextPut(r) = TextPut(s) \o <<c>>
  <2>1. (x \o b) \o <<c>> = x \o (b \o <<c>>)
    BY <1>3, <1>5, ConcatThrice
  <2> QED
    BY <1>1, <1>3, <1>4, <1>5, <2>1 DEF TextPut, x
<1>7. ASSUME WellCut(s) PROVE WellCut(r)
  <2>1. Len(r.buf) <= BufLen
    BY <1>2, <1>4, <1>5, <1>7, Sizes DEF b
  <2>2. ASSUME Len(TextPut(r)) <= BufLen - NumRoom PROVE r.out = <<>>
    <3> DEFINE y == TextPut(s)
    <3>1. y \in Seq(Chars)
      BY TextPutType
    <3> HIDE DEF y
    <3>2. Len(y \o <<c>>) = Len(y) + 1 /\ Len(y) \in Nat
      BY <1>5, <3>1
    <3>3. Len(TextPut(s)) <= BufLen - NumRoom
      BY <1>6, <2>2, <3>2, Sizes DEF y
    <3> QED
      BY <1>1, <1>2, <1>4, <1>7, <3>3 DEF WellCut
  <2> QED
    BY <1>2, <1>4, <1>7, <2>1, <2>2 DEF WellCut
<1> QED
  BY <1>4, <1>6, <1>7 DEF r

LEMMA PutsExist ==
  ASSUME NEW q, NEW t, q \in Seq(Chars), t \in Buffers
  PROVE  \E u : Puts(q, t, u)
<1> DEFINE n == Len(q)
           F == [p \in Buffers \X (1..n) |-> PutChar(p[1], q[p[2]])]
           h == CHOOSE g : g = [s \in SUBSET DOMAIN q |->
                                  IF s = {} THEN t ELSE PutChar(g[s \ {Max(s)}], q[Max(s)])]
           u == [k \in 0..n |-> h[1..k]]
<1>1. n \in Nat /\ DOMAIN q = 1..n /\ \A k \in 1..n : q[k] \in Chars
  OBVIOUS
<1> HIDE DEF n
<1>2. \A s \in Buffers, k \in 1..n : PutChar(s, q[k]) \in Buffers
  BY <1>1, PutCharText
<1>3. PICK g : Folded(Buffers, t, n, F, g)
  <2>1. F \in [Buffers \X (1..n) -> Buffers]
    BY <1>2
  <2> HIDE DEF F
  <2> QED
    BY <1>1, <2>1, FoldExists
<1>4. ASSUME NEW s \in SUBSET (1..n), s # {} PROVE Max(s) \in 1..n /\ s \ {Max(s)} \in SUBSET (1..n)
  BY <1>1, <1>4, MaxOfPart
<1>5. h = [s \in SUBSET DOMAIN q |-> IF s = {} THEN t ELSE PutChar(h[s \ {Max(s)}], q[Max(s)])]
  <2>1. ASSUME NEW s \in SUBSET (1..n)
        PROVE  g[s] = IF s = {} THEN t ELSE PutChar(g[s \ {Max(s)}], q[Max(s)])
    <3>1. CASE s = {}
      BY <3>1, <1>3 DEF Folded
    <3>2. CASE s # {}
      <4>1. g[s \ {Max(s)}] \in Buffers /\ Max(s) \in 1..n
        BY <1>3, <1>4, <3>2 DEF Folded
      <4>2. g[s] = F[<<g[s \ {Max(s)}], Max(s)>>]
        BY <1>3, <3>2 DEF Folded
      <4> QED
        BY <3>2, <4>1, <4>2
    <3> QED
      BY <3>1, <3>2
  <2>2. g = [s \in SUBSET (1..n) |-> g[s]]
    BY <1>3 DEF Folded
  <2>3. g = [s \in SUBSET DOMAIN q |-> IF s = {} THEN t ELSE PutChar(g[s \ {Max(s)}], q[Max(s)])]
    BY <1>1, <2>1, <2>2
  <2> QED
    BY <2>3
<1>6. FoldLeft(PutChar, t, q) = h[DOMAIN q]
  BY DEF FoldLeft, MapThenFoldSet
<1> HIDE DEF h
<1>7. u[0] = t
  BY <1>1, <1>5
<1>8. ASSUME NEW k \in 1..n PROVE u[k] = PutChar(u[k - 1], q[k])
  <2>1. Max(1..k) = k /\ 1..k # {} /\ (1..k) \ {k} = 1..(k - 1)
    <3>1. k \in Nat \ {0}
      OBVIOUS
    <3> QED
      BY <3>1, IntervalMax
  <2>2. 1..k \in SUBSET DOMAIN q
    BY <1>1
  <2>3. h[1..k] = PutChar(h[1..(k - 1)], q[k])
    BY <1>5, <2>1, <2>2
  <2>4. k \in 0..n /\ k - 1 \in 0..n
    BY <1>1
  <2> QED
    BY <2>3, <2>4
<1>9. \A k \in 0..n : u[k] \in Buffers
  <2> DEFINE S == {k \in 0..n : u[k] \in Buffers}
  <2>1. 0 \in S
    BY <1>1, <1>7
  <2>2. ASSUME NEW k \in 1..n, k - 1 \in S PROVE k \in S
    <3>1. u[k - 1] \in Buffers /\ k \in 0..n
      BY <2>2
    <3> HIDE DEF u
    <3> QED
      BY <1>2, <1>8, <3>1
  <2> HIDE DEF S
  <2>3. \A k \in 0..n : k \in S
    BY <1>1, <2>1, <2>2, UpTo
  <2> QED
    BY <2>3 DEF S
<1>10. FoldLeft(PutChar, t, q) = u[n]
  BY <1>1, <1>6
<1>11. u \in [0..n -> Buffers]
  BY <1>9
<1> HIDE DEF u
<1>12. Puts(q, t, u)
  BY <1>7, <1>8, <1>10, <1>11 DEF Puts, n
<1> QED
  BY <1>12

(* Characters one by one.                                                  *)
LEMMA PutsText ==
  ASSUME NEW q, NEW t, q \in Seq(Chars), t \in Buffers
  PROVE  /\ FoldLeft(PutChar, t, q) \in Buffers
         /\ TextPut(FoldLeft(PutChar, t, q)) = TextPut(t) \o q
         /\ WellCut(t) => WellCut(FoldLeft(PutChar, t, q))
<1> DEFINE n == Len(q)
           x == TextPut(t)
           Good(k, s) == TextPut(s) = x \o SubSeq(q, 1, k) /\ (WellCut(t) => WellCut(s))
<1>1. PICK u : Puts(q, t, u)
  BY PutsExist
<1>2. n \in Nat /\ x \in Seq(Chars) /\ (\A k \in 1..n : q[k] \in Chars) /\ q = SubSeq(q, 1, n)
      /\ SubSeq(q, 1, 0) = <<>> /\ x \o <<>> = x
  <2>1. x \in Seq(Chars)
    BY TextPutType
  <2> HIDE DEF x
  <2> QED
    BY <2>1, ConcatEmptySeq
<1>3. u \in [0..n -> Buffers] /\ u[0] = t /\ FoldLeft(PutChar, t, q) = u[n]
      /\ \A k \in 1..n : u[k] = PutChar(u[k - 1], q[k])
  BY <1>1 DEF Puts
<1> DEFINE S == {k \in 0..n : Good(k, u[k])}
<1>4. 0 \in S
  BY <1>2, <1>3
<1>5. ASSUME NEW k \in 1..n, k - 1 \in S PROVE k \in S
  <2> DEFINE s == u[k - 1]
             y == SubSeq(q, 1, k - 1)
             z == SubSeq(q, 1, k)
             c == q[k]
  <2>1. k - 1 \in 0..n /\ k \in 0..n
    BY <1>2
  <2>2. s \in Buffers /\ c \in Chars /\ TextPut(s) = x \o y /\ (WellCut(t) => WellCut(s))
    BY <1>2, <1>3, <1>5, <2>1
  <2>3. z = y \o <<c>> /\ y \in Seq(Chars) /\ <<c>> \in Seq(Chars)
    BY <1>2
  <2>4. u[k] = PutChar(s, c)
    BY <1>3
  <2> HIDE DEF s, y, z, c, x
  <2>5. TextPut(u[k]) = TextPut(s) \o <<c>> /\ (WellCut(s) => WellCut(u[k]))
    BY <2>2, <2>4, PutCharText
  <2>6. (x \o y) \o <<c>> = x \o (y \o <<c>>)
    BY <1>2, <2>3, ConcatThrice
  <2>7. TextPut(u[k]) = x \o z
    BY <2>2, <2>3, <2>5, <2>6
  <2> QED
    BY <2>1, <2>2, <2>5, <2>7 DEF z
<1> HIDE DEF S
<1>6. n \in S
  <2>1. n \in 0..n
    BY <1>2
  <2> QED
    BY <1>2, <1>4, <1>5, <2>1, UpTo
<1>7. TextPut(u[n]) = x \o q /\ (WellCut(t) => WellCut(u[n]))
  BY <1>2, <1>6 DEF S
<1>8. u[n] \in Buffers
  BY <1>2, <1>3
<1> QED
  BY <1>3, <1>7, <1>8

(* Digits, after the test for room.                                        *)
LEMMA PutDigitsText ==
  ASSUME NEW s, NEW d, s \in Buffers, d \in Seq(Chars), Len(d) <= NumRoom
  PROVE  /\ PutDigits(s, d) \in Buffers
         /\ TextPut(PutDigits(s, d)) = TextPut(s) \o d
         /\ WellCut(s) => WellCut(PutDigits(s, d))
<1> DEFINE full == d # <<>> /\ Len(s.buf) > BufLen - NumRoom
           t == IF full THEN Handed(s) ELSE s
           r == PutDigits(s, d)
           x == FlattenSeq(t.out)
           b == t.buf
<1>1. t \in Buffers /\ TextPut(t) = TextPut(s)
  BY HandedText
<1>2. Len(d) \in Nat /\ (d = <<>> => Len(d) = 0) /\ d \in Seq(Chars)
  OBVIOUS
<1>3. WellCut(s) => /\ WellCut(t) /\ (full => Len(TextPut(s)) > BufLen - NumRoom)
                    /\ Len(t.buf) + Len(d) <= BufLen
  <2>1. Len(s.buf) \in Nat /\ Handed(s).buf = <<>>
    BY DEF Buffers, Strings, Handed
  <2>2. ASSUME WellCut(s), full
        PROVE  WellCut(Handed(s)) /\ Len(TextPut(s)) > BufLen - NumRoom
    BY <2>2, HandedCut
  <2>3. CASE full
    BY <1>2, <2>1, <2>2, <2>3, Sizes
  <2>4. CASE ~full
    BY <1>2, <2>1, <2>4, Sizes DEF WellCut
  <2> QED
    BY <2>3, <2>4
<1>4. x \in Seq(Chars) /\ b \in Seq(Chars) /\ TextPut(t) = x \o b
  BY <1>1, TextPutType DEF TextPut
<1>5. r.out = t.out /\ r.buf = b \o d /\ r \in Buffers
  <2>1. t.out \in Seq(Strings) /\ t = [out |-> t.out, buf |-> t.buf] /\ b \o d \in Strings
    BY <1>1, <1>2, <1>4 DEF Buffers, Strings
  <2>2. r = [t EXCEPT !.buf = @ \o d]
    BY DEF PutDigits
  <2> HIDE DEF t, r
  <2> QED
    BY <1>1, <2>1, <2>2 DEF Buffers
<1> HIDE DEF t, r, x, b, full
<1>6. Len(b \o d) = Len(b) + Len(d) /\ Len(b) \in Nat
  BY <1>2, <1>4
<1>7. TextPut(r) = TextPut(s) \o d
  <2>1. (x \o b) \o d = x \o (b \o d)
    BY <1>2, <1>4, ConcatThrice
  <2> QED
    BY <1>1, <1>4, <1>5, <2>1 DEF TextPut, x
<1>8. ASSUME WellCut(s) PROVE WellCut(r)
  <2>1. Len(r.buf) <= BufLen
    BY <1>3, <1>5, <1>6, <1>8 DEF b
  <2>2. ASSUME Len(TextPut(r)) <= BufLen - NumRoom PROVE r.out = <<>>
    <3> DEFINE y == TextPut(s)
    <3>1. y \in Seq(Chars)
      BY TextPutType
    <3> HIDE DEF y
    <3>2. Len(y \o d) = Len(y) + Len(d) /\ Len(y) \in Nat
      BY <1>2, <3>1
    <3>3. Len(TextPut(s)) <= BufLen - NumRoom
      BY <1>2, <1>7, <2>2, <3>2, Sizes DEF y
    <3> QED
      BY <1>1, <1>3, <1>5, <1>8, <3>3 DEF WellCut
  <2> QED
    BY <1>3, <1>5, <1>8, <2>1, <2>2 DEF WellCut
<1> QED
  BY <1>5, <1>7, <1>8 DEF r

(* The items of a text.                                                    *)
Items == {e \in [before : Strings, digits : Strings] : Len(e.digits) <= NumRoom}

LEMMA PutItemText ==
  ASSUME NEW s, NEW e, s \in Buffers, e \in Items
  PROVE  /\ PutItem(s, e) \in Buffers
         /\ TextPut(PutItem(s, e)) = TextPut(s) \o (e.before \o e.digits)
         /\ WellCut(s) => WellCut(PutItem(s, e))
<1> DEFINE t == IF Len(s.buf) >= BufLen - 1 THEN Handed(s) ELSE s
           b == e.before
           d == e.digits
           r == FoldLeft(PutChar, t, b)
           x == TextPut(s)
<1>1. b \in Seq(Chars) /\ d \in Seq(Chars) /\ Len(d) <= NumRoom
  BY DEF Items, Strings
<1>2. t \in Buffers /\ TextPut(t) = TextPut(s)
  BY HandedText
<1>3. ASSUME WellCut(s) PROVE WellCut(t)
  <2>1. Len(s.buf) \in Nat
    BY DEF Buffers, Strings
  <2>2. Len(s.buf) >= BufLen - 1 => Len(s.buf) > BufLen - NumRoom
    BY <2>1, Sizes
  <2> QED
    BY <1>3, <2>2, HandedCut
<1>4. PutItem(s, e) = PutDigits(r, d)
  BY DEF PutItem
<1>5. x \in Seq(Chars)
  BY TextPutType
<1> HIDE DEF t, b, d, x
<1>6. r \in Buffers /\ TextPut(r) = TextPut(t) \o b /\ (WellCut(t) => WellCut(r))
  BY <1>1, <1>2, PutsText
<1> HIDE DEF r
<1>7. /\ PutDigits(r, d) \in Buffers
      /\ TextPut(PutDigits(r, d)) = TextPut(r) \o d
      /\ WellCut(r) => WellCut(PutDigits(r, d))
  BY <1>1, <1>6, PutDigitsText
<1>8. (x \o b) \o d = x \o (b \o d)
  BY <1>1, <1>5, ConcatThrice
<1>9. TextPut(PutItem(s, e)) = x \o (b \o d)
  BY <1>2, <1>4, <1>6, <1>7, <1>8 DEF x
<1> QED
  BY <1>3, <1>4, <1>6, <1>7, <1>9 DEF x, b, d

(* u puts q, item by item.                                                 *)
ItemPuts(q, t, u) ==
  /\ u \in [0..Len(q) -> Buffers] /\ u[0] = t
  /\ \A k \in 1..Len(q) : u[k] = PutItem(u[k - 1], q[k])
  /\ FoldLeft(PutItem, t, q) = u[Len(q)]

LEMMA ItemPutsExist ==
  ASSUME NEW q, NEW t, q \in Seq(Items), t \in Buffers
  PROVE  \E u : ItemPuts(q, t, u)
<1> DEFINE n == Len(q)
           F == [p \in Buffers \X (1..n) |-> PutItem(p[1], q[p[2]])]
           h == CHOOSE g : g = [s \in SUBSET DOMAIN q |->
                                  IF s = {} THEN t ELSE PutItem(g[s \ {Max(s)}], q[Max(s)])]
           u == [k \in 0..n |-> h[1..k]]
<1>1. n \in Nat /\ DOMAIN q = 1..n /\ \A k \in 1..n : q[k] \in Items
  OBVIOUS
<1> HIDE DEF n
<1>2. \A s \in Buffers, k \in 1..n : PutItem(s, q[k]) \in Buffers
  BY <1>1, PutItemText
<1>3. PICK g : Folded(Buffers, t, n, F, g)
  <2>1. F \in [Buffers \X (1..n) -> Buffers]
    BY <1>2
  <2> HIDE DEF F
  <2> QED
    BY <1>1, <2>1, FoldExists
<1>4. ASSUME NEW s \in SUBSET (1..n), s # {} PROVE Max(s) \in 1..n /\ s \ {Max(s)} \in SUBSET (1..n)
  BY <1>1, <1>4, MaxOfPart
<1>5. h = [s \in SUBSET DOMAIN q |-> IF s = {} THEN t ELSE PutItem(h[s \ {Max(s)}], q[Max(s)])]
  <2>1. ASSUME NEW s \in SUBSET (1..n)
        PROVE  g[s] = IF s = {} THEN t ELSE PutItem(g[s \ {Max(s)}], q[Max(s)])
    <3>1. CASE s = {}
      BY <3>1, <1>3 DEF Folded
    <3>2. CASE s # {}
      <4>1. g[s \ {Max(s)}] \in Buffers /\ Max(s) \in 1..n
        BY <1>3, <1>4, <3>2 DEF Folded
      <4>2. g[s] = F[<<g[s \ {Max(s)}], Max(s)>>]
        BY <1>3, <3>2 DEF Folded
      <4> QED
        BY <3>2, <4>1, <4>2
    <3> QED
      BY <3>1, <3>2
  <2>2. g = [s \in SUBSET (1..n) |-> g[s]]
    BY <1>3 DEF Folded
  <2>3. g = [s \in SUBSET DOMAIN q |-> IF s = {} THEN t ELSE PutItem(g[s \ {Max(s)}], q[Max(s)])]
    BY <1>1, <2>1, <2>2
  <2> QED
    BY <2>3
<1>6. FoldLeft(PutItem, t, q) = h[DOMAIN q]
  BY DEF FoldLeft, MapThenFoldSet
<1> HIDE DEF h
<1>7. u[0] = t
  BY <1>1, <1>5
<1>8. ASSUME NEW k \in 1..n PROVE u[k] = PutItem(u[k - 1], q[k])
  <2>1. Max(1..k) = k /\ 1..k # {} /\ (1..k) \ {k} = 1..(k - 1)
    <3>1. k \in Nat \ {0}
      OBVIOUS
    <3> QED
      BY <3>1, IntervalMax
  <2>2. 1..k \in SUBSET DOMAIN q
    BY <1>1
  <2>3. h[1..k] = PutItem(h[1..(k - 1)], q[k])
    BY <1>5, <2>1, <2>2
  <2>4. k \in 0..n /\ k - 1 \in 0..n
    BY <1>1
  <2> QED
    BY <2>3, <2>4
<1>9. \A k \in 0..n : u[k] \in Buffers
  <2> DEFINE S == {k \in 0..n : u[k] \in Buffers}
  <2>1. 0 \in S
    BY <1>1, <1>7
  <2>2. ASSUME NEW k \in 1..n, k - 1 \in S PROVE k \in S
    <3>1. u[k - 1] \in Buffers /\ k \in 0..n
      BY <2>2
    <3> HIDE DEF u
    <3> QED
      BY <1>2, <1>8, <3>1
  <2> HIDE DEF S
  <2>3. \A k \in 0..n : k \in S
    BY <1>1, <2>1, <2>2, UpTo
  <2> QED
    BY <2>3 DEF S
<1>10. FoldLeft(PutItem, t, q) = u[n]
  BY <1>1, <1>6
<1>11. u \in [0..n -> Buffers]
  BY <1>9
<1> HIDE DEF u
<1>12. ItemPuts(q, t, u)
  BY <1>7, <1>8, <1>10, <1>11 DEF ItemPuts, n
<1> QED
  BY <1>12


LEMMA FormatItems ==
  ASSUME NEW f \in Formats
  PROVE  f \in Seq(Items)
<1>1. f \in Seq([before : Strings, digits : Strings])
      /\ \A i \in DOMAIN f : Len(f[i].digits) <= NumRoom
  BY ConsoleShape DEF Strings
<1> DEFINE T == [before : Strings, digits : Strings]
<1>2. f \in Seq(T)
  BY <1>1
<1> HIDE DEF T
<1>3. Len(f) \in Nat /\ f \in [1..Len(f) -> T] /\ DOMAIN f = 1..Len(f)
  BY <1>2
<1>4. \A i \in 1..Len(f) : f[i] \in Items
  BY <1>1, <1>3 DEF Items, T
<1>5. f \in [1..Len(f) -> Items]
  BY <1>3, <1>4
<1> HIDE DEF Items
<1> QED
  BY <1>3, <1>5

(* The pieces of a text are the text, none of them empty or longer than    *)
(* local_buf, and a text that leaves NumRoom free is one piece.            *)
LEMMA PiecesText ==
  ASSUME NEW f \in Formats
  PROVE  /\ Pieces(f) \in Seq(Strings) /\ TextOf(f) \in Seq(Chars)
         /\ FlattenSeq(Pieces(f)) = TextOf(f)
         /\ \A i \in 1..Len(Pieces(f)) : Len(Pieces(f)[i]) \in 1..BufLen
         /\ Len(TextOf(f)) <= BufLen - NumRoom => Len(Pieces(f)) <= 1
<1> DEFINE n == Len(f)
           t == [out |-> <<>>, buf |-> <<>>]
           q == [i \in DOMAIN f |-> f[i].before \o f[i].digits]
           s == FoldLeft(PutItem, t, f)
<1>1. f \in Seq(Items)
  BY FormatItems
<1>2. n \in Nat /\ DOMAIN f = 1..n /\ \A k \in 1..n : f[k] \in Items
  <2> HIDE DEF Items
  <2> QED
    BY <1>1
<1>3. q \in Seq(Seq(Chars)) /\ Len(q) = n /\ \A k \in 1..n : q[k] = f[k].before \o f[k].digits
  <2>1. \A k \in 1..n : q[k] = f[k].before \o f[k].digits
    BY <1>2
  <2>2. \A k \in 1..n : q[k] \in Seq(Chars)
    <3> TAKE k \in 1..n
    <3>1. f[k].before \in Seq(Chars) /\ f[k].digits \in Seq(Chars)
      BY <1>2 DEF Items, Strings
    <3> QED
      BY <2>1, <3>1
  <2> DEFINE T == Seq(Chars)
  <2>3. q = [k \in 1..n |-> q[k]]
    BY <1>2
  <2> HIDE DEF T, q, n
  <2>4. q \in [1..n -> T]
    BY <2>2, <2>3 DEF T
  <2>5. q \in Seq(T) /\ Len(q) = n
    BY <1>2, <2>4
  <2> QED
    BY <2>1, <2>5 DEF T
<1>4. t \in Buffers /\ TextPut(t) = <<>> /\ WellCut(t)
  <2>1. <<>> \in Strings /\ <<>> \in Seq(Strings)
    BY DEF Strings
  <2>2. t \in Buffers /\ t.out = <<>> /\ t.buf = <<>>
    BY <2>1 DEF Buffers
  <2>3. TextPut(t) = <<>>
    BY <2>2, TextPutType
  <2> HIDE DEF t
  <2>4. WellCut(t)
    BY <2>2, Sizes DEF WellCut
  <2> QED
    BY <2>2, <2>3, <2>4
<1> HIDE DEF n, t, q
<1>5. PICK u : ItemPuts(f, t, u)
  BY <1>1, <1>4, ItemPutsExist
<1>6. PICK v : Gathers(Chars, q, v)
  BY <1>3, FlattenGathers
<1>7. u \in [0..n -> Buffers] /\ u[0] = t /\ s = u[n]
      /\ \A k \in 1..n : u[k] = PutItem(u[k - 1], f[k])
  BY <1>5 DEF ItemPuts, n
<1>8. v \in [0..n -> Seq(Chars)] /\ v[0] = <<>> /\ FlattenSeq(q) = v[n]
      /\ \A k \in 1..n : v[k] = v[k - 1] \o q[k]
  BY <1>3, <1>6 DEF Gathers
<1> DEFINE S == {k \in 0..n : TextPut(u[k]) = v[k] /\ WellCut(u[k])}
<1>9. n \in S
  <2>1. 0 \in S /\ n \in 0..n
    BY <1>2, <1>4, <1>7, <1>8
  <2>2. ASSUME NEW k \in 1..n, k - 1 \in S PROVE k \in S
    <3> DEFINE w == u[k - 1]
               e == f[k]
    <3>1. k - 1 \in 0..n /\ k \in 0..n
      BY <1>2
    <3>2. w \in Buffers /\ e \in Items /\ TextPut(w) = v[k - 1] /\ WellCut(w) /\ u[k] = PutItem(w, e)
      BY <1>2, <1>7, <2>2, <3>1
    <3>3. q[k] = e.before \o e.digits /\ v[k] = v[k - 1] \o q[k]
      BY <1>3, <1>8
    <3> HIDE DEF w, e
    <3>4. TextPut(u[k]) = TextPut(w) \o (e.before \o e.digits) /\ WellCut(u[k])
      BY <3>2, PutItemText
    <3>5. TextPut(u[k]) = v[k]
      BY <3>2, <3>3, <3>4
    <3> QED
      BY <3>1, <3>4, <3>5
  <2> HIDE DEF S
  <2> QED
    BY <1>2, <2>1, <2>2, UpTo
<1>10. s \in Buffers /\ TextPut(s) = FlattenSeq(q) /\ WellCut(s)
  <2>1. u[n] \in Buffers
    BY <1>2, <1>7
  <2> QED
    BY <1>7, <1>8, <1>9, <2>1
<1>11. TextOf(f) = FlattenSeq(q) /\ FlattenSeq(q) \in Seq(Chars)
  BY <1>3, FlattenType DEF TextOf, q
<1>12. Pieces(f) = IF s.buf = <<>> THEN s.out ELSE Handed(s).out
  BY DEF Pieces, t
<1> HIDE DEF s
<1>13. s.out \in Seq(Strings) /\ s.buf \in Strings /\ FlattenSeq(s.out) \in Seq(Chars)
  BY <1>10, TextPutType DEF Buffers
<1>14. \A i \in 1..Len(s.out) : Len(s.out[i]) \in 1..BufLen
  BY <1>10 DEF WellCut
<1>15. Len(TextOf(f)) <= BufLen - NumRoom => s.out = <<>>
  BY <1>10, <1>11 DEF WellCut
<1>16. CASE s.buf = <<>>
  <2>1. TextPut(s) = FlattenSeq(s.out)
    BY <1>13, <1>16, ConcatEmptySeq DEF TextPut
  <2> QED
    BY <1>10, <1>11, <1>12, <1>13, <1>14, <1>15, <1>16, <2>1
<1>17. CASE s.buf # <<>>
  <2> DEFINE o == s.out
             b == s.buf
             p == Append(o, b)
  <2>1. Pieces(f) = p
    BY <1>12, <1>17 DEF Handed
  <2>2. FlattenSeq(p) = FlattenSeq(o) \o b
    BY <1>13, FlattenAppend DEF Strings
  <2>3. FlattenSeq(p) = TextOf(f)
    BY <1>10, <1>11, <2>2 DEF TextPut
  <2>4. Len(b) \in 1..BufLen
    BY <1>10, <1>13, <1>17, Sizes DEF WellCut, Strings
  <2>5. p \in Seq(Strings) /\ Len(p) = Len(o) + 1 /\ Len(o) \in Nat
        /\ \A i \in 1..(Len(o) + 1) : p[i] = IF i = Len(o) + 1 THEN b ELSE o[i]
    <3> HIDE DEF o, b, Strings
    <3>1. o \in Seq(Strings) /\ b \in Strings
      BY <1>13 DEF o, b
    <3> QED
      BY <3>1
  <2> HIDE DEF p
  <2>6. ASSUME NEW i \in 1..Len(p) PROVE Len(p[i]) \in 1..BufLen
    <3>1. i = Len(o) + 1 \/ i \in 1..Len(o)
      BY <2>5
    <3> HIDE DEF o, b
    <3> QED
      BY <1>14, <2>4, <2>5, <3>1 DEF o
  <2>7. Len(TextOf(f)) <= BufLen - NumRoom => Len(p) <= 1
    BY <1>15, <2>5
  <2> QED
    BY <1>11, <2>1, <2>3, <2>5, <2>6, <2>7
<1> QED
  BY <1>16, <1>17

-----------------------------------------------------------------------------
(* The log of characters. At(g, w, n) is where the n-th text of w is in    *)
(* the log g, Nth how much of it has come by place i, Group the places of  *)
(* the piece that place i belongs to.                                      *)
Entries == [call : Writers \X (Nat \ {0}), left : Nat, c : Chars]
At(g, w, n) == {i \in DOMAIN g : g[i].call = <<w, n>>}
Nth(g, w, n, i) == Cardinality({j \in At(g, w, n) : j <= i})
Group(g, i) == {j \in DOMAIN g : g[j].call = g[i].call /\ g[j].left = g[i].left}

(* The text has got into g, but for its end rest.                          *)
TextIn(g, w, n, text, rest) ==
  /\ Cardinality(At(g, w, n)) + Len(rest) = Len(text)
  /\ \A k \in 1..Len(rest) : text[Cardinality(At(g, w, n)) + k] = rest[k]
  /\ \A i \in At(g, w, n) : g[i].c = text[Nth(g, w, n, i)]

Short(text) == Len(text) <= BufLen - NumRoom
Untorn(g, w, n) == \A i, j \in At(g, w, n) : i..j \subseteq At(g, w, n)

(* What kprintf has yet to hand over of the n-th text of w.                *)
Rest(w, n) == IF n = Len(calls[w]) THEN FlattenSeq(pieces[w]) ELSE <<>>

ConsoleType ==
  /\ pieces \in [Writers -> Seq(Strings)]
  /\ calls \in [Writers -> Seq(Formats)]
  /\ log \in Seq(Entries)

(* The pieces a kprintf holds are those that come next: it has a text to   *)
(* print, they fit, and what it handed over before is marked higher.       *)
PiecesInv ==
  \A w \in Writers :
    /\ pieces[w] # <<>> => calls[w] # <<>> /\ ~Short(TextOf(calls[w][Len(calls[w])]))
    /\ \A i \in 1..Len(pieces[w]) : Len(pieces[w][i]) \in 1..BufLen
    /\ \A n \in Nat \ {0} : \A i \in At(log, w, n) :
         n <= Len(calls[w]) /\ (n = Len(calls[w]) => log[i].left > Len(pieces[w]))

CallsInv ==
  \A w \in Writers : \A n \in 1..Len(calls[w]) :
    /\ TextIn(log, w, n, TextOf(calls[w][n]), Rest(w, n))
    /\ Short(TextOf(calls[w][n])) => Untorn(log, w, n)

ConsoleInv == ConsoleType /\ PiecesInv /\ CallsInv /\ BufferFits

(* klog_write of p appends it.                                             *)
Extend(g, w, n, l, p) ==
  g \o [i \in 1..Len(p) |-> [call |-> <<w, n>>, left |-> l, c |-> p[i]]]

(* h is g with p put behind it.                                            *)
Extends(g, w, n, l, p, h, m, L) ==
  /\ h \in Seq(Entries) /\ Len(h) = m + L
  /\ m \in Nat /\ L \in Nat
  /\ DOMAIN g = 1..m /\ DOMAIN h = 1..(m + L)
  /\ \A i \in 1..m : h[i] = g[i]
  /\ \A i \in (m + 1)..(m + L) :
       h[i].call = <<w, n>> /\ h[i].left = l /\ h[i].c = p[i - m]

LEMMA ExtendLog ==
  ASSUME NEW g, NEW w \in Writers, NEW n \in Nat \ {0}, NEW l \in Nat, NEW p,
         g \in Seq(Entries), p \in Seq(Chars), NEW h, h = Extend(g, w, n, l, p)
  PROVE  Extends(g, w, n, l, p, h, Len(g), Len(p))
<1> DEFINE m == Len(g)
           L == Len(p)
           x == [i \in 1..L |-> [call |-> <<w, n>>, left |-> l, c |-> p[i]]]
<1>1. m \in Nat /\ L \in Nat /\ DOMAIN g = 1..m /\ \A i \in 1..L : p[i] \in Chars
  OBVIOUS
<1>2. \A i \in 1..L : x[i] = [call |-> <<w, n>>, left |-> l, c |-> p[i]] /\ x[i] \in Entries
  BY <1>1 DEF Entries
<1>3. x = [i \in 1..L |-> x[i]]
  OBVIOUS
<1> HIDE DEF x, L, Entries
<1>4. x \in [1..L -> Entries]
  BY <1>2, <1>3
<1>5. x \in Seq(Entries) /\ Len(x) = L
  BY <1>1, <1>4
<1> HIDE DEF m
<1>6. h = g \o x
  BY DEF Extend, x, L
<1>7. h \in Seq(Entries) /\ Len(h) = m + L
      /\ \A i \in 1..(m + L) : h[i] = IF i <= m THEN g[i] ELSE x[i - m]
  BY <1>5, <1>6, ConcatProperties DEF m
<1>8. DOMAIN h = 1..(m + L)
  BY <1>7
<1>9. \A i \in 1..m : h[i] = g[i]
  BY <1>1, <1>7
<1>10. ASSUME NEW i \in (m + 1)..(m + L)
       PROVE  h[i].call = <<w, n>> /\ h[i].left = l /\ h[i].c = p[i - m]
  <2>1. i \in 1..(m + L) /\ ~(i <= m) /\ i - m \in 1..L
    BY <1>1
  <2>2. h[i] = x[i - m]
    BY <1>7, <2>1
  <2>3. x[i - m] = [call |-> <<w, n>>, left |-> l, c |-> p[i - m]]
    BY <1>2, <2>1
  <2> QED
    BY <2>2, <2>3
<1> QED
  BY <1>1, <1>7, <1>8, <1>9, <1>10 DEF Extends, m, L

(* Where another text is in the log does not change.                       *)
LEMMA ExtendOther ==
  ASSUME NEW g, NEW w \in Writers, NEW n \in Nat \ {0}, NEW l \in Nat, NEW p,
         g \in Seq(Entries), p \in Seq(Chars),
         NEW h, h = Extend(g, w, n, l, p), NEW v, NEW k, <<v, k>> # <<w, n>>
  PROVE  /\ At(h, v, k) = At(g, v, k)
         /\ \A i \in At(g, v, k) : h[i] = g[i]
<1> DEFINE m == Len(g)
           L == Len(p)
<1>1. /\ m \in Nat /\ L \in Nat
      /\ DOMAIN g = 1..m /\ DOMAIN h = 1..(m + L)
      /\ \A i \in 1..m : h[i] = g[i]
      /\ \A i \in (m + 1)..(m + L) :
           h[i].call = <<w, n>> /\ h[i].left = l /\ h[i].c = p[i - m]
  <2>1. Extends(g, w, n, l, p, h, m, L)
    BY ExtendLog
  <2> QED
    BY <2>1 DEF Extends
<1> HIDE DEF m, L
<1>2. \A i \in DOMAIN h : i \in 1..m \/ i \in (m + 1)..(m + L)
  BY <1>1
<1>3. \A i \in DOMAIN h : i \in 1..m \/ h[i].call = <<w, n>>
  BY <1>1, <1>2
<1>4. \A i \in 1..m : i \in DOMAIN g /\ i \in DOMAIN h /\ h[i] = g[i]
  BY <1>1
<1>5. At(h, v, k) = At(g, v, k)
  BY <1>1, <1>3, <1>4 DEF At
<1>6. \A i \in At(g, v, k) : h[i] = g[i]
  BY <1>1, <1>4 DEF At
<1> QED
  BY <1>5, <1>6

LEMMA TextKept ==
  ASSUME NEW g, NEW w \in Writers, NEW n \in Nat \ {0}, NEW l \in Nat, NEW p,
         g \in Seq(Entries), p \in Seq(Chars),
         NEW h, h = Extend(g, w, n, l, p),
         NEW v, NEW k, NEW text, NEW rest, <<v, k>> # <<w, n>>
  PROVE  /\ TextIn(g, v, k, text, rest) => TextIn(h, v, k, text, rest)
         /\ Untorn(g, v, k) => Untorn(h, v, k)
<1>1. At(h, v, k) = At(g, v, k) /\ \A i \in At(g, v, k) : h[i] = g[i]
  BY ExtendOther
<1>2. \A i : Nth(h, v, k, i) = Nth(g, v, k, i)
  BY <1>1 DEF Nth
<1>3. TextIn(g, v, k, text, rest) => TextIn(h, v, k, text, rest)
  BY <1>1, <1>2 DEF TextIn
<1>4. Untorn(g, v, k) => Untorn(h, v, k)
  BY <1>1 DEF Untorn
<1> QED
  BY <1>3, <1>4

(* Where the text itself is: A before, c places in all.                    *)
Lengthens(g, w, n, p, h, m, L, A, c) ==
  /\ At(h, w, n) = A \cup ((m + 1)..(m + L))
  /\ A \subseteq 1..m /\ c \in Nat
  /\ Cardinality(At(h, w, n)) = c + L
  /\ \A i \in A : Nth(h, w, n, i) = Nth(g, w, n, i) /\ h[i] = g[i]
  /\ \A k \in 1..L : Nth(h, w, n, m + k) = c + k /\ h[m + k].c = p[k]

LEMMA ExtendOwn ==
  ASSUME NEW g, NEW w \in Writers, NEW n \in Nat \ {0}, NEW l \in Nat, NEW p,
         g \in Seq(Entries), p \in Seq(Chars), NEW h, h = Extend(g, w, n, l, p)
  PROVE  Lengthens(g, w, n, p, h, Len(g), Len(p), At(g, w, n), Cardinality(At(g, w, n)))
<1> DEFINE m == Len(g)
           L == Len(p)
           A == At(g, w, n)
           c == Cardinality(A)
<1>1. /\ m \in Nat /\ L \in Nat
      /\ DOMAIN g = 1..m /\ DOMAIN h = 1..(m + L)
      /\ \A i \in 1..m : h[i] = g[i]
      /\ \A i \in (m + 1)..(m + L) :
           h[i].call = <<w, n>> /\ h[i].left = l /\ h[i].c = p[i - m]
  <2>1. Extends(g, w, n, l, p, h, m, L)
    BY ExtendLog
  <2> QED
    BY <2>1 DEF Extends
<1>2. A \subseteq 1..m
  BY <1>1 DEF At
<1>3. IsFiniteSet(A) /\ c \in Nat
  <2>1. IsFiniteSet(1..m)
    <3>1. 1 \in Int /\ m \in Int
      BY <1>1
    <3> QED
      BY <3>1, FS_Interval
  <2>2. IsFiniteSet(A)
    BY <1>2, <2>1, FS_Subset
  <2> QED
    BY <2>2, FS_CardinalityType
<1>4. At(h, w, n) = A \cup ((m + 1)..(m + L))
  <2> HIDE DEF m, L
  <2>1. \A i \in DOMAIN h : i \in 1..m \/ i \in (m + 1)..(m + L)
    BY <1>1
  <2>2. \A i \in (m + 1)..(m + L) : i \in DOMAIN h /\ h[i].call = <<w, n>>
    BY <1>1
  <2>3. \A i \in 1..m : i \in DOMAIN g /\ i \in DOMAIN h /\ h[i] = g[i]
    BY <1>1
  <2> QED
    BY <1>1, <2>1, <2>2, <2>3 DEF At
<1> HIDE DEF m, L, A, c
<1>5. ASSUME NEW k \in 0..L
      PROVE  Cardinality(A \cup ((m + 1)..(m + k))) = c + k
  <2> DEFINE B == (m + 1)..(m + k)
  <2>1. IsFiniteSet(B) /\ Cardinality(B) = k
    <3>1. m + 1 \in Int /\ m + k \in Int
      BY <1>1
    <3>2. IsFiniteSet(B) /\ Cardinality(B) = IF m + 1 > m + k THEN 0 ELSE (m + k) - (m + 1) + 1
      BY <3>1, FS_Interval
    <3> QED
      BY <1>1, <3>2
  <2>2. A \cap B = {}
    BY <1>1, <1>2
  <2> HIDE DEF B
  <2>3. Cardinality(A \cup B) = Cardinality(A) + Cardinality(B) - Cardinality(A \cap B)
    BY <1>3, <2>1, FS_Union
  <2>4. Cardinality(A \cap B) = 0
    BY <2>2, FS_EmptySet
  <2>5. Cardinality(A \cup B) = c + k
    BY <1>3, <2>1, <2>3, <2>4 DEF c
  <2> QED
    BY <2>5 DEF B
<1>6. Cardinality(At(h, w, n)) = c + L
  <2>1. L \in 0..L
    BY <1>1
  <2> QED
    BY <1>4, <1>5, <2>1
<1>7. ASSUME NEW i \in A PROVE Nth(h, w, n, i) = Nth(g, w, n, i) /\ h[i] = g[i]
  <2>1. {j \in At(h, w, n) : j <= i} = {j \in A : j <= i}
    <3>1. i \in Nat /\ i <= m
      BY <1>1, <1>2
    <3>2. \A j \in (m + 1)..(m + L) : ~(j <= i)
      BY <1>1, <3>1
    <3> QED
      BY <1>4, <3>2
  <2> QED
    BY <1>1, <1>2, <2>1 DEF Nth, A
<1>8. ASSUME NEW k \in 1..L PROVE Nth(h, w, n, m + k) = c + k /\ h[m + k].c = p[k]
  <2>1. {j \in At(h, w, n) : j <= m + k} = A \cup ((m + 1)..(m + k))
    <3>1. \A j \in A : j <= m + k
      BY <1>1, <1>2
    <3>2. \A j : j \in (m + 1)..(m + L) /\ j <= m + k <=> j \in (m + 1)..(m + k)
      BY <1>1
    <3> QED
      BY <1>4, <3>1, <3>2
  <2>2. k \in 0..L
    BY <1>1
  <2>3. Nth(h, w, n, m + k) = c + k
    BY <1>5, <2>1, <2>2 DEF Nth
  <2> DEFINE i == m + k
  <2>4. i \in (m + 1)..(m + L) /\ i - m = k
    BY <1>1
  <2> HIDE DEF i
  <2>5. h[i].c = p[i - m]
    BY <1>1, <2>4
  <2> QED
    BY <2>3, <2>4, <2>5 DEF i
<1> QED
  BY <1>2, <1>3, <1>4, <1>6, <1>7, <1>8 DEF Lengthens, m, L, A, c

(* The text gets on by p.                                                  *)
LEMMA TextGrows ==
  ASSUME NEW g, NEW w \in Writers, NEW n \in Nat \ {0}, NEW l \in Nat, NEW p,
         g \in Seq(Entries), p \in Seq(Chars), NEW h, h = Extend(g, w, n, l, p),
         NEW text, NEW r, r \in Seq(Chars), TextIn(g, w, n, text, p \o r)
  PROVE  TextIn(h, w, n, text, r)
<1> DEFINE m == Len(g)
           L == Len(p)
           A == At(g, w, n)
           c == Cardinality(A)
           q == p \o r
<1>1. /\ At(h, w, n) = A \cup ((m + 1)..(m + L))
      /\ A \subseteq 1..m /\ c \in Nat
      /\ Cardinality(At(h, w, n)) = c + L
      /\ \A i \in A : Nth(h, w, n, i) = Nth(g, w, n, i) /\ h[i] = g[i]
      /\ \A k \in 1..L : Nth(h, w, n, m + k) = c + k /\ h[m + k].c = p[k]
  <2>1. Lengthens(g, w, n, p, h, m, L, A, c)
    BY ExtendOwn
  <2> QED
    BY <2>1 DEF Lengthens
<1>2. m \in Nat /\ L \in Nat /\ Len(r) \in Nat
  OBVIOUS
<1>3. Len(q) = L + Len(r)
      /\ \A k \in 1..(L + Len(r)) : q[k] = IF k <= L THEN p[k] ELSE r[k - L]
  BY ConcatProperties
<1>4. /\ c + Len(q) = Len(text)
      /\ \A k \in 1..Len(q) : text[c + k] = q[k]
      /\ \A i \in A : g[i].c = text[Nth(g, w, n, i)]
  BY DEF TextIn
<1> HIDE DEF m, L, A, c, q
<1>5. Cardinality(At(h, w, n)) + Len(r) = Len(text)
  BY <1>1, <1>2, <1>3, <1>4
<1>6. ASSUME NEW k \in 1..Len(r) PROVE text[Cardinality(At(h, w, n)) + k] = r[k]
  <2> DEFINE j == L + k
  <2>1. j \in 1..(L + Len(r)) /\ ~(j <= L) /\ j - L = k /\ c + j = (c + L) + k
    BY <1>1, <1>2
  <2> HIDE DEF j
  <2>2. text[c + j] = r[j - L]
    BY <1>3, <1>4, <2>1
  <2> QED
    BY <1>1, <2>1, <2>2
<1>7. ASSUME NEW i \in At(h, w, n) PROVE h[i].c = text[Nth(h, w, n, i)]
  <2>1. CASE i \in A
    BY <1>1, <1>4, <2>1
  <2>2. CASE i \in (m + 1)..(m + L)
    <3> DEFINE k == i - m
    <3>1. k \in 1..L /\ m + k = i /\ k \in 1..(L + Len(r)) /\ k <= L
      BY <1>2, <2>2
    <3> HIDE DEF k
    <3>2. h[m + k].c = p[k] /\ Nth(h, w, n, m + k) = c + k
      BY <1>1, <3>1
    <3>3. text[c + k] = p[k]
      BY <1>3, <1>4, <3>1
    <3> QED
      BY <3>1, <3>2, <3>3
  <2> QED
    BY <1>1, <2>1, <2>2
<1> QED
  BY <1>5, <1>6, <1>7 DEF TextIn

(* The first piece of a text is not torn.                                  *)
LEMMA UntornFirst ==
  ASSUME NEW g, NEW w \in Writers, NEW n \in Nat \ {0}, NEW l \in Nat, NEW p,
         g \in Seq(Entries), p \in Seq(Chars), NEW h, h = Extend(g, w, n, l, p),
         At(g, w, n) = {}
  PROVE  Untorn(h, w, n)
<1> DEFINE m == Len(g)
           L == Len(p)
           c == Cardinality(At(g, w, n))
<1>1. At(h, w, n) = At(g, w, n) \cup ((m + 1)..(m + L))
  <2>1. Lengthens(g, w, n, p, h, m, L, At(g, w, n), c)
    BY ExtendOwn
  <2> QED
    BY <2>1 DEF Lengthens
<1>2. m \in Nat /\ L \in Nat
  OBVIOUS
<1> HIDE DEF m, L, c
<1>3. At(h, w, n) = (m + 1)..(m + L)
  BY <1>1
<1> QED
  BY <1>2, <1>3 DEF Untorn

GroupsFit(g) == \A i \in DOMAIN g : Cardinality(Group(g, i)) <= BufLen
Unmarked(g, w, n, l) == \A i \in At(g, w, n) : g[i].left # l

(* A piece of its own mark is a group of its own.                          *)
LEMMA GroupsGrow ==
  ASSUME NEW g, NEW w \in Writers, NEW n \in Nat \ {0}, NEW l \in Nat, NEW p,
         g \in Seq(Entries), p \in Seq(Chars), NEW h, h = Extend(g, w, n, l, p),
         Len(p) <= BufLen, Unmarked(g, w, n, l), GroupsFit(g)
  PROVE  GroupsFit(h)
<1> DEFINE m == Len(g)
           L == Len(p)
           B == (m + 1)..(m + L)
<1>1. Extends(g, w, n, l, p, h, m, L)
  BY ExtendLog
<1> HIDE DEF m, L
<1>2. /\ m \in Nat /\ L \in Nat
      /\ DOMAIN g = 1..m /\ DOMAIN h = 1..(m + L)
      /\ \A i \in 1..m : h[i] = g[i]
      /\ \A i \in B : h[i].call = <<w, n>> /\ h[i].left = l
  BY <1>1 DEF Extends
<1>3. DOMAIN h = DOMAIN g \cup B
  BY <1>2
<1>4. /\ \A i \in DOMAIN g : ~(g[i].call = <<w, n>> /\ g[i].left = l)
      /\ \A i \in DOMAIN g : Cardinality(Group(g, i)) <= BufLen
  BY DEF At, Unmarked, GroupsFit
<1> SUFFICES ASSUME NEW i \in DOMAIN h PROVE Cardinality(Group(h, i)) <= BufLen
  BY DEF GroupsFit
<1>5. CASE i \in DOMAIN g
  <2>1. ASSUME NEW j \in Group(h, i) PROVE j \in Group(g, i)
    <3>1. j \in DOMAIN h /\ h[j].call = g[i].call /\ h[j].left = g[i].left
      BY <1>2, <1>5, <2>1 DEF Group
    <3>2. j \notin B
      BY <1>2, <1>4, <1>5, <3>1
    <3>3. j \in DOMAIN g /\ h[j] = g[j]
      BY <1>2, <1>3, <3>1, <3>2
    <3> QED
      BY <3>1, <3>3 DEF Group
  <2>2. ASSUME NEW j \in Group(g, i) PROVE j \in Group(h, i)
    BY <1>2, <1>3, <1>5, <2>2 DEF Group
  <2>3. Group(h, i) = Group(g, i)
    BY <2>1, <2>2
  <2> QED
    BY <1>4, <1>5, <2>3
<1>6. CASE i \in B
  <2>1. ASSUME NEW j \in Group(h, i) PROVE j \in B
    <3>1. j \in DOMAIN h /\ h[j].call = <<w, n>> /\ h[j].left = l
      BY <1>2, <1>6, <2>1 DEF Group
    <3>2. j \notin DOMAIN g
      BY <1>2, <1>4, <3>1
    <3> QED
      BY <1>3, <3>1, <3>2
  <2>2. Group(h, i) \subseteq B
    BY <2>1
  <2>3. IsFiniteSet(B) /\ Cardinality(B) = L
    <3>1. m + 1 \in Int /\ m + L \in Int
      BY <1>2
    <3>2. IsFiniteSet(B) /\ Cardinality(B) = IF m + 1 > m + L THEN 0 ELSE (m + L) - (m + 1) + 1
      BY <3>1, FS_Interval
    <3> QED
      BY <1>2, <3>2
  <2> HIDE DEF B
  <2>4. IsFiniteSet(Group(h, i)) /\ Cardinality(Group(h, i)) <= Cardinality(B)
    BY <2>2, <2>3, FS_Subset
  <2>5. Cardinality(Group(h, i)) \in Nat
    BY <2>4, FS_CardinalityType
  <2> QED
    BY <1>2, <2>3, <2>4, <2>5, Sizes DEF L
<1> QED
  BY <1>3, <1>5, <1>6

-----------------------------------------------------------------------------
(* klog_write of the next piece, the first of ps, of w's text f: what the  *)
(* step from a new text and the step within one have in common.            *)
LEMMA HandOverStep ==
  ASSUME ConsoleInv, NEW w \in Writers, NEW n \in Nat \ {0}, NEW ps, NEW f \in Formats,
         HandOver(w, n, ps), ps \in Seq(Strings), ps # <<>>,
         calls' \in [Writers -> Seq(Formats)], Len(calls'[w]) = n, calls'[w][n] = f,
         \A v \in Writers : v # w => calls'[v] = calls[v],
         \A k \in 1..(n - 1) : /\ k \in 1..Len(calls[w]) /\ calls'[w][k] = calls[w][k]
                               /\ Rest(w, k) = <<>>,
         \A i \in 1..Len(ps) : Len(ps[i]) \in 1..BufLen,
         TextIn(log, w, n, TextOf(f), FlattenSeq(ps)),
         \A i \in At(log, w, n) : log[i].left > Len(ps),
         \A k \in Nat \ {0} : At(log, w, k) # {} => k <= n,
         Short(TextOf(f)) => Len(ps) = 1 /\ At(log, w, n) = {}
  PROVE  ConsoleInv'
<1> DEFINE l == Len(ps)
           p == Head(ps)
           r == Tail(ps)
<1>1. /\ l \in Nat \ {0} /\ p \in Seq(Chars) /\ r \in Seq(Strings)
      /\ Len(r) = l - 1 /\ \A i \in 1..Len(r) : r[i] = ps[i + 1]
      /\ p = ps[1]
  <2> DEFINE T == Strings
  <2>1. ps \in Seq(T)
    OBVIOUS
  <2> HIDE DEF T
  <2>2. /\ l \in Nat \ {0} /\ p \in T /\ r \in Seq(T)
        /\ Len(r) = l - 1 /\ \A i \in 1..Len(r) : r[i] = ps[i + 1]
        /\ p = ps[1]
    BY <2>1
  <2> QED
    BY <2>2 DEF T, Strings
<1>2. /\ log' = Extend(log, w, n, l, p)
      /\ pieces' = [pieces EXCEPT ![w] = r]
  BY DEF HandOver, Extend
<1>3. FlattenSeq(ps) = p \o FlattenSeq(r) /\ FlattenSeq(r) \in Seq(Chars)
  <2>1. ps \in Seq(Seq(Chars)) /\ r \in Seq(Seq(Chars))
    BY <1>1 DEF Strings
  <2> QED
    BY <2>1, FlattenHead, FlattenType
<1> HIDE DEF l, p, r
<1>4. Len(p) <= BufLen
  BY <1>1 DEF l
<1>5. ConsoleType /\ PiecesInv /\ CallsInv /\ BufferFits /\ log \in Seq(Entries)
  BY DEF ConsoleInv, ConsoleType
<1>6. Extends(log, w, n, l, p, log', Len(log), Len(p))
  BY <1>1, <1>2, <1>5, ExtendLog
<1>7. /\ pieces' \in [Writers -> Seq(Strings)] /\ pieces'[w] = r
      /\ \A v \in Writers : v # w => pieces'[v] = pieces[v]
  <2> HIDE DEF Strings
  <2> QED
    BY <1>1, <1>2, <1>5 DEF ConsoleType
<1>8. ConsoleType'
  BY <1>6, <1>7 DEF ConsoleType, Extends
<1>9. TextIn(log', w, n, TextOf(f), FlattenSeq(r))
  BY <1>1, <1>2, <1>3, <1>5, TextGrows
<1>10. Short(TextOf(f)) => Untorn(log', w, n)
  BY <1>1, <1>2, <1>5, UntornFirst
<1>11. ASSUME NEW i \in At(log', w, n) PROVE log'[i].left > Len(r)
  <2> DEFINE m == Len(log)
             L == Len(p)
  <2>1. m \in Nat /\ L \in Nat /\ DOMAIN log = 1..m /\ DOMAIN log' = 1..(m + L)
        /\ (\A j \in 1..m : log'[j] = log[j])
        /\ \A j \in (m + 1)..(m + L) : log'[j].left = l
    BY <1>6 DEF Extends
  <2> HIDE DEF m, L
  <2>2. i \in 1..m \/ i \in (m + 1)..(m + L)
    BY <2>1, <1>11 DEF At
  <2>3. CASE i \in 1..m
    <3>1. log'[i] = log[i] /\ i \in At(log, w, n)
      BY <1>11, <2>1, <2>3 DEF At
    <3>2. log[i].left > l /\ log[i].left \in Nat
      <4>1. log[i] \in Entries
        BY <1>5, <2>1, <2>3
      <4> QED
        BY <3>1, <4>1 DEF l, Entries
    <3> QED
      BY <1>1, <3>1, <3>2
  <2>4. CASE i \in (m + 1)..(m + L)
    BY <1>1, <2>1, <2>4
  <2> QED
    BY <2>2, <2>3, <2>4
<1>12. BufferFits'
  <2>1. GroupsFit(log)
    BY <1>5 DEF BufferFits, Group, GroupsFit
  <2>2. Unmarked(log, w, n, l)
    <3> SUFFICES ASSUME NEW i \in At(log, w, n) PROVE log[i].left # l
      BY DEF Unmarked
    <3>1. log[i].left > l /\ log[i] \in Entries
      BY <1>5 DEF l, At
    <3> QED
      BY <1>1, <3>1 DEF Entries
  <2>3. GroupsFit(log')
    <3>1. l \in Nat
      BY <1>1
    <3> QED
      BY <1>1, <1>2, <1>4, <1>5, <2>1, <2>2, <3>1, GroupsGrow
  <2> QED
    BY <2>3 DEF BufferFits, Group, GroupsFit
<1>13. ASSUME NEW v, NEW k, <<v, k>> # <<w, n>>
       PROVE  /\ At(log', v, k) = At(log, v, k)
              /\ \A i \in At(log, v, k) : log'[i] = log[i]
  BY <1>1, <1>2, <1>5, <1>13, ExtendOther
<1>14. PiecesInv'
  <2> SUFFICES ASSUME NEW v \in Writers
               PROVE  /\ pieces'[v] # <<>> =>
                           calls'[v] # <<>> /\ ~Short(TextOf(calls'[v][Len(calls'[v])]))
                      /\ \A i \in 1..Len(pieces'[v]) : Len(pieces'[v][i]) \in 1..BufLen
                      /\ \A k \in Nat \ {0} : \A i \in At(log', v, k) :
                           k <= Len(calls'[v]) /\
                           (k = Len(calls'[v]) => log'[i].left > Len(pieces'[v]))
    BY DEF PiecesInv
  <2>1. CASE v = w
    <3>1. r # <<>> => calls'[w] # <<>> /\ ~Short(TextOf(f))
      <4>1. r # <<>> => Len(r) # 0
        BY <1>1
      <4>2. calls'[w] # <<>>
        OBVIOUS
      <4> QED
        BY <1>1, <4>1, <4>2 DEF l
    <3>2. \A i \in 1..Len(r) : Len(r[i]) \in 1..BufLen
      <4> TAKE i \in 1..Len(r)
      <4>1. i + 1 \in 1..l /\ r[i] = ps[i + 1]
        BY <1>1
      <4> QED
        BY <4>1 DEF l
    <3>3. ASSUME NEW k \in Nat \ {0}, NEW i \in At(log', w, k)
          PROVE  k <= n /\ (k = n => log'[i].left > Len(r))
      <4>1. CASE k = n
        BY <1>11, <3>3, <4>1
      <4>2. CASE k # n
        <5>1. i \in At(log, w, k)
          BY <1>13, <3>3, <4>2
        <5> QED
          BY <4>2, <5>1
      <4> QED
        BY <4>1, <4>2
    <3> QED
      BY <1>7, <2>1, <3>1, <3>2, <3>3
  <2>2. CASE v # w
    <3>1. pieces'[v] = pieces[v] /\ calls'[v] = calls[v]
      BY <1>7, <2>2
    <3>2. \A k : At(log', v, k) = At(log, v, k) /\ \A i \in At(log, v, k) : log'[i] = log[i]
      BY <1>13, <2>2
    <3>3. /\ pieces[v] # <<>> =>
               calls[v] # <<>> /\ ~Short(TextOf(calls[v][Len(calls[v])]))
          /\ \A i \in 1..Len(pieces[v]) : Len(pieces[v][i]) \in 1..BufLen
      BY <1>5 DEF PiecesInv
    <3>4. \A k \in Nat \ {0} : \A i \in At(log, v, k) :
            k <= Len(calls[v]) /\ (k = Len(calls[v]) => log[i].left > Len(pieces[v]))
      BY <1>5 DEF PiecesInv
    <3>5. \A k \in Nat \ {0} : \A i \in At(log', v, k) :
            k <= Len(calls[v]) /\ (k = Len(calls[v]) => log'[i].left > Len(pieces[v]))
      <4> TAKE k \in Nat \ {0}
      <4> TAKE i \in At(log', v, k)
      <4>1. i \in At(log, v, k) /\ log'[i] = log[i]
        BY <3>2
      <4> QED
        BY <3>4, <4>1
    <3> QED
      BY <3>1, <3>3, <3>5
  <2> QED
    BY <2>1, <2>2
<1>15. CallsInv'
  <2> SUFFICES ASSUME NEW v \in Writers, NEW k \in 1..Len(calls'[v])
               PROVE  /\ TextIn(log', v, k, TextOf(calls'[v][k]), Rest(v, k)')
                      /\ Short(TextOf(calls'[v][k])) => Untorn(log', v, k)
    BY DEF CallsInv
  <2>1. CASE v = w /\ k = n
    <3>1. Rest(v, k)' = FlattenSeq(r) /\ calls'[v][k] = f
      BY <1>7, <2>1 DEF Rest
    <3> QED
      BY <1>9, <1>10, <2>1, <3>1
  <2>2. CASE <<v, k>> # <<w, n>>
    <3>1. Rest(v, k)' = Rest(v, k) /\ calls'[v][k] = calls[v][k] /\ k \in 1..Len(calls[v])
      <4>1. CASE v = w
        <5>1. k \in 1..(n - 1)
          BY <2>2, <4>1
        <5>2. Rest(v, k)' = <<>>
          BY <4>1, <5>1 DEF Rest
        <5> QED
          BY <4>1, <5>1, <5>2
      <4>2. CASE v # w
        <5>1. calls'[v] = calls[v] /\ pieces'[v] = pieces[v]
          BY <1>7, <4>2
        <5> QED
          BY <5>1 DEF Rest
      <4> QED
        BY <4>1, <4>2
    <3> DEFINE text == TextOf(calls[v][k])
               rest == Rest(v, k)
    <3>2. TextIn(log, v, k, text, rest) /\ (Short(text) => Untorn(log, v, k))
      BY <1>5, <3>1 DEF CallsInv
    <3> HIDE DEF text, rest
    <3>3. /\ TextIn(log, v, k, text, rest) => TextIn(log', v, k, text, rest)
          /\ Untorn(log, v, k) => Untorn(log', v, k)
      BY <1>1, <1>2, <1>5, <2>2, TextKept
    <3> QED
      BY <3>1, <3>2, <3>3 DEF text, rest
  <2> QED
    BY <2>1, <2>2
<1> QED
  BY <1>8, <1>12, <1>14, <1>15 DEF ConsoleInv

LEMMA KprintfStep ==
  ASSUME ConsoleInv, NEW w \in Writers, NEW f \in Formats, Kprintf(w, f)
  PROVE  ConsoleInv'
<1> DEFINE n == Len(calls[w]) + 1
           ps == Pieces(f)
<1>1. ConsoleType /\ PiecesInv /\ CallsInv
  BY DEF ConsoleInv
<1>2. calls[w] \in Seq(Formats) /\ Len(calls[w]) \in Nat /\ pieces[w] = <<>> /\ ps # <<>>
      /\ HandOver(w, n, ps) /\ calls' = [calls EXCEPT ![w] = Append(@, f)]
  BY <1>1 DEF ConsoleType, Kprintf
<1>3. n \in Nat \ {0} /\ n - 1 = Len(calls[w])
  BY <1>2
<1>4. /\ calls' \in [Writers -> Seq(Formats)] /\ calls'[w] = Append(calls[w], f)
      /\ \A v \in Writers : v # w => calls'[v] = calls[v]
  <2>1. Append(calls[w], f) \in Seq(Formats)
    BY <1>2
  <2> QED
    BY <1>1, <1>2, <2>1 DEF ConsoleType
<1>5. Len(calls'[w]) = n /\ calls'[w][n] = f
      /\ \A k \in 1..Len(calls[w]) : calls'[w][k] = calls[w][k]
  BY <1>2, <1>4
<1> HIDE DEF n
<1>6. \A k \in 1..(n - 1) : /\ k \in 1..Len(calls[w]) /\ calls'[w][k] = calls[w][k]
                            /\ Rest(w, k) = <<>>
  BY <1>2, <1>3, <1>5, FlattenEmpty DEF Rest
<1>7. /\ ps \in Seq(Strings) /\ TextOf(f) \in Seq(Chars)
      /\ FlattenSeq(ps) = TextOf(f)
      /\ \A i \in 1..Len(ps) : Len(ps[i]) \in 1..BufLen
      /\ Short(TextOf(f)) => Len(ps) <= 1
  BY PiecesText DEF Short
<1> HIDE DEF ps
<1>8. At(log, w, n) = {} /\ \A k \in Nat \ {0} : At(log, w, k) # {} => k <= n
  <2>1. \A k \in Nat \ {0} : At(log, w, k) # {} => k <= n - 1
    BY <1>1, <1>3 DEF PiecesInv
  <2> QED
    BY <1>3, <2>1
<1>9. TextIn(log, w, n, TextOf(f), FlattenSeq(ps))
  <2> DEFINE t == TextOf(f)
  <2>1. t \in Seq(Chars)
    BY <1>7
  <2> HIDE DEF t
  <2>2. Cardinality(At(log, w, n)) = 0 /\ Len(t) \in Nat
    BY <1>8, <2>1, FS_EmptySet
  <2>3. TextIn(log, w, n, t, t)
    BY <1>8, <2>2 DEF TextIn
  <2> QED
    BY <1>7, <2>3 DEF t
<1>10. Short(TextOf(f)) => Len(ps) = 1 /\ At(log, w, n) = {}
  <2>1. Len(ps) \in Nat \ {0}
    <3> HIDE DEF Strings
    <3> QED
      BY <1>2, <1>7
  <2>2. Short(TextOf(f)) => Len(ps) <= 1
    BY <1>7
  <2>3. Len(ps) <= 1 => Len(ps) = 1
    <3> DEFINE l == Len(ps)
    <3>1. l \in Nat \ {0}
      BY <2>1
    <3> HIDE DEF l
    <3>2. l <= 1 => l = 1
      BY ONLY <3>1
    <3> QED
      BY <3>2 DEF l
  <2> QED
    BY ONLY <1>8, <2>2, <2>3
<1>11. \A i \in At(log, w, n) : log[i].left > Len(ps)
  BY <1>8
<1> QED
  BY <1>2, <1>3, <1>4, <1>5, <1>6, <1>7, <1>8, <1>9, <1>10, <1>11, HandOverStep

LEMMA KprintfOnStep ==
  ASSUME ConsoleInv, NEW w \in Writers, KprintfOn(w)
  PROVE  ConsoleInv'
<1> DEFINE n == Len(calls[w])
           ps == pieces[w]
           f == calls[w][n]
<1>1. ConsoleType /\ PiecesInv /\ CallsInv
  BY DEF ConsoleInv
<1>2. ps # <<>> /\ HandOver(w, n, ps) /\ calls' = calls
  BY DEF KprintfOn
<1>3. ps \in Seq(Strings) /\ calls \in [Writers -> Seq(Formats)] /\ calls[w] \in Seq(Formats)
  BY <1>1 DEF ConsoleType
<1>4. calls[w] # <<>> /\ ~Short(TextOf(f)) /\ \A i \in 1..Len(ps) : Len(ps[i]) \in 1..BufLen
  BY <1>1, <1>2 DEF PiecesInv
<1>5. n \in Nat \ {0} /\ f \in Formats
  BY <1>3, <1>4
<1>6. TextIn(log, w, n, TextOf(f), FlattenSeq(ps))
  BY <1>1, <1>5 DEF CallsInv, Rest
<1>7. \A k \in Nat \ {0} : \A i \in At(log, w, k) : k <= n /\ (k = n => log[i].left > Len(ps))
  BY <1>1 DEF PiecesInv
<1>8. \A k \in 1..(n - 1) : k \in 1..n /\ Rest(w, k) = <<>>
  BY <1>5 DEF Rest
<1>9. calls' \in [Writers -> Seq(Formats)] /\ Len(calls'[w]) = n /\ calls'[w][n] = f
      /\ \A k \in 1..(n - 1) : /\ k \in 1..Len(calls[w]) /\ calls'[w][k] = calls[w][k]
                               /\ Rest(w, k) = <<>>
  BY <1>2, <1>3, <1>8
<1>10. \A v \in Writers : v # w => calls'[v] = calls[v]
  BY <1>2
<1> HIDE DEF n, ps, f
<1>11. \A i \in At(log, w, n) : log[i].left > Len(ps)
  BY <1>5, <1>7
<1>12. \A k \in Nat \ {0} : At(log, w, k) # {} => k <= n
  BY <1>7
<1> QED
  BY <1>2, <1>3, <1>4, <1>5, <1>6, <1>9, <1>10, <1>11, <1>12, HandOverStep

LEMMA ConsoleStart == CInit => ConsoleInv
<1> SUFFICES ASSUME CInit PROVE ConsoleInv
  OBVIOUS
<1>1. /\ log = <<>> /\ DOMAIN log = {}
      /\ pieces = [w \in Writers |-> <<>>] /\ calls = [w \in Writers |-> <<>>]
  BY DEF CInit
<1>2. ConsoleType
  <2>1. <<>> \in Seq(Strings) /\ <<>> \in Seq(Formats) /\ <<>> \in Seq(Entries)
    OBVIOUS
  <2> QED
    BY <1>1, <2>1 DEF ConsoleType
<1>3. PiecesInv
  BY <1>1 DEF PiecesInv, At
<1>4. CallsInv
  BY <1>1 DEF CallsInv
<1>5. BufferFits
  BY <1>1 DEF BufferFits
<1> QED
  BY <1>2, <1>3, <1>4, <1>5 DEF ConsoleInv

LEMMA ConsoleStep == ConsoleInv /\ [CNext]_cvars => ConsoleInv'
<1> SUFFICES ASSUME ConsoleInv, [CNext]_cvars PROVE ConsoleInv'
  OBVIOUS
<1>1. ASSUME NEW w \in Writers, NEW f \in Formats, Kprintf(w, f) PROVE ConsoleInv'
  BY <1>1, KprintfStep
<1>2. ASSUME NEW w \in Writers, KprintfOn(w) PROVE ConsoleInv'
  BY <1>2, KprintfOnStep
<1>3. ASSUME UNCHANGED <<pieces, calls, log>> PROVE ConsoleInv'
  BY <1>3 DEF ConsoleInv, ConsoleType, PiecesInv, CallsInv, BufferFits, Rest
<1>4. CASE UNCHANGED cvars
  BY <1>3, <1>4 DEF cvars
<1> QED
  BY <1>1, <1>2, <1>3, <1>4 DEF CNext

(* No piece kprintf hands to klog_write is longer than local_buf, though   *)
(* local_putnum stores its digits without a test: for any texts and any    *)
(* sizes that leave room for a number, from any number of threads.         *)
THEOREM PiecesFit == CSpec => []BufferFits
<1>1. CInit => ConsoleInv
  BY ConsoleStart
<1>2. ConsoleInv /\ [CNext]_cvars => ConsoleInv'
  BY ConsoleStep
<1>3. ConsoleInv => BufferFits
  BY DEF ConsoleInv
<1> QED
  BY <1>1, <1>2, <1>3, PTL DEF CSpec

LEMMA TextsInLog == ConsoleInv => TextsWhole
<1> SUFFICES ASSUME ConsoleInv, NEW w \in Writers, NEW n \in DOMAIN calls[w]
             PROVE  LET text == TextOf(calls[w][n])
                        at == PlacesOf(w, n)
                        nth(i) == Cardinality({j \in at : j <= i})
                    IN /\ \A i \in at : nth(i) <= Len(text) /\ log[i].c = text[nth(i)]
                       /\ (n < Len(calls[w]) \/ pieces[w] = <<>>) => Cardinality(at) = Len(text)
                       /\ Len(text) <= BufLen - NumRoom => \A i, j \in at : i..j \subseteq at
  BY DEF TextsWhole
<1> DEFINE text == TextOf(calls[w][n])
           at == PlacesOf(w, n)
           rest == Rest(w, n)
<1>1. ConsoleType /\ CallsInv
  BY DEF ConsoleInv
<1>2. calls[w] \in Seq(Formats) /\ n \in 1..Len(calls[w]) /\ Len(calls[w]) \in Nat
  BY <1>1 DEF ConsoleType
<1>3. at = At(log, w, n)
  BY DEF PlacesOf, At
<1>4. TextIn(log, w, n, text, rest) /\ (Short(text) => Untorn(log, w, n))
  BY <1>1, <1>2 DEF CallsInv
<1>5. text \in Seq(Chars) /\ rest \in Seq(Chars)
  <2>1. text \in Seq(Chars)
    BY <1>2, PiecesText
  <2>2. pieces[w] \in Seq(Seq(Chars))
    BY <1>1 DEF ConsoleType, Strings
  <2>3. FlattenSeq(pieces[w]) \in Seq(Chars) /\ <<>> \in Seq(Chars)
    BY <2>2, FlattenType
  <2> QED
    BY <2>1, <2>3 DEF Rest
<1>6. n < Len(calls[w]) \/ pieces[w] = <<>> => rest = <<>>
  BY <1>2, FlattenEmpty DEF Rest
<1>7. IsFiniteSet(at) /\ Cardinality(at) \in Nat
  <2>1. log \in Seq(Entries)
    BY <1>1 DEF ConsoleType
  <2>2. DOMAIN log = 1..Len(log) /\ Len(log) \in Nat
    BY <2>1
  <2>3. IsFiniteSet(DOMAIN log)
    BY <2>2, FS_Interval
  <2>4. at \subseteq DOMAIN log
    BY DEF PlacesOf
  <2> QED
    BY <2>3, <2>4, FS_Subset, FS_CardinalityType
<1> HIDE DEF text, at, rest
<1>8. Len(text) \in Nat /\ Len(rest) \in Nat /\ Cardinality(at) + Len(rest) = Len(text)
  BY <1>3, <1>4, <1>5 DEF TextIn
<1>9. ASSUME NEW i \in at
      PROVE  Cardinality({j \in at : j <= i}) <= Len(text)
             /\ log[i].c = text[Cardinality({j \in at : j <= i})]
  <2> DEFINE before == {j \in at : j <= i}
  <2>1. log[i].c = text[Cardinality(before)]
    BY <1>3, <1>4 DEF TextIn, Nth
  <2>2. before \subseteq at
    OBVIOUS
  <2> HIDE DEF before
  <2>3. Cardinality(before) <= Cardinality(at) /\ Cardinality(before) \in Nat
    BY <1>7, <2>2, FS_Subset, FS_CardinalityType
  <2> QED
    BY <1>7, <1>8, <2>1, <2>3 DEF before
<1>10. (n < Len(calls[w]) \/ pieces[w] = <<>>) => Cardinality(at) = Len(text)
  <2>1. rest = <<>> => Len(rest) = 0
    OBVIOUS
  <2> QED
    BY <1>6, <1>7, <1>8, <2>1
<1>11. Len(text) <= BufLen - NumRoom => \A i, j \in at : i..j \subseteq at
  BY <1>3, <1>4 DEF Short, Untorn
<1> QED
  BY <1>9, <1>10, <1>11 DEF text, at

(* Every text gets into the log whole and in order, though kprintf cuts it *)
(* into pieces and any number of threads put theirs in between, and a text *)
(* that leaves NumRoom free in local_buf is never torn: for any texts and  *)
(* any sizes.                                                              *)
THEOREM TextsKept == CSpec => []TextsWhole
<1>1. CInit => ConsoleInv
  BY ConsoleStart
<1>2. ConsoleInv /\ [CNext]_cvars => ConsoleInv'
  BY ConsoleStep
<1>3. ConsoleInv => TextsWhole
  BY TextsInLog
<1> QED
  BY <1>1, <1>2, <1>3, PTL DEF CSpec

-----------------------------------------------------------------------------
(* The screen.                                                             *)
LEMMA FitsIff ==
  ASSUME NEW n \in Nat, NEW d \in Nat \ {0}, NEW k \in Nat
  PROVE  k * d <= n <=> k <= n \div d
<1> DEFINE q == n \div d
<1>1. q \in Nat /\ d * q <= n /\ n < d * q + d
  BY Division
<1> HIDE DEF q
<1>2. ASSUME k <= q PROVE k * d <= n
  <2>1. k * d <= q * d
    BY <1>1, <1>2
  <2>2. q * d = d * q
    BY <1>1
  <2> QED
    BY <1>1, <2>1, <2>2
<1>3. ASSUME k * d <= n, k > q PROVE FALSE
  <2>1. (q + 1) * d <= k * d
    BY <1>1, <1>3
  <2>2. (q + 1) * d = d * q + d
    BY <1>1
  <2> QED
    BY <1>1, <1>3, <2>1, <2>2
<1>4. k * d <= n <=> k <= q
  BY <1>1, <1>2, <1>3
<1> QED
  BY <1>4 DEF q

LEMMA Grid ==
  /\ Cols \in Nat \ {0} /\ Rows \in Nat \ {0}
  /\ \A k \in Nat : (k * CharWidth <= Width <=> k <= Cols)
                    /\ (k * CharWidth) \div CharWidth = k
  /\ \A k \in Nat : (k * CharHeight <= Height <=> k <= Rows)
                    /\ (k * CharHeight) \div CharHeight = k
<1>1. ASSUME NEW k \in Nat, NEW d \in Nat \ {0}
      PROVE  (k * d) \div d = k
  <2> DEFINE m == k * d
  <2>1. m \in Nat /\ d * k <= m /\ m < d * k + d
    OBVIOUS
  <2> HIDE DEF m
  <2>2. m \div d = k
    BY <2>1, QuotientUnique
  <2> QED
    BY <2>2 DEF m
<1>2. ASSUME NEW n \in Nat, NEW d \in Nat \ {0}, d <= n PROVE n \div d \in Nat \ {0}
  <2>1. 1 * d <= n /\ n \div d \in Nat
    BY <1>2, Division
  <2>2. 1 <= n \div d
    BY <2>1, FitsIff
  <2> QED
    BY <2>1, <2>2
<1>3. Cols \in Nat \ {0} /\ Rows \in Nat \ {0}
  BY <1>2, Sizes DEF Cols, Rows
<1>4. \A k \in Nat : k * CharWidth <= Width <=> k <= Cols
  BY FitsIff, Sizes DEF Cols
<1>5. \A k \in Nat : k * CharHeight <= Height <=> k <= Rows
  BY FitsIff, Sizes DEF Rows
<1> QED
  BY <1>1, <1>3, <1>4, <1>5, Sizes

Screens(X) == [cells : [0..(Rows - 1) -> [0..(Cols - 1) -> X \cup {BLANK}]], x : Int, y : Int]

(* u draws the text q, character by character.                             *)
Draws(X, q, t, u) ==
  /\ u \in [0..Len(q) -> Screens(X)] /\ u[0] = t
  /\ \A k \in 1..Len(q) : u[k] = Putchar(u[k - 1], q[k])
  /\ FoldLeft(Putchar, t, q) = u[Len(q)]

LEMMA PutcharType ==
  ASSUME NEW X, NEW s, NEW c, s \in Screens(X), c \in X
  PROVE  Putchar(s, c) \in Screens(X)
<1> DEFINE V == [0..(Rows - 1) -> [0..(Cols - 1) -> X \cup {BLANK}]]
           drawn == IF c = NL THEN s.cells ELSE Draw(s.cells, s.x, s.y, c)
<1>1. s.cells \in V /\ s.x \in Int /\ s.y \in Int
  BY DEF Screens
<1>2. drawn \in V
  <2>1. ASSUME NEW f \in V, NEW x, NEW y PROVE Draw(f, x, y, c) \in V
    BY DEF Draw
  <2> HIDE DEF V
  <2> QED
    BY <1>1, <2>1
<1>3. Scroll(drawn) \in V
  <2>1. ASSUME NEW f \in V PROVE Scroll(f) \in V
    <3>1. EmptyRow \in [0..(Cols - 1) -> X \cup {BLANK}]
      BY DEF EmptyRow
    <3> QED
      BY <3>1 DEF Scroll
  <2> HIDE DEF V, drawn
  <2> QED
    BY <1>2, <2>1
<1> HIDE DEF V, drawn
<1> DEFINE r == Putchar(s, c)
<1>4. r = [cells |-> r.cells, x |-> r.x, y |-> r.y]
      /\ r.cells \in {drawn, Scroll(drawn)} /\ r.x \in Int /\ r.y \in Int
  BY <1>1, Sizes DEF Putchar, drawn
<1> HIDE DEF r
<1>5. r \in Screens(X)
  BY <1>2, <1>3, <1>4 DEF Screens, V
<1> QED
  BY <1>5 DEF r

LEMMA DrawsExist ==
  ASSUME NEW X, NEW q, NEW t, q \in Seq(X), t \in Screens(X)
  PROVE  \E u : Draws(X, q, t, u)
<1> DEFINE n == Len(q)
           F == [p \in Screens(X) \X (1..n) |-> Putchar(p[1], q[p[2]])]
           h == CHOOSE g : g = [s \in SUBSET DOMAIN q |->
                                  IF s = {} THEN t ELSE Putchar(g[s \ {Max(s)}], q[Max(s)])]
           u == [k \in 0..n |-> h[1..k]]
<1>1. n \in Nat /\ DOMAIN q = 1..n /\ \A k \in 1..n : q[k] \in X
  OBVIOUS
<1> HIDE DEF n
<1>2. \A s \in Screens(X), k \in 1..n : Putchar(s, q[k]) \in Screens(X)
  BY <1>1, PutcharType
<1>3. PICK g : Folded(Screens(X), t, n, F, g)
  <2>1. F \in [Screens(X) \X (1..n) -> Screens(X)]
    BY <1>2
  <2> HIDE DEF F
  <2> QED
    BY <1>1, <2>1, FoldExists
<1>4. ASSUME NEW s \in SUBSET (1..n), s # {} PROVE Max(s) \in 1..n /\ s \ {Max(s)} \in SUBSET (1..n)
  BY <1>1, <1>4, MaxOfPart
<1>5. h = [s \in SUBSET DOMAIN q |-> IF s = {} THEN t ELSE Putchar(h[s \ {Max(s)}], q[Max(s)])]
  <2>1. ASSUME NEW s \in SUBSET (1..n)
        PROVE  g[s] = IF s = {} THEN t ELSE Putchar(g[s \ {Max(s)}], q[Max(s)])
    <3>1. CASE s = {}
      BY <3>1, <1>3 DEF Folded
    <3>2. CASE s # {}
      <4>1. g[s \ {Max(s)}] \in Screens(X) /\ Max(s) \in 1..n
        BY <1>3, <1>4, <3>2 DEF Folded
      <4>2. g[s] = F[<<g[s \ {Max(s)}], Max(s)>>]
        BY <1>3, <3>2 DEF Folded
      <4> QED
        BY <3>2, <4>1, <4>2
    <3> QED
      BY <3>1, <3>2
  <2>2. g = [s \in SUBSET (1..n) |-> g[s]]
    BY <1>3 DEF Folded
  <2>3. g = [s \in SUBSET DOMAIN q |-> IF s = {} THEN t ELSE Putchar(g[s \ {Max(s)}], q[Max(s)])]
    BY <1>1, <2>1, <2>2
  <2> QED
    BY <2>3
<1>6. FoldLeft(Putchar, t, q) = h[DOMAIN q]
  BY DEF FoldLeft, MapThenFoldSet
<1> HIDE DEF h
<1>7. u[0] = t
  BY <1>1, <1>5
<1>8. ASSUME NEW k \in 1..n PROVE u[k] = Putchar(u[k - 1], q[k])
  <2>1. Max(1..k) = k /\ 1..k # {} /\ (1..k) \ {k} = 1..(k - 1)
    <3>1. k \in Nat \ {0}
      OBVIOUS
    <3> QED
      BY <3>1, IntervalMax
  <2>2. 1..k \in SUBSET DOMAIN q
    BY <1>1
  <2>3. h[1..k] = Putchar(h[1..(k - 1)], q[k])
    BY <1>5, <2>1, <2>2
  <2>4. k \in 0..n /\ k - 1 \in 0..n
    BY <1>1
  <2> QED
    BY <2>3, <2>4
<1>9. \A k \in 0..n : u[k] \in Screens(X)
  <2> DEFINE S == {k \in 0..n : u[k] \in Screens(X)}
  <2>1. 0 \in S
    BY <1>1, <1>7
  <2>2. ASSUME NEW k \in 1..n, k - 1 \in S PROVE k \in S
    <3>1. u[k - 1] \in Screens(X) /\ k \in 0..n
      BY <2>2
    <3> HIDE DEF u
    <3> QED
      BY <1>2, <1>8, <3>1
  <2> HIDE DEF S
  <2>3. \A k \in 0..n : k \in S
    BY <1>1, <2>1, <2>2, UpTo
  <2> QED
    BY <2>3 DEF S
<1>10. FoldLeft(Putchar, t, q) = u[n]
  BY <1>1, <1>6
<1>11. u \in [0..n -> Screens(X)]
  BY <1>9
<1> HIDE DEF u
<1>12. Draws(X, q, t, u)
  BY <1>7, <1>8, <1>10, <1>11 DEF Draws, n
<1> QED
  BY <1>12


(* Where the characters of a text go.                                      *)
PlaceType == [line : Nat, col : 0..(Cols - 1)]
NextPlace(p, c) == IF c = NL \/ p.col = Cols - 1 THEN [line |-> p.line + 1, col |-> 0]
                   ELSE [p EXCEPT !.col = @ + 1]

Placed(t, place) ==
  /\ place \in [1..(Len(t) + 1) -> PlaceType] /\ place[1] = [line |-> 0, col |-> 0]
  /\ \A k \in 1..Len(t) : place[k + 1] = NextPlace(place[k], t[k])

LEMMA NextPlaceType ==
  ASSUME NEW p, NEW c, p \in PlaceType
  PROVE  /\ NextPlace(p, c) \in PlaceType
         /\ c = NL \/ p.col = Cols - 1 =>
              NextPlace(p, c).line = p.line + 1 /\ NextPlace(p, c).col = 0
         /\ ~(c = NL \/ p.col = Cols - 1) =>
              NextPlace(p, c).line = p.line /\ NextPlace(p, c).col = p.col + 1
<1>1. p.line \in Nat /\ p.col \in 0..(Cols - 1) /\ p = [line |-> p.line, col |-> p.col]
  BY DEF PlaceType
<1>2. CASE c = NL \/ p.col = Cols - 1
  <2>1. NextPlace(p, c) = [line |-> p.line + 1, col |-> 0]
    BY <1>2 DEF NextPlace
  <2> QED
    BY <1>1, <1>2, <2>1, Grid DEF PlaceType
<1>3. CASE ~(c = NL \/ p.col = Cols - 1)
  <2>1. NextPlace(p, c) = [line |-> p.line, col |-> p.col + 1]
    BY <1>1, <1>3 DEF NextPlace
  <2>2. p.col + 1 \in 0..(Cols - 1)
    BY <1>1, <1>3, Grid
  <2> QED
    BY <1>1, <1>3, <2>1, <2>2 DEF PlaceType
<1> QED
  BY <1>2, <1>3

LEMMA PlacesPlaced ==
  ASSUME NEW X, NEW t, t \in Seq(X)
  PROVE  Placed(t, Places(t))
<1> DEFINE n == Len(t)
           z == [line |-> 0, col |-> 0]
           F == [p \in (1..n) \X PlaceType |-> NextPlace(p[2], t[p[1]])]
           h == CHOOSE f : f = [i \in 1..(n + 1) |-> IF i = 1 THEN z ELSE NextPlace(f[i - 1], t[i - 1])]
<1>1. n \in Nat /\ z \in PlaceType
  BY Grid DEF PlaceType
<1>2. Places(t) = h
  BY DEF Places, NextPlace
<1> HIDE DEF z, n
<1>3. \A p \in PlaceType : \A c : NextPlace(p, c) \in PlaceType
  BY NextPlaceType
<1>4. PICK g : Iterated(PlaceType, z, n, F, g)
  <2>1. F \in [(1..n) \X PlaceType -> PlaceType]
    BY <1>3
  <2> HIDE DEF F
  <2> QED
    BY <1>1, <2>1, Iterates
<1>5. h = [i \in 1..(n + 1) |-> IF i = 1 THEN z ELSE NextPlace(h[i - 1], t[i - 1])]
  <2> DEFINE f == [i \in 1..(n + 1) |-> g[i - 1]]
  <2>1. ASSUME NEW i \in 1..(n + 1)
        PROVE  f[i] = IF i = 1 THEN z ELSE NextPlace(f[i - 1], t[i - 1])
    <3>1. CASE i = 1
      BY <3>1, <1>4 DEF Iterated
    <3>2. CASE i # 1
      <4> DEFINE k == i - 1
      <4>1. k \in 1..n /\ k - 1 \in 0..n /\ i - 1 \in 1..(n + 1) /\ k = i - 1
        BY <1>1, <3>2
      <4>2. f[i] = g[k] /\ f[i - 1] = g[k - 1]
        BY <4>1
      <4> HIDE DEF k, f
      <4>3. g[k] = F[<<k, g[k - 1]>>] /\ g[k - 1] \in PlaceType
        BY <1>4, <4>1 DEF Iterated
      <4>4. g[k] = NextPlace(g[k - 1], t[k])
        BY <4>1, <4>3
      <4> QED
        BY <3>2, <4>1, <4>2, <4>4
    <3> QED
      BY <3>1, <3>2
  <2>2. f = [i \in 1..(n + 1) |-> f[i]]
    OBVIOUS
  <2> HIDE DEF f
  <2>3. f = [i \in 1..(n + 1) |-> IF i = 1 THEN z ELSE NextPlace(f[i - 1], t[i - 1])]
    BY <2>1, <2>2
  <2> QED
    BY <2>3
<1> HIDE DEF h
<1>6. h[1] = z
  BY <1>1, <1>5
<1>7. ASSUME NEW k \in 1..n PROVE h[k + 1] = NextPlace(h[k], t[k])
  <2>1. k + 1 \in 1..(n + 1) /\ k + 1 # 1 /\ (k + 1) - 1 = k
    BY <1>1
  <2> QED
    BY <1>5, <2>1
<1> DEFINE S == {k \in 0..n : h[k + 1] \in PlaceType}
<1>8. 0 \in S
  BY <1>1, <1>6
<1>9. ASSUME NEW k \in 1..n, k - 1 \in S PROVE k \in S
  <2>1. (k - 1) + 1 = k /\ k \in 0..n
    BY <1>1
  <2>2. h[k] \in PlaceType
    BY <1>9, <2>1
  <2> QED
    BY <1>3, <1>7, <2>1, <2>2
<1> HIDE DEF S
<1>10. \A k \in 0..n : k \in S
  BY <1>1, <1>8, <1>9, UpTo
<1>11. \A i \in 1..(n + 1) : h[i] \in PlaceType
  <2> TAKE i \in 1..(n + 1)
  <2>1. i - 1 \in 0..n /\ (i - 1) + 1 = i
    BY <1>1
  <2>2. i - 1 \in S
    BY <1>10, <2>1
  <2> QED
    BY <2>1, <2>2 DEF S
<1>12. h \in [1..(n + 1) -> PlaceType]
  BY <1>5, <1>11
<1> QED
  BY <1>2, <1>6, <1>7, <1>12 DEF Placed, z, n

(* The characters, of the first k, that go to a place.                     *)
Here(t, place, k, p) == {i \in 1..k : t[i] # NL /\ place[i] = p}

(* The cells show the lines of the first k characters from top on.         *)
Pictures(cells, t, place, k, top) ==
  \A r \in 0..(Rows - 1), c \in 0..(Cols - 1) :
    LET at == Here(t, place, k, [line |-> top + r, col |-> c])
    IN IF at = {} THEN cells[r][c] = BLANK ELSE \A i \in at : cells[r][c] = t[i]

(* The first of the lines on the screen when the cursor is in line l.      *)
TopLine(l) == IF l < Rows THEN 0 ELSE l - Rows + 1

(* Place p comes after the first k ones.                                   *)
Ahead(place, k, p) ==
  \A i \in 1..k : place[i].line < p.line \/ (place[i].line = p.line /\ place[i].col < p.col)

(* s is the screen after the first k characters of t.                      *)
Right(s, t, place, k) ==
  LET p == place[k + 1]
      top == TopLine(p.line)
  IN /\ s.x = p.col * CharWidth /\ s.y = (p.line - top) * CharHeight
     /\ Pictures(s.cells, t, place, k, top)
     /\ Ahead(place, k, p)

LEMMA TopLineType ==
  ASSUME NEW l \in Nat
  PROVE  /\ TopLine(l) \in Nat /\ l - TopLine(l) \in 0..(Rows - 1)
         /\ l - TopLine(l) = Rows - 1 => TopLine(l + 1) = TopLine(l) + 1
         /\ l - TopLine(l) # Rows - 1 => TopLine(l + 1) = TopLine(l)
BY Grid DEF TopLine

(* A character is drawn in its place, which nothing is in.                 *)
LEMMA DrawRight ==
  ASSUME NEW X, NEW s, s \in Screens(X), NEW t, NEW place, NEW k \in Nat, NEW top \in Nat,
         NEW p, p \in PlaceType, p = place[k + 1], p.line - top \in 0..(Rows - 1),
         s.x = p.col * CharWidth, s.y = (p.line - top) * CharHeight,
         Ahead(place, k, p), Pictures(s.cells, t, place, k, top),
         NEW drawn, drawn = IF t[k + 1] = NL THEN s.cells ELSE Draw(s.cells, s.x, s.y, t[k + 1])
  PROVE  Pictures(drawn, t, place, k + 1, top)
<1> DEFINE c == t[k + 1]
           row == p.line - top
<1>1. p.col \in 0..(Cols - 1) /\ p.line \in Nat /\ p = [line |-> p.line, col |-> p.col]
  BY DEF PlaceType
<1>2. s.x \div CharWidth = p.col /\ s.y \div CharHeight = row
  <2>1. p.col \in Nat /\ row \in Nat
    BY <1>1
  <2> QED
    BY <2>1, Grid
<1>3. 1..(k + 1) = (1..k) \cup {k + 1}
  OBVIOUS
<1>4. \A i \in 1..k : place[i] # p
  BY <1>1 DEF Ahead
<1>5. s.cells \in [0..(Rows - 1) -> [0..(Cols - 1) -> X \cup {BLANK}]]
  BY DEF Screens
<1> SUFFICES ASSUME NEW r \in 0..(Rows - 1), NEW j \in 0..(Cols - 1)
             PROVE  LET at == Here(t, place, k + 1, [line |-> top + r, col |-> j])
                    IN IF at = {} THEN drawn[r][j] = BLANK ELSE \A i \in at : drawn[r][j] = t[i]
  BY DEF Pictures
<1> DEFINE q == [line |-> top + r, col |-> j]
           old == Here(t, place, k, q)
           new == Here(t, place, k + 1, q)
<1>6. IF old = {} THEN s.cells[r][j] = BLANK ELSE \A i \in old : s.cells[r][j] = t[i]
  BY DEF Pictures
<1>7. q = p <=> r = row /\ j = p.col
  <2>1. top + r = p.line <=> r = p.line - top
    BY <1>1, Grid
  <2>2. q.line = top + r /\ q.col = j
    OBVIOUS
  <2> QED
    BY <1>1, <2>1, <2>2
<1> HIDE DEF row, q
<1>8. CASE c # NL /\ q = p
  <2>1. old = {}
    BY <1>4, <1>8 DEF Here
  <2>2. new = {k + 1}
    BY <1>3, <1>4, <1>8 DEF Here
  <2>3. drawn[r][j] = c
    <3>1. drawn = Draw(s.cells, s.x, s.y, c)
      BY <1>8
    <3>2. r = s.y \div CharHeight /\ j = s.x \div CharWidth
      BY <1>2, <1>7, <1>8
    <3> QED
      BY <1>5, <3>1, <3>2 DEF Draw
  <2> QED
    BY <2>2, <2>3 DEF q
<1>9. CASE ~(c # NL /\ q = p)
  <2>1. new = old
    BY <1>3, <1>9 DEF Here
  <2>2. drawn[r][j] = s.cells[r][j]
    <3>1. CASE c = NL
      BY <3>1
    <3>2. CASE c # NL
      <4>1. drawn = Draw(s.cells, s.x, s.y, c)
        BY <3>2
      <4>2. ~(r = s.y \div CharHeight /\ j = s.x \div CharWidth)
        BY <1>2, <1>7, <1>9, <3>2
      <4>3. DOMAIN s.cells = 0..(Rows - 1) /\ DOMAIN s.cells[r] = 0..(Cols - 1)
        BY <1>5
      <4>4. drawn[r][j] = IF r = s.y \div CharHeight /\ j = s.x \div CharWidth
                          THEN c ELSE s.cells[r][j]
        <5> DEFINE a == s.y \div CharHeight
                   b == s.x \div CharWidth
                   f == s.cells
        <5>1. drawn = [m \in DOMAIN f |-> [n \in DOMAIN f[m] |->
                         IF m = a /\ n = b THEN c ELSE f[m][n]]]
          BY <4>1 DEF Draw
        <5> HIDE DEF a, b, f, c
        <5>2. drawn[r] = [n \in DOMAIN f[r] |-> IF r = a /\ n = b THEN c ELSE f[r][n]]
          BY <4>3, <5>1 DEF f
        <5>3. drawn[r][j] = IF r = a /\ j = b THEN c ELSE f[r][j]
          BY <4>3, <5>2 DEF f
        <5> QED
          BY <5>3 DEF a, b, f
      <4> QED
        BY <4>2, <4>4
    <3> QED
      BY <3>1, <3>2
  <2> QED
    BY <1>6, <2>1, <2>2 DEF q
<1> QED
  BY <1>8, <1>9

(* Scrolling is the same lines seen from one line further down.            *)
LEMMA ScrollRight ==
  ASSUME NEW cells, NEW t, NEW place, NEW k \in Nat, NEW top \in Nat, NEW V,
         cells \in [0..(Rows - 1) -> V],
         \A i \in 1..k : place[i].line < top + Rows,
         Pictures(cells, t, place, k, top)
  PROVE  Pictures(Scroll(cells), t, place, k, top + 1)
<1> SUFFICES ASSUME NEW r \in 0..(Rows - 1), NEW j \in 0..(Cols - 1)
             PROVE  LET at == Here(t, place, k, [line |-> (top + 1) + r, col |-> j])
                    IN IF at = {} THEN Scroll(cells)[r][j] = BLANK
                       ELSE \A i \in at : Scroll(cells)[r][j] = t[i]
  BY DEF Pictures
<1> DEFINE at == Here(t, place, k, [line |-> (top + 1) + r, col |-> j])
<1>1. (top + 1) + r = top + (r + 1)
  BY Grid
<1>2. CASE r + 1 \in 0..(Rows - 1)
  <2>1. Scroll(cells)[r][j] = cells[r + 1][j]
    BY <1>2 DEF Scroll
  <2>2. at = Here(t, place, k, [line |-> top + (r + 1), col |-> j])
    BY <1>1
  <2> HIDE DEF at
  <2>3. IF at = {} THEN cells[r + 1][j] = BLANK ELSE \A i \in at : cells[r + 1][j] = t[i]
    BY <1>2, <2>2 DEF Pictures
  <2> QED
    BY <2>1, <2>3 DEF at
<1>3. CASE r + 1 \notin 0..(Rows - 1)
  <2>1. (top + 1) + r = top + Rows
    BY <1>3, Grid
  <2>2. at = {}
    <3> SUFFICES ASSUME NEW i \in 1..k, place[i] = [line |-> (top + 1) + r, col |-> j] PROVE FALSE
      BY DEF Here
    <3>1. place[i].line = top + Rows
      BY <2>1
    <3> QED
      BY <3>1, Grid
  <2>3. Scroll(cells)[r][j] = BLANK
    BY <1>3 DEF Scroll, EmptyRow
  <2> QED
    BY <2>2, <2>3
<1> QED
  BY <1>2, <1>3

(* kputchar_direct keeps the screen right.                                 *)
LEMMA PutcharRight ==
  ASSUME NEW X, NEW t, t \in Seq(X), NEW place, Placed(t, place), NEW k \in 0..(Len(t) - 1),
         NEW s, s \in Screens(X), Right(s, t, place, k)
  PROVE  Right(Putchar(s, t[k + 1]), t, place, k + 1)
<1> DEFINE c == t[k + 1]
           p == place[k + 1]
           q == place[k + 2]
           top == TopLine(p.line)
           row == p.line - top
           drawn == IF c = NL THEN s.cells ELSE Draw(s.cells, s.x, s.y, c)
           x == IF c = NL THEN 0 ELSE s.x + CharWidth
           y == s.y + (IF c = NL THEN CharHeight ELSE 0) + (IF Wraps(x) THEN CharHeight ELSE 0)
           scrolls == y + CharHeight > Height
           u == Putchar(s, c)
           ends == c = NL \/ p.col = Cols - 1
<1>1. /\ Len(t) \in Nat /\ k + 1 \in 1..Len(t) /\ k + 1 \in 1..(Len(t) + 1)
      /\ k \in Nat /\ (k + 1) + 1 = k + 2
  <2> DEFINE n == Len(t)
  <2>1. n \in Nat /\ k \in 0..(n - 1)
    OBVIOUS
  <2> HIDE DEF n
  <2>2. k + 1 \in 1..n /\ k + 1 \in 1..(n + 1) /\ k \in Nat /\ (k + 1) + 1 = k + 2
    BY <2>1
  <2> QED
    BY <2>1, <2>2 DEF n
<1>2. p \in PlaceType /\ q = NextPlace(p, c)
  <2>1. place[(k + 1) + 1] = NextPlace(place[k + 1], t[k + 1])
    BY <1>1 DEF Placed
  <2> QED
    BY <1>1, <2>1 DEF Placed
<1>3. p.line \in Nat /\ p.col \in 0..(Cols - 1)
  BY <1>2 DEF PlaceType
<1>4. s.x = p.col * CharWidth /\ s.y = row * CharHeight
      /\ Pictures(s.cells, t, place, k, top) /\ Ahead(place, k, p)
  BY DEF Right
<1>5. /\ q \in PlaceType
      /\ ends => q.line = p.line + 1 /\ q.col = 0
      /\ ~ends => q.line = p.line /\ q.col = p.col + 1
  BY <1>2, NextPlaceType
<1>6. u = [cells |-> IF scrolls THEN Scroll(drawn) ELSE drawn,
           x |-> IF Wraps(x) THEN 0 ELSE x,
           y |-> IF scrolls THEN y - CharHeight ELSE y]
  BY DEF Putchar
<1>7. /\ top \in Nat /\ row \in 0..(Rows - 1)
      /\ row = Rows - 1 => TopLine(p.line + 1) = top + 1
      /\ row # Rows - 1 => TopLine(p.line + 1) = top
  BY <1>3, TopLineType
<1>8. Pictures(drawn, t, place, k + 1, top)
  <2> HIDE DEF p, top, drawn
  <2>1. p = place[k + 1] /\ drawn = IF t[k + 1] = NL THEN s.cells ELSE Draw(s.cells, s.x, s.y, t[k + 1])
    BY DEF p, drawn
  <2> QED
    BY <1>1, <1>2, <1>4, <1>7, <2>1, DrawRight
<1>9. Ahead(place, k + 1, q)
  <2> SUFFICES ASSUME NEW i \in 1..(k + 1)
               PROVE  place[i].line < q.line \/ (place[i].line = q.line /\ place[i].col < q.col)
    BY DEF Ahead
  <2>1. i \in 1..(Len(t) + 1)
    BY <1>1
  <2>2. place[i].line \in Nat /\ place[i].col \in Nat
    <3>1. place[i] \in PlaceType
      BY <2>1 DEF Placed
    <3> QED
      BY <3>1 DEF PlaceType
  <2>3. CASE i = k + 1
    BY <1>3, <1>5, <2>3
  <2>4. CASE i # k + 1
    <3>1. i \in 1..k
      BY <1>1, <2>4
    <3>2. place[i].line < p.line \/ (place[i].line = p.line /\ place[i].col < p.col)
      BY <1>4, <3>1 DEF Ahead
    <3> HIDE DEF p, q
    <3> QED
      BY <1>3, <1>5, <2>2, <3>2
  <2> QED
    BY <2>3, <2>4
<1>10. drawn \in [0..(Rows - 1) -> [0..(Cols - 1) -> X \cup {BLANK}]]
  <2> DEFINE V == [0..(Rows - 1) -> [0..(Cols - 1) -> X \cup {BLANK}]]
  <2>1. s.cells \in V
    BY DEF Screens
  <2>2. c \in X
    BY <1>1
  <2>3. ASSUME NEW f \in V, NEW a, NEW b PROVE Draw(f, a, b, c) \in V
    BY <2>2 DEF Draw
  <2> HIDE DEF V, c
  <2>4. drawn \in V
    BY <2>1, <2>3
  <2> QED
    BY <2>4 DEF V
<1> HIDE DEF drawn, u, ends, row, p, q, c, top
<1>11. \A j \in Nat : j * CharWidth \in Nat /\ (j + 1) * CharWidth = j * CharWidth + CharWidth
                      /\ j * CharHeight \in Nat /\ (j + 1) * CharHeight = j * CharHeight + CharHeight
  BY Sizes
<1>12. /\ Wraps(x) <=> c # NL /\ p.col = Cols - 1
       /\ (IF Wraps(x) THEN 0 ELSE x) = q.col * CharWidth
  <2>1. CASE c = NL
    <3>1. x = 0 /\ ~Wraps(x)
      BY <2>1, Sizes DEF Wraps
    <3>2. q.col = 0
      BY <1>5, <2>1 DEF ends
    <3> QED
      BY <2>1, <3>1, <3>2, Sizes
  <2>2. CASE c # NL
    <3>1. p.col \in Nat /\ p.col + 1 \in Nat /\ p.col + 2 \in Nat /\ (p.col + 1) + 1 = p.col + 2
      BY <1>3
    <3>2. x = (p.col + 1) * CharWidth /\ x + CharWidth = (p.col + 2) * CharWidth
      <4>1. (p.col + 1) * CharWidth = p.col * CharWidth + CharWidth
        BY <1>11, <3>1
      <4>2. ((p.col + 1) + 1) * CharWidth = (p.col + 1) * CharWidth + CharWidth
        BY <1>11, <3>1
      <4>3. x = s.x + CharWidth
        BY <2>2
      <4> HIDE DEF x
      <4>4. x = (p.col + 1) * CharWidth
        BY <1>4, <4>1, <4>3
      <4>5. (p.col + 2) * CharWidth = (p.col + 1) * CharWidth + CharWidth
        BY <3>1, <4>2
      <4> QED
        BY <4>4, <4>5
    <3>3. (p.col + 2) * CharWidth <= Width <=> p.col + 2 <= Cols
      BY <3>1, Grid
    <3>4. Wraps(x) <=> p.col = Cols - 1
      <4> DEFINE a == (p.col + 2) * CharWidth
      <4>1. a \in Nat /\ x + CharWidth = a /\ (a <= Width <=> p.col + 2 <= Cols)
        BY <1>11, <3>1, <3>2, <3>3
      <4> HIDE DEF a, x
      <4> QED
        BY <1>3, <4>1, Sizes, Grid DEF Wraps
    <3>5. p.col = Cols - 1 => q.col * CharWidth = 0
      BY <1>5, Sizes DEF ends
    <3>6. p.col # Cols - 1 => q.col * CharWidth = x
      BY <1>5, <2>2, <3>2 DEF ends
    <3> HIDE DEF x
    <3> QED
      BY <2>2, <3>4, <3>5, <3>6
  <2> QED
    BY <2>1, <2>2
<1>13. /\ ends => y = (row + 1) * CharHeight
       /\ ~ends => y = row * CharHeight
  <2>1. row \in Nat /\ s.y \in Nat
    BY <1>4, <1>7, <1>11
  <2> HIDE DEF x
  <2>2. y = s.y + (IF c = NL THEN CharHeight ELSE 0) + (IF c # NL /\ p.col = Cols - 1 THEN CharHeight ELSE 0)
    BY <1>12
  <2> HIDE DEF y
  <2>3. y = s.y + (IF ends THEN CharHeight ELSE 0)
    BY <2>1, <2>2, Sizes DEF ends
  <2> QED
    BY <1>4, <1>11, <2>1, <2>3, Sizes
<1> HIDE DEF x, y
<1>14. scrolls <=> ends /\ row = Rows - 1
  <2>1. row \in Nat /\ row + 1 \in Nat /\ row + 2 \in Nat /\ (row + 1) + 1 = row + 2
    BY <1>7
  <2>2. CASE ends
    <3>1. y + CharHeight = (row + 2) * CharHeight
      BY <1>11, <1>13, <2>1, <2>2
    <3>2. (row + 2) * CharHeight <= Height <=> row + 2 <= Rows
      BY <2>1, Grid
    <3> DEFINE a == (row + 2) * CharHeight
    <3>3. a \in Nat /\ y + CharHeight = a /\ (a <= Height <=> row + 2 <= Rows)
      BY <1>11, <2>1, <3>1, <3>2
    <3> HIDE DEF a
    <3> QED
      BY <1>7, <2>2, <3>3, Sizes, Grid
  <2>3. CASE ~ends
    <3>1. y + CharHeight = (row + 1) * CharHeight
      BY <1>11, <1>13, <2>1, <2>3
    <3>2. (row + 1) * CharHeight <= Height
      BY <1>7, <2>1, Grid
    <3> DEFINE a == (row + 1) * CharHeight
    <3>3. a \in Nat /\ y + CharHeight = a /\ a <= Height
      BY <1>11, <2>1, <3>1, <3>2
    <3> HIDE DEF a
    <3> QED
      BY <2>3, <3>3, Sizes
  <2> QED
    BY <2>2, <2>3
<1>15. CASE scrolls
  <2>1. ends /\ row = Rows - 1 /\ q.line = p.line + 1 /\ TopLine(q.line) = top + 1
    BY <1>5, <1>7, <1>14, <1>15
  <2>2. q.line - (top + 1) = row /\ row \in Nat
    <3>1. p.line \in Nat /\ top \in Nat /\ row \in Nat /\ q.line = p.line + 1
      BY <1>3, <1>7, <2>1
    <3>2. row = p.line - top
      BY DEF row
    <3> QED
      BY ONLY <3>1, <3>2
  <2>3. y - CharHeight = row * CharHeight
    BY <1>11, <1>13, <2>1, <2>2, Sizes
  <2>4. \A i \in 1..(k + 1) : place[i].line < top + Rows
    <3> TAKE i \in 1..(k + 1)
    <3>1. place[i].line < q.line \/ (place[i].line = q.line /\ place[i].col < 0)
      BY <1>5, <1>9, <2>1 DEF Ahead
    <3>2. place[i] \in PlaceType
      <4>1. i \in 1..(Len(t) + 1)
        BY <1>1
      <4> QED
        BY <4>1 DEF Placed
    <3>3. place[i].line < q.line
      BY <3>1, <3>2, Grid DEF PlaceType
    <3> QED
      BY <1>3, <1>7, <2>1, <3>3, Grid DEF row
  <2>5. Pictures(Scroll(drawn), t, place, k + 1, top + 1)
    <3>1. k + 1 \in Nat /\ top \in Nat
      BY <1>1, <1>7
    <3> QED
      BY <1>8, <1>10, <2>4, <3>1, ScrollRight
  <2>6. u.cells = Scroll(drawn) /\ u.x = q.col * CharWidth /\ u.y = row * CharHeight
    BY <1>6, <1>12, <1>15, <2>3
  <2> QED
    BY <1>1, <1>9, <2>1, <2>2, <2>5, <2>6 DEF Right, q, u, c
<1>16. CASE ~scrolls
  <2>1. TopLine(q.line) = top
    BY <1>5, <1>7, <1>14, <1>16 DEF top
  <2>2. y = (q.line - top) * CharHeight
    <3>1. CASE ends
      <4>1. q.line - top = row + 1
        BY <1>3, <1>5, <1>7, <3>1 DEF row
      <4> QED
        BY <1>13, <3>1, <4>1
    <3>2. CASE ~ends
      <4>1. q.line - top = row
        BY <1>5, <3>2 DEF row
      <4> QED
        BY <1>13, <3>2, <4>1
    <3> QED
      BY <3>1, <3>2
  <2>3. u.cells = drawn /\ u.x = q.col * CharWidth /\ u.y = y
    BY <1>6, <1>12, <1>16
  <2> QED
    BY <1>1, <1>8, <1>9, <2>1, <2>2, <2>3 DEF Right, q, u, c
<1> QED
  BY <1>15, <1>16

(* The empty screen, and the screen after text t.                          *)
EmptyScreen == [cells |-> [r \in 0..(Rows - 1) |-> EmptyRow], x |-> 0, y |-> 0]
Drawn(t) == FoldLeft(Putchar, EmptyScreen, t)

(* From the empty screen on, the cells are right after every character.    *)
LEMMA DrawnRight ==
  ASSUME NEW X, NEW t, t \in Seq(X), NEW place, Placed(t, place)
  PROVE  Right(Drawn(t), t, place, Len(t))
<1> DEFINE n == Len(t)
           s == EmptyScreen
           W == 0..(Rows - 1)
           C == 0..(Cols - 1)
<1>1. n \in Nat
  OBVIOUS
<1>2. s.x = 0 /\ s.y = 0 /\ s.cells = [r \in W |-> EmptyRow]
      /\ \A r \in W, c \in C : s.cells[r][c] = BLANK
  BY DEF EmptyRow, EmptyScreen
<1>3. s \in Screens(X)
  <2>1. EmptyRow \in [C -> X \cup {BLANK}]
    BY DEF EmptyRow
  <2>2. [r \in W |-> EmptyRow] \in [W -> [C -> X \cup {BLANK}]]
    BY <2>1
  <2> QED
    BY <2>2 DEF Screens, EmptyScreen
<1>4. PICK u : Draws(X, t, s, u)
  BY <1>3, DrawsExist
<1>5. Right(s, t, place, 0)
  <2>1. place[0 + 1].line = 0 /\ place[0 + 1].col = 0
    BY DEF Placed
  <2>2. TopLine(0) = 0
    BY Grid DEF TopLine
  <2>3. 1..0 = {}
    OBVIOUS
  <2>4. \A p : Here(t, place, 0, p) = {} /\ Ahead(place, 0, p)
    BY <2>3 DEF Here, Ahead
  <2>5. Pictures(s.cells, t, place, 0, 0)
    BY <1>2, <2>4 DEF Pictures
  <2>6. s.x = 0 * CharWidth /\ s.y = (0 - 0) * CharHeight
    BY <1>2, Sizes
  <2> QED
    BY <2>1, <2>2, <2>4, <2>5, <2>6 DEF Right
<1> DEFINE S == {k \in 0..n : Right(u[k], t, place, k)}
<1>6. 0 \in S
  BY <1>1, <1>4, <1>5 DEF Draws
<1>7. ASSUME NEW k \in 1..n, k - 1 \in S PROVE k \in S
  <2> DEFINE m == k - 1
  <2>1. m \in 0..(n - 1) /\ m \in 0..n /\ m + 1 = k /\ k \in 0..n
    BY <1>1
  <2>2. Right(u[m], t, place, m)
    BY <1>7
  <2>3. u[m] \in Screens(X) /\ u[k] = Putchar(u[m], t[k])
    BY <1>4, <2>1 DEF Draws
  <2> HIDE DEF m
  <2>4. Right(Putchar(u[m], t[m + 1]), t, place, m + 1)
    BY <2>1, <2>2, <2>3, PutcharRight
  <2> QED
    BY <2>1, <2>3, <2>4
<1> HIDE DEF S
<1>8. \A k \in 0..n : k \in S
  BY <1>1, <1>6, <1>7, UpTo
<1>9. n \in S
  BY <1>1, <1>8
<1>10. Drawn(t) = u[n]
  BY <1>4 DEF Draws, Drawn
<1>11. Right(u[n], t, place, n)
  BY <1>9 DEF S
<1> QED
  BY <1>10, <1>11

(* What has been shown is laid out on the screen as it should be.          *)
LEMMA LayoutRight ==
  ASSUME NEW Y, screen \in Seq(Y)
  PROVE  LayoutExact
<1> DEFINE X == Y \cup {DROP, NL}
           T == Seq(X)
           shown == [i \in DOMAIN screen |-> Shown(screen[i])]
           t == FlattenSeq(shown)
           place == Places(t)
           d == Drawn(t)
           cur == place[Len(t) + 1]
           top == IF cur.line < Rows THEN 0 ELSE cur.line - Rows + 1
           at(r, k) == {i \in DOMAIN t : t[i] # NL /\ place[i] = [line |-> top + r, col |-> k]}
<1>1. shown \in Seq(T)
  <2>1. ASSUME NEW e \in Y PROVE Shown(e) \in T
    <3>1. e \in X /\ NL \in X /\ DROP \in X
      OBVIOUS
    <3> HIDE DEF X
    <3>2. <<DROP, DROP, DROP, DROP, DROP, DROP>> \in T /\ <<NL>> \in T /\ <<e>> \in T
      BY <3>1
    <3> QED
      BY <3>2 DEF Shown
  <2>2. Len(screen) \in Nat /\ DOMAIN screen = 1..Len(screen) /\ \A i \in DOMAIN screen : screen[i] \in Y
    OBVIOUS
  <2> HIDE DEF T
  <2>3. \A i \in 1..Len(screen) : shown[i] \in T
    BY <2>1, <2>2
  <2>4. shown = [i \in 1..Len(screen) |-> shown[i]]
    BY <2>2
  <2> HIDE DEF shown
  <2> QED
    BY <2>2, <2>3, <2>4
<1>2. t \in Seq(X)
  <2> HIDE DEF shown, X
  <2> QED
    BY <1>1, FlattenType
<1>3. Displayed = d
  BY DEF Displayed, Drawn, EmptyScreen
<1>4. LayoutExact <=>
        /\ d.x = cur.col * CharWidth /\ d.y = (cur.line - top) * CharHeight
        /\ \A r \in 0..(Rows - 1), k \in 0..(Cols - 1) :
             IF at(r, k) = {} THEN d.cells[r][k] = BLANK
             ELSE \A i \in at(r, k) : d.cells[r][k] = t[i]
  BY <1>3 DEF LayoutExact
<1> HIDE DEF shown, X, t
<1>5. Placed(t, place)
  BY <1>2, PlacesPlaced
<1> HIDE DEF place
<1>6. Right(d, t, place, Len(t))
  BY <1>2, <1>5, DrawnRight
<1>7. Len(t) \in Nat /\ DOMAIN t = 1..Len(t)
  BY <1>2
<1> HIDE DEF d
<1>8. top = TopLine(cur.line)
  BY DEF TopLine
<1>9. \A r, k : at(r, k) = Here(t, place, Len(t), [line |-> top + r, col |-> k])
  BY <1>7 DEF Here
<1> HIDE DEF at
<1>10. /\ d.x = cur.col * CharWidth /\ d.y = (cur.line - top) * CharHeight
       /\ Pictures(d.cells, t, place, Len(t), top)
  BY <1>6, <1>8 DEF Right
<1> HIDE DEF cur, top
<1>11. \A r \in 0..(Rows - 1), k \in 0..(Cols - 1) :
         IF at(r, k) = {} THEN d.cells[r][k] = BLANK
         ELSE \A i \in at(r, k) : d.cells[r][k] = t[i]
  BY <1>9, <1>10 DEF Pictures
<1> QED
  BY <1>4, <1>10, <1>11

-----------------------------------------------------------------------------
(* The log under kprintf.                                                  *)
LEMMA ConsoleMoves == ConsoleInv /\ [CNext]_cvars => [LogMoves]_vars
<1> SUFFICES ASSUME ConsoleInv, [CNext]_cvars PROVE [LogMoves]_vars
  OBVIOUS
<1>1. ASSUME NEW w \in Writers, NEW n, NEW ps, HandOver(w, n, ps), ps \in Seq(Strings), ps # <<>>
      PROVE  LogMoves
  <2>1. Head(ps) \in Strings
    <3> HIDE DEF Strings
    <3> QED
      BY <1>1
  <2>2. Len(Head(ps)) \in Nat
    BY <2>1 DEF Strings
  <2>3. Reserve(w, Len(Head(ps)))
    BY <1>1 DEF HandOver
  <2> QED
    BY <2>2, <2>3 DEF LogMoves
<1>2. ASSUME NEW w \in Writers, NEW f \in Formats, Kprintf(w, f) PROVE LogMoves
  <2>1. Pieces(f) \in Seq(Strings)
    BY PiecesText
  <2>2. Pieces(f) # <<>> /\ HandOver(w, Len(calls[w]) + 1, Pieces(f))
    BY <1>2 DEF Kprintf
  <2> QED
    BY <1>1, <2>1, <2>2
<1>3. ASSUME NEW w \in Writers, KprintfOn(w) PROVE LogMoves
  <2>1. pieces[w] \in Seq(Strings)
    BY DEF ConsoleInv, ConsoleType
  <2>2. pieces[w] # <<>> /\ HandOver(w, Len(calls[w]), pieces[w])
    BY <1>3 DEF KprintfOn
  <2> QED
    BY <1>1, <2>1, <2>2
<1>4. CASE UNCHANGED cvars
  BY <1>4 DEF cvars
<1>5. CASE (\E w \in Writers : Write(w)) \/ Flush
  BY <1>5 DEF LogMoves
<1> QED
  BY <1>2, <1>3, <1>4, <1>5 DEF CNext

(* Whatever kprintf hands over, as long as the reader has kept up the      *)
(* screen shows one character for each handed over, in order, and in every *)
(* slot that was clear at first the right one.                             *)
THEOREM PrintedExact == CSpec => []ExactUntilDrop
<1>1. CInit => LogInv /\ ConsoleInv
  BY InitLog, ConsoleStart DEF CInit
<1>2. LogInv /\ ConsoleInv /\ [CNext]_cvars => LogInv' /\ ConsoleInv'
  BY LogStep, ConsoleMoves, ConsoleStep
<1>3. LogInv => ExactUntilDrop
  BY LogShown
<1> QED
  BY <1>1, <1>2, <1>3, PTL DEF CSpec

(* Nothing but characters of texts handed over and [drop] is ever shown,   *)
(* after the writers have run over the reader too, except once at most for *)
(* each slot that was marked at first what it held then.                   *)
THEOREM PrintedGenuine == CSpec => []NoPhantom
<1>1. CInit => LogInv /\ ConsoleInv
  BY InitLog, ConsoleStart DEF CInit
<1>2. LogInv /\ ConsoleInv /\ [CNext]_cvars => LogInv' /\ ConsoleInv'
  BY LogStep, ConsoleMoves, ConsoleStep
<1>3. LogInv => NoPhantom
  BY LogShown
<1> QED
  BY <1>1, <1>2, <1>3, PTL DEF CSpec

(* kputchar_direct lays out whatever the log gives it: for any size of the *)
(* screen and of its characters, however often lines wrap or scroll, each  *)
(* character of the last lines is in its place and nothing else is. What   *)
(* the slots held at first does not matter.                                *)
THEOREM LayoutHolds == CSpec => []LayoutExact
<1>1. CInit => LogType /\ ConsoleInv
  BY InitType, ConsoleStart DEF CInit
<1>2. LogType /\ ConsoleInv /\ [CNext]_cvars => LogType' /\ ConsoleInv'
  BY LogTypeStep, ConsoleMoves, ConsoleStep
<1>3. LogType => LayoutExact
  BY LayoutRight DEF LogType
<1> QED
  BY <1>1, <1>2, <1>3, PTL DEF CSpec
=============================================================================
