----------------------------- MODULE BootProofs -----------------------------
(***************************************************************************)
(* Proofs about the boot: the interrupt controllers, the timers' wait and  *)
(* the memory map, each from an invariant of its own, for every memory     *)
(* map, MADT, counter width and rate the assumptions allow.                *)
(***************************************************************************)
EXTENDS Boot, NatSets, SequenceTheorems

(***************************************************************************)
(* Interrupts                                                              *)
(***************************************************************************)

(* The modes in which init_PIT is behind us.                               *)
Routed == {"timer", "sti", "thread", "handler"}

(* One handler at a time: what is in service is the vector being handled,  *)
(* and only the PIT's and the timer's are ever requested.                  *)
IrqInv ==
  /\ madt \in Madts
  /\ mode \in {"acpi", "pit"} \cup Routed
  /\ \A g \in Gsis : g \in DOMAIN redtbl /\ (redtbl[g].masked \/ redtbl[g].vector = PIT_VECTOR)
  /\ PIT_IRQ \in DOMAIN irq_handlers
  /\ mode \in Routed => irq_handlers[PIT_IRQ] = "PIT_handler"
  /\ irr \subseteq {PIT_VECTOR, TIMER_VECTOR}
  /\ handled \subseteq {"PIT_handler"}
  /\ (mode \notin Routed) => irr = {}
  /\ mode # "handler" => isr = {}
  /\ mode = "handler" =>
       \/ vector \in {PIT_VECTOR, TIMER_VECTOR} /\ isr = {vector}
       \/ vector \in {YIELD_VECTOR, SPURIOUS_VECTOR} /\ isr = {}

(* The timer is on only once the PIT is routed.                            *)
TimerLate == timer_on => mode \in Routed

LEMMA PitLineThere ==
  ASSUME madt \in Madts
  PROVE  PitLine.gsi \in Gsis
<1> DEFINE ks == {k \in DOMAIN madt : madt[k].type = 2 /\ madt[k].irq = PIT_IRQ}
<1>1. CASE ks = {}
  BY <1>1, MadtShape DEF PitLine
<1>2. CASE ks # {}
  <2>1. ks \subseteq Nat
    BY MadtShape
  <2>2. Min(ks) \in ks
    <3> HIDE DEF ks
    <3> QED
      BY <1>2, <2>1, MinIsLeast
  <2>3. Min(ks) \in IsoAt(madt)
    BY <2>2 DEF IsoAt
  <2>4. madt[Min(ks)].gsi \in Gsis
    BY <2>3, MadtShape
  <2>5. PitLine.gsi = madt[Min(ks)].gsi
    BY <1>2 DEF PitLine
  <2> QED
    BY <2>4, <2>5
<1> QED
  BY <1>1, <1>2

LEMMA MaxRequest ==
  ASSUME irr \subseteq {PIT_VECTOR, TIMER_VECTOR}, irr # {}
  PROVE  Max(irr) \in irr
<1>1. {PIT_VECTOR, TIMER_VECTOR} \subseteq Nat /\ IsFiniteSet({PIT_VECTOR, TIMER_VECTOR})
  <2>1. {PIT_VECTOR, TIMER_VECTOR} \subseteq Nat
    BY DEF PIT_VECTOR, TIMER_VECTOR
  <2>2. {PIT_VECTOR, TIMER_VECTOR} = {PIT_VECTOR} \cup {TIMER_VECTOR}
    OBVIOUS
  <2>3. IsFiniteSet({PIT_VECTOR} \cup {TIMER_VECTOR})
    BY FS_Singleton, FS_Union
  <2> QED
    BY <2>1, <2>2, <2>3
<1>2. irr \in SUBSET Nat /\ IsFiniteSet(irr)
  BY <1>1, FS_Subset
<1> QED
  BY <1>2, MaxIsGreatest

(* lapic_eoi ends the vector in service.                                   *)
LEMMA EoiEnds ==
  ASSUME isr = {} \/ isr = {PIT_VECTOR} \/ isr = {TIMER_VECTOR}
  PROVE  Eoi = {}
<1>1. CASE isr = {}
  BY <1>1 DEF Eoi
<1>2. ASSUME NEW v \in {PIT_VECTOR, TIMER_VECTOR}, isr = {v} PROVE Eoi = {}
  <2> DEFINE S == isr \cup {0}
  <2>1. v \in Nat /\ v > 0
    BY DEF PIT_VECTOR, TIMER_VECTOR
  <2>2. S \in SUBSET Nat /\ S # {} /\ v \in S /\ 0 \in S
    BY <1>2, <2>1
  <2>3. IsFiniteSet(S)
    BY <1>2, FS_Singleton, FS_Union
  <2>4. \A x \in S : x = v \/ x = 0
    BY <1>2
  <2> HIDE DEF S
  <2>5. Max(S) \in S /\ \A y \in S : y <= Max(S)
    BY <2>2, <2>3, MaxIsGreatest
  <2>6. Max(S) = v
    <3>1. v <= Max(S)
      BY <2>2, <2>5
    <3>2. Max(S) = v \/ Max(S) = 0
      BY <2>4, <2>5
    <3>3. ~(v <= 0)
      BY <2>1
    <3> QED
      BY <3>1, <3>2, <3>3
  <2> QED
    BY <1>2, <2>6 DEF Eoi, S
<1> QED
  BY <1>1, <1>2

LEMMA IrqInit ==
  ASSUME IInit
  PROVE  IrqInv /\ TimerLate
BY DEF IInit, IrqInv, TimerLate, Routed, Masked, PIT_IRQ

LEMMA IrqStep ==
  ASSUME IrqInv, TimerLate, BNext
  PROVE  IrqInv' /\ TimerLate'
<1> USE DEF Routed, PIT_IRQ, PIT_VECTOR, TIMER_VECTOR, YIELD_VECTOR, SPURIOUS_VECTOR
<1>1. CASE UNCHANGED ivars
  BY <1>1 DEF IrqInv, TimerLate, ivars, setup
<1>2. CASE ParseAcpi
  BY <1>2 DEF IrqInv, TimerLate, ParseAcpi
<1>3. CASE InitPIT
  BY <1>3 DEF IrqInv, TimerLate, InitPIT, SetIRQHandler, IoapicSetIrq
<1>4. CASE InitLapicTimer
  BY <1>4 DEF IrqInv, TimerLate, InitLapicTimer
<1>5. CASE Sti
  BY <1>5 DEF IrqInv, TimerLate, Sti, setup
<1>6. CASE PitFires
  <2>1. PitLine.gsi \in Gsis
    BY PitLineThere DEF IrqInv
  <2>2. redtbl[PitLine.gsi].vector = PIT_VECTOR /\ mode \in Routed
    BY <1>6, <2>1 DEF IrqInv, PitFires
  <2>3. irr' = irr \cup {PIT_VECTOR} /\ UNCHANGED <<setup, isr, iflag, mode, vector, handled>>
    BY <1>6, <2>2 DEF PitFires
  <2> QED
    BY <2>2, <2>3 DEF IrqInv, TimerLate, setup
<1>7. CASE LapicTimerFires
  BY <1>7 DEF IrqInv, TimerLate, LapicTimerFires, setup
<1>8. CASE Deliver
  <2>1. Max(irr) \in irr
    BY <1>8, MaxRequest DEF Deliver, IrqInv
  <2>2. /\ mode = "thread" /\ mode' = "handler" /\ isr = {}
        /\ irr' \subseteq irr /\ vector' = Max(irr) /\ isr' = {vector'}
        /\ UNCHANGED <<setup, handled>>
    BY <1>8 DEF Deliver, Enter, IrqInv
  <2>3. vector' \in {PIT_VECTOR, TIMER_VECTOR}
    <3>1. \A x \in irr : x \in {PIT_VECTOR, TIMER_VECTOR}
      BY DEF IrqInv
    <3>2. Max(irr) \in {PIT_VECTOR, TIMER_VECTOR}
      BY ONLY <2>1, <3>1
    <3> QED
      BY <2>2, <3>2
  <2> QED
    BY <2>2, <2>3 DEF IrqInv, TimerLate, setup
<1>9. CASE DeliverSpurious
  BY <1>9 DEF IrqInv, TimerLate, DeliverSpurious, Enter, setup
<1>10. CASE Yield
  BY <1>10 DEF IrqInv, TimerLate, Yield, Enter, setup
<1>11. CASE ThreadIF
  BY <1>11 DEF IrqInv, TimerLate, ThreadIF, setup
<1>12. CASE Handle
  <2>1. isr' = {}
    BY <1>12, EoiEnds DEF IrqInv, Handle, CallsEoi
  <2>2. handled' \subseteq {"PIT_handler"}
    <3>1. vector \in 32..47 => vector = PIT_VECTOR
      BY <1>12 DEF IrqInv, Handle
    <3>2. vector = PIT_VECTOR => irq_handlers[vector - 32] = "PIT_handler"
      BY <1>12 DEF IrqInv, Handle
    <3>3. handled' = handled \/ (vector = PIT_VECTOR /\ handled' = handled \cup {irq_handlers[vector - 32]})
      BY <1>12, <3>1 DEF Handle
    <3>4. handled \subseteq {"PIT_handler"}
      BY DEF IrqInv
    <3> QED
      BY <3>2, <3>3, <3>4
  <2> QED
    BY <1>12, <2>1, <2>2 DEF IrqInv, TimerLate, Handle, setup
<1> QED
  BY <1>1, <1>2, <1>3, <1>4, <1>5, <1>6, <1>7, <1>8, <1>9, <1>10, <1>11, <1>12
  DEF BNext, BootsMemory, BootsIrq, BootsTimer, Runs, Running

THEOREM InterruptsInductive == BSpec => [](IrqInv /\ TimerLate)
<1>1. BInit => IrqInv /\ TimerLate
  BY IrqInit DEF BInit
<1>2. IrqInv /\ TimerLate /\ [BNext]_<<mvars, tvars, ivars>> => (IrqInv /\ TimerLate)'
  <2> SUFFICES ASSUME IrqInv, TimerLate, UNCHANGED ivars PROVE IrqInv' /\ TimerLate'
    BY IrqStep
  <2> QED
    BY DEF IrqInv, TimerLate, ivars, setup
<1> QED
  BY <1>1, <1>2, PTL DEF BSpec

(* No interrupt is requested that has no gate, and irq_handler calls no    *)
(* NULL handler, on no MADT.                                               *)
THEOREM HandlersAreThere == BSpec => []HandlersThere
<1>1. IrqInv => HandlersThere
  BY DEF IrqInv, HandlersThere, Gates, PIT_VECTOR, TIMER_VECTOR
<1> QED
  BY <1>1, InterruptsInductive, PTL

(* Every interrupt is ended once, and none by the EOI of a spurious one.   *)
THEOREM NothingStaysInService == BSpec => []NothingStuck
<1>1. IrqInv => NothingStuck
  BY DEF IrqInv, NothingStuck, PIT_VECTOR, TIMER_VECTOR, SPURIOUS_VECTOR
<1> QED
  BY <1>1, InterruptsInductive, PTL

-----------------------------------------------------------------------------
(* The list of overrides has the entries of the MADT, whatever their order.*)
LEMMA IsosFacts ==
  ASSUME NEW m \in Madts
  PROVE  /\ IsoAt(m) \in SUBSET Nat /\ IsFiniteSet(IsoAt(m)) /\ Cardinality(IsoAt(m)) \in Nat
         /\ \E T : Isos(m) \in Seq(T)
         /\ Len(Isos(m)) = Cardinality(IsoAt(m))
         /\ \A n \in 1..Cardinality(IsoAt(m)) : \E k \in IsoAt(m) : Isos(m)[n] = m[k]
         /\ \A k \in IsoAt(m) : \E n \in 1..Cardinality(IsoAt(m)) : Isos(m)[n] = m[k]
<1> DEFINE S == IsoAt(m)
           N == Cardinality(S)
           At(n) == CHOOSE k \in S : Rank(S, k) = n - 1
<1>1. S \in SUBSET Nat /\ IsFiniteSet(S)
  <2>1. Len(m) \in Nat /\ S \subseteq 1..Len(m)
    BY MadtShape DEF IsoAt
  <2> HIDE DEF S
  <2>2. IsFiniteSet(1..Len(m))
    BY <2>1, FS_Interval
  <2>3. IsFiniteSet(S)
    BY <2>1, <2>2, FS_Subset
  <2> QED
    BY <2>1, <2>3
<1>2. N \in Nat
  BY <1>1, FS_CardinalityType
<1>3. Isos(m) = [n \in 1..N |-> m[At(n)]]
  BY DEF Isos, Rank, Below
<1>4. ASSUME NEW n \in 1..N PROVE At(n) \in S /\ Rank(S, At(n)) = n - 1
  <2>1. n - 1 \in 0..(N - 1)
    BY <1>2
  <2> HIDE DEF S
  <2>2. \E k \in S : Rank(S, k) = n - 1
    BY <1>1, <2>1, RankOnto
  <2> QED
    BY <2>2
<1>5. ASSUME NEW k \in S PROVE \E n \in 1..N : At(n) = k
  <2> DEFINE n == Rank(S, k) + 1
  <2> HIDE DEF S
  <2>1. Rank(S, k) \in 0..(N - 1)
    BY <1>1, RankType
  <2>2. n \in 1..N /\ n - 1 = Rank(S, k)
    BY <1>2, <2>1
  <2> HIDE DEF n, At
  <2>3. At(n) \in S /\ Rank(S, At(n)) = Rank(S, k)
    BY <1>4, <2>2
  <2>4. ~(At(n) < k) /\ ~(k < At(n))
    <3>1. \A f, h \in S : Rank(S, f) \in Nat /\ (f < h => Rank(S, f) < Rank(S, h))
      BY <1>1, RankGrows, RankType
    <3> QED
      BY <2>3, <3>1
  <2>5. At(n) = k
    <3>1. At(n) \in Nat /\ k \in Nat
      BY <1>1, <2>3
    <3> QED
      BY <2>4, <3>1
  <2> QED
    BY <2>2, <2>5
<1> HIDE DEF S, N, At
<1>6. Isos(m) \in Seq({m[k] : k \in S}) /\ Len(Isos(m)) = N
  BY <1>2, <1>3, <1>4
<1>7. \A k \in S : \E n \in 1..N : Isos(m)[n] = m[k]
  BY <1>3, <1>5
<1>8. \A n \in 1..N : \E k \in S : Isos(m)[n] = m[k]
  BY <1>3, <1>4
<1> QED
  BY <1>1, <1>2, <1>6, <1>7, <1>8 DEF S, N

(* Since parse_acpi found room for all of them, the search of the list is  *)
(* the search of the MADT.                                                 *)
LEMMA RouteIsPitLine ==
  ASSUME madt \in Madts,
         iso_list = SubSeq(Isos(madt), 1, Min({Len(Isos(madt)), MAX_ISO}))
  PROVE  Route(PIT_IRQ) = PitLine
<1> DEFINE S == IsoAt(madt)
           N == Cardinality(S)
           ks == {k \in DOMAIN iso_list : iso_list[k].irq = PIT_IRQ}
           ls == {k \in DOMAIN madt : madt[k].type = 2 /\ madt[k].irq = PIT_IRQ}
<1>1. /\ S \in SUBSET Nat /\ N \in Nat /\ N <= MAX_ISO /\ MAX_ISO \in Nat
      /\ Len(Isos(madt)) = N
  BY IsosFacts, MadtShape
<1>2. Min({Len(Isos(madt)), MAX_ISO}) = N
  <2>1. {N, MAX_ISO} \in SUBSET Nat /\ {N, MAX_ISO} # {}
    BY <1>1
  <2>2. Min({N, MAX_ISO}) \in {N, MAX_ISO} /\ \A y \in {N, MAX_ISO} : Min({N, MAX_ISO}) <= y
    BY ONLY <2>1, MinIsLeast
  <2> QED
    BY <1>1, <2>2
<1>3. DOMAIN iso_list = 1..N /\ \A n \in 1..N : iso_list[n] = Isos(madt)[n]
  <2>1. PICK T : Isos(madt) \in Seq(T)
    BY IsosFacts
  <2> DEFINE s == Isos(madt)
  <2>2. s \in Seq(T) /\ Len(s) = N /\ N \in Nat /\ iso_list = SubSeq(s, 1, N)
    BY <1>1, <1>2, <2>1
  <2> HIDE DEF N, s
  <2>3. DOMAIN iso_list = 1..N /\ \A n \in 1..N : iso_list[n] = s[n]
    <3>1. 1 \in Int /\ N \in Int /\ (\A n \in 1..N : s[n] \in T)
      BY <2>2
    <3>2. /\ Len(SubSeq(s, 1, N)) = IF 1 <= N THEN N - 1 + 1 ELSE 0
          /\ SubSeq(s, 1, N) \in Seq(T)
          /\ \A n \in 1..(N - 1 + 1) : SubSeq(s, 1, N)[n] = s[1 + n - 1]
      BY ONLY <3>1, SubSeqProperties
    <3>3. Len(iso_list) = N /\ iso_list \in Seq(T)
      <4>1. N = IF 1 <= N THEN N - 1 + 1 ELSE 0
        BY <2>2
      <4> QED
        BY <2>2, <3>2, <4>1
    <3>4. \A n \in 1..N : iso_list[n] = s[1 + n - 1]
      <4>1. N - 1 + 1 = N
        BY <2>2
      <4>2. \A n \in 1..N : SubSeq(s, 1, N)[n] = s[1 + n - 1]
        BY <3>2, <4>1
      <4> QED
        BY ONLY <2>2, <4>2
    <3>5. \A n \in 1..N : 1 + n - 1 = n
      BY <2>2
    <3>6. DOMAIN iso_list = 1..N
      BY <3>3
    <3>7. ASSUME NEW n \in 1..N PROVE iso_list[n] = s[n]
      BY <3>4, <3>5
    <3> QED
      BY <3>6, <3>7
  <2> QED
    BY <2>3 DEF s
<1>4. /\ \A n \in 1..N : \E k \in S : iso_list[n] = madt[k]
      /\ \A k \in S : \E n \in 1..N : iso_list[n] = madt[k]
  <2>1. /\ \A n \in 1..N : \E k \in S : Isos(madt)[n] = madt[k]
        /\ \A k \in S : \E n \in 1..N : Isos(madt)[n] = madt[k]
    BY IsosFacts
  <2> HIDE DEF N, S
  <2>2. \A n \in 1..N : iso_list[n] = Isos(madt)[n]
    BY <1>3
  <2>3. ASSUME NEW n \in 1..N PROVE \E k \in S : iso_list[n] = madt[k]
    BY <2>1, <2>2
  <2>4. ASSUME NEW k \in S PROVE \E n \in 1..N : iso_list[n] = madt[k]
    BY <2>1, <2>2
  <2> QED
    BY <2>3, <2>4
<1>5. \A k \in ls : k \in S /\ madt[k].irq = PIT_IRQ
  BY DEF IsoAt
<1>6. \A k \in S : madt[k].irq = PIT_IRQ => k \in ls
  BY DEF IsoAt
<1>7. \A k, l \in S : k # l => madt[k].irq # madt[l].irq
  BY MadtShape
<1>8. \A n \in 1..N : n \in ks <=> iso_list[n].irq = PIT_IRQ
  BY <1>3
<1>9. \A n \in ks : n \in 1..N
  BY <1>3
<1> HIDE DEF ks, ls, S, N
<1>10. CASE ls = {}
  <2>1. ks = {}
    <3> SUFFICES ASSUME NEW n \in ks PROVE FALSE
      OBVIOUS
    <3>1. PICK k \in S : iso_list[n] = madt[k]
      BY <1>4, <1>9
    <3> QED
      BY <1>6, <1>10, <1>8, <1>9, <3>1
  <2> QED
    BY <1>10, <2>1 DEF Route, PitLine, ks, ls
<1>11. CASE ls # {}
  <2>1. Min(ls) \in ls
    <3>1. ls \in SUBSET Nat
      BY <1>1, <1>5
    <3> QED
      BY <1>11, <3>1, MinIsLeast
  <2>2. ks # {}
    <3>1. PICK n \in 1..N : iso_list[n] = madt[Min(ls)]
      BY <1>4, <1>5, <2>1
    <3> QED
      BY <1>5, <1>8, <2>1, <3>1
  <2>3. Min(ks) \in ks
    <3>1. ks \in SUBSET Nat
      BY <1>1, <1>9
    <3> QED
      BY <2>2, <3>1, MinIsLeast
  <2>4. iso_list[Min(ks)] = madt[Min(ls)]
    <3>1. PICK k \in S : iso_list[Min(ks)] = madt[k]
      BY <1>4, <1>9, <2>3
    <3>2. k \in ls
      BY <1>6, <1>8, <1>9, <2>3, <3>1
    <3>3. k = Min(ls)
      BY <1>5, <1>7, <2>1, <3>2
    <3> QED
      BY <3>1, <3>3
  <2> QED
    BY <1>11, <2>2, <2>4 DEF Route, PitLine, ks, ls
<1> QED
  BY <1>10, <1>11

(* Where the routing stands at each step of the boot.                      *)
RouteInv ==
  /\ madt \in Madts
  /\ mode = "pit" => iso_list = SubSeq(Isos(madt), 1, Min({Len(Isos(madt)), MAX_ISO}))
  /\ mode \in {"acpi", "pit"} => redtbl = [g \in Gsis |-> Masked]
  /\ PitRouted

(* init_PIT programs the input the PIT is wired to, and no other, whatever *)
(* overrides the firmware gives and in whatever order.                     *)
THEOREM PitIsRouted == BSpec => []PitRouted
<1>1. BInit => RouteInv
  BY DEF BInit, IInit, RouteInv, PitRouted
<1>2. RouteInv /\ [BNext]_<<mvars, tvars, ivars>> => RouteInv'
  <2> SUFFICES ASSUME RouteInv, [BNext]_<<mvars, tvars, ivars>> PROVE RouteInv'
    OBVIOUS
  <2> USE DEF RouteInv
  <2>1. CASE ParseAcpi
    BY <2>1 DEF ParseAcpi, PitRouted
  <2>2. CASE InitPIT
    <3>1. Route(PIT_IRQ) = PitLine
      BY <2>2, RouteIsPitLine DEF InitPIT
    <3>2. redtbl' = [redtbl EXCEPT ![PitLine.gsi] =
                       [vector |-> PIT_VECTOR, flags |-> PitLine.flags, masked |-> FALSE]]
      BY <2>2, <3>1 DEF InitPIT, IoapicSetIrq
    <3>3. madt' = madt /\ mode' = "timer" /\ PitLine' = PitLine
      BY <2>2 DEF InitPIT, PitLine
    <3>4. redtbl = [g \in Gsis |-> Masked]
      BY <2>2 DEF InitPIT
    <3>5. PitRouted'
      <4> SUFFICES ASSUME NEW g \in Gsis
                   PROVE  redtbl'[g] = IF g = PitLine.gsi
                                       THEN [vector |-> PIT_VECTOR, flags |-> PitLine.flags, masked |-> FALSE]
                                       ELSE Masked
        BY <3>3 DEF PitRouted
      <4> HIDE DEF RouteInv
      <4> QED
        BY <3>2, <3>4
    <3> QED
      BY <3>3, <3>5
  <2>3. CASE /\ madt' = madt /\ redtbl' = redtbl /\ iso_list' = iso_list
             /\ mode' = mode \/ (mode \in Routed /\ mode' \in Routed)
    BY <2>3 DEF PitRouted, PitLine, Routed
  <2> HIDE DEF RouteInv
  <2>4. CASE InitLapicTimer
    BY <2>3, <2>4 DEF InitLapicTimer, Routed
  <2>5. CASE Sti
    BY <2>3, <2>5 DEF Sti, setup, Routed
  <2>6. CASE PitFires \/ LapicTimerFires \/ ThreadIF
    BY <2>3, <2>6 DEF PitFires, LapicTimerFires, ThreadIF, setup
  <2>7. CASE Deliver \/ DeliverSpurious \/ Yield
    BY <2>3, <2>7 DEF Deliver, DeliverSpurious, Yield, Enter, setup, Routed
  <2>8. CASE Handle
    BY <2>3, <2>8 DEF Handle, setup, Routed
  <2>9. CASE UNCHANGED ivars
    BY <2>3, <2>9 DEF ivars, setup
  <2> QED
    BY <2>1, <2>2, <2>4, <2>5, <2>6, <2>7, <2>8, <2>9
    DEF BNext, BootsMemory, BootsIrq, BootsTimer, Runs, Running
<1> QED
  BY <1>1, <1>2, PTL DEF BSpec, RouteInv

(***************************************************************************)
(* Timers                                                                  *)
(***************************************************************************)
LEMMA TimerNumbers ==
  /\ Requested \in Nat /\ Requested > 0
  /\ Longest \in Nat /\ Longest > 0 /\ 2^W = Longest + 1 /\ 2^W \in Nat
  /\ MaxGap \in 1..Longest
  /\ Parts \in Nat
<1>1. CalMs \in Nat /\ CalMs > 0 /\ TicksPerMs \in Nat /\ TicksPerMs > 0
  BY TimerShape
<1>2. Requested \in Nat /\ Requested > 0
  BY <1>1 DEF Requested
<1> DEFINE M == 2^W
<1>3. M \in Nat /\ MaxGap \in 1..(M - 1) /\ Longest = M - 1
  BY TimerShape DEF Longest
<1> HIDE DEF M
<1>4. Longest \in Nat /\ Longest > 0 /\ M = Longest + 1 /\ MaxGap \in 1..Longest
  BY <1>3
<1>5. Requested + Longest - 1 \in Nat /\ Longest \in Nat \ {0}
  BY <1>2, <1>4
<1>6. Parts \in Nat
  <2> DEFINE n == Requested + Longest - 1
  <2> HIDE DEF n
  <2>1. n \in Nat
    BY <1>5 DEF n
  <2>2. n \div Longest \in Nat
    BY ONLY <1>5, <2>1, Division
  <2> QED
    BY <2>2 DEF n, Parts
<1> QED
  BY <1>2, <1>3, <1>4, <1>6 DEF M

(* l parts of the wait are over and total ticks are left.                  *)
PartsOver(l, total) ==
  \/ total > 0 /\ l * Longest + total = Requested
  \/ total = 0 /\ l = Parts

(* The wait when p ticks have passed: those that were to be waited for,    *)
(* and at most MaxGap more for each part that is over.                     *)
Waited(l, total, p) == Requested - total <= p /\ p <= Requested - total + l * MaxGap

(* While a part is waited for, the counter has not passed 0 and the last   *)
(* value read says how much of the part is over.                           *)
TimerInv ==
  /\ tpc \in {"load", "poll", "done"}
  /\ rate \in LapicRates
  /\ total_ticks \in Nat /\ total_ticks <= Requested /\ passed \in Nat
  /\ tpc # "poll" => \E l \in Nat : PartsOver(l, total_ticks) /\ Waited(l, total_ticks, passed)
  /\ tpc = "poll" =>
       /\ wait \in Nat /\ last \in Nat /\ pit = last
       /\ 0 < last /\ last <= wait
       /\ total_ticks > 0
       /\ wait = IF total_ticks > Longest THEN Longest ELSE total_ticks
       /\ wait - last <= passed
       /\ \E l \in Nat : /\ PartsOver(l, total_ticks)
                         /\ Waited(l, total_ticks, passed - (wait - last))
  /\ tpc = "done" => total_ticks = 0 /\ initcnt = Period(rate * passed)

(* The value read after d ticks: it stays below the last one until the     *)
(* part is over, since no gap is as long as the counter's period.          *)
LEMMA CounterRead ==
  ASSUME NEW l \in Nat, NEW d \in 0..MaxGap, 0 < l, l <= Longest
  PROVE  /\ d < l => (l + 2^W - d) % 2^W = l - d
         /\ d = l => (l + 2^W - d) % 2^W = 0
         /\ d > l => (l + 2^W - d) % 2^W = l + 2^W - d /\ l + 2^W - d > l
<1> DEFINE M == 2^W
<1>1. M \in Nat \ {0} /\ M = Longest + 1 /\ Longest \in Nat /\ MaxGap \in 1..Longest
  BY TimerNumbers
<1> HIDE DEF M
<1>2. d \in Nat /\ d < M /\ l < M
  BY <1>1
<1>3. ASSUME d <= l PROVE (l + M - d) % M = l - d
  <2> DEFINE n == l - d
  <2>1. n \in Nat /\ n < M /\ l + M - d = n + M
    BY <1>1, <1>2, <1>3
  <2> HIDE DEF n
  <2>2. (n + M) % M = n % M
    BY <1>1, <2>1, RemainderPeriodic
  <2>3. n % M = n
    BY <1>1, <2>1
  <2> QED
    BY <2>1, <2>2, <2>3 DEF n
<1>4. ASSUME d > l PROVE (l + M - d) % M = l + M - d /\ l + M - d > l
  <2> DEFINE n == l + M - d
  <2>1. n \in Nat /\ n < M /\ n > l
    BY <1>1, <1>2, <1>4
  <2> HIDE DEF n
  <2>2. n % M = n
    BY <1>1, <2>1
  <2> QED
    BY <2>1, <2>2 DEF n
<1>5. (d < l => (l + M - d) % M = l - d) /\ (d = l => (l + M - d) % M = 0)
  BY <1>2, <1>3
<1>6. d > l => (l + M - d) % M = l + M - d /\ l + M - d > l
  BY <1>4
<1> QED
  BY <1>5, <1>6 DEF M

(* One more part is over.                                                  *)
LEMMA PartEnds ==
  ASSUME NEW l \in Nat, NEW total \in Nat, NEW w \in Nat, total > 0, PartsOver(l, total),
         w = IF total > Longest THEN Longest ELSE total
  PROVE  PartsOver(l + 1, total - w)
<1>1. Longest \in Nat \ {0} /\ Requested \in Nat
  BY TimerNumbers
<1> DEFINE x == l * Longest
<1>2. x \in Nat /\ (l + 1) * Longest = x + Longest /\ Longest * (l + 1) = x + Longest
  BY <1>1
<1>3. x + total = Requested
  BY DEF PartsOver
<1> HIDE DEF x
<1>4. CASE total > Longest
  BY <1>1, <1>2, <1>3, <1>4 DEF PartsOver
<1>5. CASE ~(total > Longest)
  <2> DEFINE n == Requested + Longest - 1
             q == l + 1
  <2>1. n \in Nat /\ q \in Int /\ Longest * q = x + Longest
    BY <1>1, <1>2, <1>3
  <2>2. x + Longest <= n /\ n < x + Longest + Longest
    BY <1>1, <1>2, <1>3, <1>5
  <2> HIDE DEF n, q
  <2>3. n \div Longest = q
    <3>1. Longest * q <= n /\ n < Longest * q + Longest
      BY <2>1, <2>2
    <3> QED
      BY <1>1, <2>1, <3>1, QuotientUnique
  <2>4. Parts = l + 1
    BY <2>3 DEF Parts, n, q
  <2> QED
    BY <1>5, <2>4 DEF PartsOver
<1> QED
  BY <1>4, <1>5

LEMMA TimerInit ==
  ASSUME TInit
  PROVE  TimerInv
<1>1. 0 * Longest = 0 /\ 0 * MaxGap = 0 /\ Requested \in Nat /\ Requested > 0
  BY TimerNumbers
<1>2. PartsOver(0, Requested) /\ Waited(0, Requested, 0)
  BY <1>1 DEF PartsOver, Waited
<1> QED
  BY <1>1, <1>2 DEF TInit, TimerInv

LEMMA TimerLoad ==
  ASSUME TimerInv, Load
  PROVE  TimerInv'
<1> DEFINE w == IF total_ticks > Longest THEN Longest ELSE total_ticks
<1>1. /\ tpc = "load" /\ total_ticks > 0 /\ tpc' = "poll"
      /\ wait' = w /\ last' = w /\ pit' = w
      /\ total_ticks' = total_ticks /\ passed' = passed /\ rate' = rate /\ initcnt' = initcnt
  BY DEF Load
<1>2. /\ total_ticks \in Nat /\ total_ticks <= Requested /\ passed \in Nat /\ rate \in LapicRates
      /\ Longest \in Nat /\ Longest > 0
  BY TimerNumbers DEF TimerInv
<1>3. w \in Nat /\ 0 < w
  BY <1>1, <1>2
<1>4. PICK l \in Nat : PartsOver(l, total_ticks) /\ Waited(l, total_ticks, passed)
  BY <1>1 DEF TimerInv
<1>5. wait' - last' = 0 /\ passed' - (wait' - last') = passed
  BY <1>1, <1>2, <1>3
<1>6. PartsOver(l, total_ticks') /\ Waited(l, total_ticks', passed' - (wait' - last'))
  BY <1>1, <1>4, <1>5
<1>7. wait' = IF total_ticks' > Longest THEN Longest ELSE total_ticks'
  BY <1>1
<1> HIDE DEF w
<1>8. /\ wait' \in Nat /\ last' \in Nat /\ pit' = last' /\ 0 < last' /\ last' <= wait'
      /\ wait' - last' <= passed'
  BY <1>1, <1>2, <1>3
<1>9. (\E k \in Nat : PartsOver(k, total_ticks) /\ Waited(k, total_ticks, passed - (wait - last)))'
  BY <1>6 DEF PartsOver, Waited, Parts, Longest, Requested
<1> QED
  BY <1>1, <1>2, <1>7, <1>8, <1>9 DEF TimerInv, Longest, Requested

(* A turn of the inner loop: either the part goes on and the counter and   *)
(* the time moved alike, or 0 was passed less than a gap ago.              *)
LEMMA TimerPoll ==
  ASSUME TimerInv, NEW d \in 0..MaxGap, Poll(d)
  PROVE  TimerInv'
<1> DEFINE now == (pit + 2^W - d) % 2^W
           k == wait - last
<1>1. /\ tpc = "poll" /\ pit' = now /\ passed' = passed + d
      /\ wait' = wait /\ rate' = rate /\ initcnt' = initcnt
      /\ \/ Over(now) /\ total_ticks' = total_ticks - wait /\ tpc' = "load" /\ last' = last
         \/ ~Over(now) /\ last' = now /\ total_ticks' = total_ticks /\ tpc' = tpc
  BY DEF Poll, CountRead
<1>2. /\ total_ticks \in Nat /\ total_ticks <= Requested /\ passed \in Nat /\ rate \in LapicRates
      /\ wait \in Nat /\ last \in Nat /\ pit = last /\ 0 < last /\ last <= wait
      /\ total_ticks > 0 /\ wait = IF total_ticks > Longest THEN Longest ELSE total_ticks
      /\ k <= passed
  BY <1>1 DEF TimerInv
<1>3. PICK l \in Nat : PartsOver(l, total_ticks) /\ Waited(l, total_ticks, passed - k)
  BY <1>1 DEF TimerInv
<1>4. /\ Longest \in Nat /\ Longest > 0 /\ MaxGap \in Nat /\ Requested \in Nat /\ d \in Nat /\ d <= MaxGap
      /\ 2^W \in Nat
  BY TimerNumbers
<1>5. last <= Longest /\ wait <= total_ticks
  BY <1>2, <1>4
<1>6. /\ d < last => now = last - d
      /\ d = last => now = 0
      /\ d > last => now = last + 2^W - d /\ now > last
  BY <1>2, <1>5, CounterRead
<1> HIDE DEF now
<1>7. CASE d < last
  <2>1. ~Over(now) /\ now \in Nat /\ 0 < now /\ now <= last
    BY <1>2, <1>4, <1>6, <1>7 DEF Over
  <2>2. /\ last' = now /\ pit' = now /\ total_ticks' = total_ticks /\ tpc' = "poll"
        /\ passed' = passed + d
    BY <1>1, <2>1
  <2>3. /\ wait' - last' <= passed' /\ passed' - (wait' - last') = passed - k
    BY <1>1, <1>2, <1>4, <1>6, <1>7, <2>2
  <2>4. PartsOver(l, total_ticks') /\ Waited(l, total_ticks', passed' - (wait' - last'))
    BY <1>3, <2>2, <2>3
  <2>5. (\E j \in Nat : PartsOver(j, total_ticks) /\ Waited(j, total_ticks, passed - (wait - last)))'
    BY <2>4 DEF PartsOver, Waited, Parts, Longest, Requested
  <2>6. wait' = IF total_ticks' > Longest THEN Longest ELSE total_ticks'
    BY <1>1, <1>2, <2>2
  <2>7. wait' \in Nat /\ last' \in Nat /\ pit' = last' /\ 0 < last' /\ last' <= wait' /\ passed' \in Nat
    BY <1>1, <1>2, <1>4, <2>1, <2>2
  <2>8. total_ticks' \in Nat /\ total_ticks' <= Requested /\ total_ticks' > 0 /\ rate' \in LapicRates
    BY <1>1, <1>2, <2>2
  <2> QED
    BY <2>2, <2>3, <2>5, <2>6, <2>7, <2>8 DEF TimerInv, Longest, Requested
<1>8. CASE ~(d < last)
  <2>1. Over(now)
    <3>1. d = last \/ d > last
      BY <1>2, <1>4, <1>8
    <3> QED
      BY <1>6, <3>1 DEF Over
  <2>2. total_ticks' = total_ticks - wait /\ tpc' = "load" /\ passed' = passed + d
    BY <1>1, <2>1
  <2>3. total_ticks' \in Nat /\ total_ticks' <= Requested /\ passed' \in Nat
    BY <1>2, <1>4, <1>5, <2>2
  <2>4. PartsOver(l + 1, total_ticks')
    BY <1>2, <1>3, <2>2, PartEnds
  <2>5. Waited(l + 1, total_ticks', passed')
    <3> DEFINE x == l * MaxGap
    <3>1. x \in Nat /\ (l + 1) * MaxGap = x + MaxGap
      BY <1>4
    <3>2. Requested - total_ticks <= passed - k /\ passed - k <= Requested - total_ticks + x
      BY <1>3 DEF Waited
    <3> HIDE DEF x
    <3>3. /\ Requested - total_ticks' <= passed'
          /\ passed' <= Requested - total_ticks' + (x + MaxGap)
      BY <1>2, <1>4, <1>8, <2>2, <3>1, <3>2
    <3> QED
      BY <3>1, <3>3 DEF Waited
  <2>6. (\E j \in Nat : PartsOver(j, total_ticks) /\ Waited(j, total_ticks, passed))'
    <3>1. l + 1 \in Nat
      OBVIOUS
    <3> QED
      BY <2>4, <2>5, <3>1 DEF PartsOver, Waited, Parts, Longest, Requested
  <2> QED
    BY <1>1, <1>2, <2>2, <2>3, <2>6 DEF TimerInv, Longest, Requested
<1> QED
  BY <1>7, <1>8

LEMMA TimerStart ==
  ASSUME TimerInv, StartTimer
  PROVE  TimerInv'
<1>1. /\ tpc = "load" /\ total_ticks = 0 /\ tpc' = "done" /\ initcnt' = Period(rate * passed)
      /\ total_ticks' = total_ticks /\ passed' = passed /\ rate' = rate
  BY DEF StartTimer
<1>2. (\E l \in Nat : PartsOver(l, total_ticks) /\ Waited(l, total_ticks, passed))'
  BY <1>1 DEF TimerInv, PartsOver, Waited, Parts, Longest, Requested
<1>3. initcnt' = Period(rate' * passed')
  BY <1>1
<1> QED
  BY <1>1, <1>2, <1>3 DEF TimerInv, Period, Requested

THEOREM TimersInductive == BSpec => []TimerInv
<1>1. BInit => TimerInv
  BY TimerInit DEF BInit
<1>2. TimerInv /\ [BNext]_<<mvars, tvars, ivars>> => TimerInv'
  <2> SUFFICES ASSUME TimerInv, [BNext]_<<mvars, tvars, ivars>> PROVE TimerInv'
    OBVIOUS
  <2>1. CASE Load
    BY <2>1, TimerLoad
  <2>2. ASSUME NEW d \in 0..MaxGap, Poll(d) PROVE TimerInv'
    BY <2>2, TimerPoll
  <2>3. CASE StartTimer
    BY <2>3, TimerStart
  <2>4. CASE UNCHANGED tvars
    BY <2>4 DEF TimerInv, tvars, PartsOver, Waited, Parts, Longest, Requested, Period
  <2> QED
    BY <2>1, <2>2, <2>3, <2>4 DEF BNext, BootsMemory, BootsIrq, BootsTimer, Runs
<1> QED
  BY <1>1, <1>2, PTL DEF BSpec

LEMMA TimerDone ==
  ASSUME TimerInv, tpc = "done"
  PROVE  passed \in Nat /\ Requested <= passed /\ passed <= Requested + Parts * MaxGap
<1>1. PICK l \in Nat : PartsOver(l, total_ticks) /\ Waited(l, total_ticks, passed)
  BY DEF TimerInv
<1>2. total_ticks = 0 /\ passed \in Nat /\ Requested \in Nat /\ Parts \in Nat
  BY TimerNumbers DEF TimerInv
<1>3. l = Parts
  BY <1>1, <1>2 DEF PartsOver
<1>4. Requested - 0 <= passed /\ passed <= Requested - 0 + Parts * MaxGap
  BY <1>1, <1>2, <1>3 DEF Waited
<1>5. Parts * MaxGap \in Nat
  BY <1>2, TimerNumbers
<1> QED
  BY <1>2, <1>4, <1>5

(* pit_wait_ms waits as long as it is asked to, and longer by no more than *)
(* a gap per part, wherever the reads fall, whatever the counter's width.  *)
THEOREM WaitIsExact == BSpec => []WaitExact
<1>1. ASSUME TimerInv PROVE WaitExact
  <2>1. Parts * MaxGap \in Nat /\ Requested \in Nat
    BY TimerNumbers
  <2>2. tpc = "done" => passed \in Nat /\ Requested <= passed /\ passed <= Requested + Parts * MaxGap
    BY <1>1, TimerDone
  <2> QED
    BY <2>1, <2>2 DEF WaitExact
<1> QED
  BY <1>1, TimersInductive, PTL

LEMMA ProductGrows ==
  ASSUME NEW a \in Nat, NEW b \in Nat, NEW c \in Nat, a <= b
  PROVE  a * c <= b * c /\ c * a <= c * b
OBVIOUS

LEMMA ProductGrowsStrictly ==
  ASSUME NEW a \in Nat, NEW b \in Nat, NEW c \in Nat \ {0}, a < b
  PROVE  a * c < b * c
OBVIOUS

LEMMA ProductSwaps ==
  ASSUME NEW a \in Nat, NEW b \in Nat, NEW c \in Nat
  PROVE  (a * b) * c = (c * a) * b /\ a * b \in Nat /\ c * a \in Nat
OBVIOUS

(* The timer's period follows from the wait; above all, it is not 0.       *)
THEOREM PeriodIsSound == BSpec => []PeriodSound
<1>1. ASSUME TimerInv, tpc = "done"
      PROVE  /\ initcnt > 0
             /\ initcnt * CalMs + CalMs * Ms > rate * Requested * Ms
             /\ initcnt * CalMs <= rate * (Requested + Parts * MaxGap) * Ms
  <2> DEFINE R == Requested
             U == Requested + Parts * MaxGap
             n == rate * passed
             q == n \div CalMs
             c == CalMs * q
  <2>1. /\ rate \in Nat /\ rate * R >= CalMs /\ CalMs \in Nat \ {0} /\ Ms \in Nat \ {0}
        /\ R \in Nat /\ U \in Nat
    BY <1>1, TimerShape, TimerNumbers DEF TimerInv
  <2>2. passed \in Nat /\ R <= passed /\ passed <= U
    BY <1>1, TimerDone
  <2> HIDE DEF R, U
  <2>3. /\ rate * R <= n /\ n <= rate * U
        /\ n \in Nat /\ rate * R \in Nat /\ rate * U \in Nat
    BY <2>1, <2>2, ProductGrows
  <2> HIDE DEF n
  <2>4. q \in Nat /\ c \in Nat /\ c <= n /\ n < c + CalMs
    BY <2>1, <2>3, Division
  <2>5. initcnt = q * Ms
    BY <1>1 DEF TimerInv, Period, n
  <2>6. q > 0
    <3>1. c > 0
      BY <2>1, <2>3, <2>4
    <3>2. q = 0 => c = 0
      BY <2>1
    <3> QED
      BY <2>4, <3>1, <3>2
  <2>7. (q * Ms) * CalMs = c * Ms /\ q * Ms \in Nat
    BY <2>1, <2>4, ProductSwaps
  <2> HIDE DEF q, c
  <2>8. q * Ms > 0
    BY <2>1, <2>4, <2>6
  <2>9. c * Ms + CalMs * Ms > (rate * R) * Ms
    <3>1. c + CalMs \in Nat /\ rate * R < c + CalMs
      BY <2>1, <2>3, <2>4
    <3>2. (rate * R) * Ms < (c + CalMs) * Ms
      BY <2>1, <2>3, <3>1, ProductGrowsStrictly
    <3>3. (c + CalMs) * Ms = c * Ms + CalMs * Ms
      BY <2>1, <2>4
    <3> QED
      BY <2>1, <2>3, <2>4, <3>2, <3>3
  <2>10. c * Ms <= (rate * U) * Ms
    <3>1. c <= rate * U
      BY <2>3, <2>4
    <3> QED
      BY <2>1, <2>3, <2>4, <3>1, ProductGrows
  <2> QED
    BY <2>5, <2>7, <2>8, <2>9, <2>10 DEF R, U
<1>2. TimerInv => PeriodSound
  BY <1>1 DEF PeriodSound
<1> QED
  BY <1>2, TimersInductive, PTL

(***************************************************************************)
(* Memory                                                                  *)
(***************************************************************************)
LEMMA EntryTypes ==
  ASSUME NEW m \in MemoryMaps
  PROVE  /\ Len(m) \in Nat /\ DOMAIN m = 1..Len(m)
         /\ \A k \in DOMAIN m : m[k].from \in Nat /\ m[k].to \in Nat
<1> DEFINE E == [from : Nat, to : Nat, available : BOOLEAN]
<1>1. m \in Seq(E)
  BY BootShape
<1>2. \A e \in E : e.from \in Nat /\ e.to \in Nat
  OBVIOUS
<1> HIDE DEF E
<1>3. Len(m) \in Nat /\ DOMAIN m = 1..Len(m) /\ \A k \in 1..Len(m) : m[k] \in E
  BY <1>1
<1> QED
  BY <1>2, <1>3

LEMMA MaxAddrIs ==
  ASSUME NEW m \in MemoryMaps, NEW ks \in SUBSET DOMAIN m, ks # {}
  PROVE  /\ MaxAddr(m, ks) \in Nat
         /\ \A k \in ks : m[k].to <= MaxAddr(m, ks)
         /\ \E k \in ks : m[k].to = MaxAddr(m, ks)
<1> DEFINE T == {m[k].to : k \in ks}
           f == [k \in ks |-> m[k].to]
<1>1. Len(m) \in Nat /\ DOMAIN m = 1..Len(m) /\ \A k \in DOMAIN m : m[k].to \in Nat
  BY EntryTypes
<1>2. IsFiniteSet(ks)
  <2>1. IsFiniteSet(1..Len(m))
    BY <1>1, FS_Interval
  <2> QED
    BY <1>1, <2>1, FS_Subset
<1>3. f \in Surjection(ks, T)
  BY DEF Surjection
<1>4. T \in SUBSET Nat /\ T # {}
  BY <1>1
<1>5. \A k \in ks : m[k].to \in T
  OBVIOUS
<1>6. \A t \in T : \E k \in ks : m[k].to = t
  OBVIOUS
<1>7. MaxAddr(m, ks) = Max(T)
  BY DEF MaxAddr
<1> HIDE DEF T, f
<1>8. IsFiniteSet(T)
  BY <1>2, <1>3, FS_Surjection
<1>9. Max(T) \in T /\ \A y \in T : y <= Max(T)
  BY <1>4, <1>8, MaxIsGreatest
<1> QED
  BY <1>4, <1>5, <1>6, <1>7, <1>9

(* What a memory map says of the bitmap's size.                            *)
LEMMA MapFacts ==
  ASSUME NEW m \in MemoryMaps
  PROVE  /\ MaxAddr(m, Available(m)) \in Nat /\ MaxAddr(m, Available(m)) > 0
         /\ MaxAddr(m, Available(m)) + HeapPages < MaxBit
         /\ MaxAddr(m, DOMAIN m) \in Nat
         /\ \A k \in Available(m) :
              /\ m[k].from \in Nat /\ m[k].to \in Nat /\ m[k].to <= MaxAddr(m, DOMAIN m)
              /\ m[k].from < LowPages => m[k].to <= LowPages
<1>1. Available(m) \in SUBSET DOMAIN m /\ Available(m) # {} /\ DOMAIN m # {}
  BY BootShape DEF Available
<1>2. /\ MaxAddr(m, Available(m)) \in Nat
      /\ \E k \in Available(m) : m[k].to = MaxAddr(m, Available(m))
  BY <1>1, MaxAddrIs
<1>3. MaxAddr(m, DOMAIN m) \in Nat /\ \A k \in DOMAIN m : m[k].to <= MaxAddr(m, DOMAIN m)
  <2>1. DOMAIN m \in SUBSET DOMAIN m
    OBVIOUS
  <2> QED
    BY <1>1, <2>1, MaxAddrIs
<1>4. \A k \in DOMAIN m : m[k].from \in Nat /\ m[k].to \in Nat /\ m[k].from < m[k].to
  BY BootShape, EntryTypes
<1>5. MaxAddr(m, Available(m)) > 0
  BY <1>1, <1>2, <1>4
<1>6. /\ MaxAddr(m, Available(m)) + HeapPages < MaxBit
      /\ \A k \in Available(m) : m[k].from < LowPages => m[k].to <= LowPages
  BY BootShape
<1> QED
  BY <1>1, <1>2, <1>3, <1>4, <1>5, <1>6

LEMMA RoundsUp ==
  ASSUME NEW n \in Nat, NEW d \in Nat \ {0}
  PROVE  RoundUp(n, d) \in Nat /\ n <= RoundUp(n, d) * d
<1> DEFINE k == n + d - 1
           q == k \div d
<1>1. k \in Nat
  OBVIOUS
<1>2. RoundUp(n, d) = q
  BY DEF RoundUp
<1> HIDE DEF k
<1>3. q \in Nat /\ k % d \in 0..(d - 1) /\ k = d * q + (k % d)
  BY <1>1, Division
<1>4. d * q = q * d /\ q * d \in Nat
  BY <1>3
<1> HIDE DEF q
<1> QED
  BY <1>2, <1>3, <1>4 DEF k

(* The runs of pages that pmm_alloc_pages may find.                        *)
FreeRuns == {s \in Usable : s..(s + HeapPages - 1) \subseteq Usable \ tables}

(* No run begins below n: what the loop has passed over.                   *)
NoRunBelow(n) == \A s \in Nat : s < n => \E f \in s..(s + HeapPages - 1) : f \notin Usable \ tables

MemInv ==
  /\ mmap \in MemoryMaps
  /\ mpc \in {"pmm", "vmm", "scan", "done"}
  /\ i \in Nat /\ bitmap \in [Bits -> BOOLEAN]
  /\ mpc \in {"pmm", "vmm"} => tables = {} /\ i = 0
  /\ mpc \in {"pmm", "vmm", "scan"} => heap = 0
  /\ mpc # "pmm" => /\ total_pages = MaxAddr(mmap, Available(mmap))
                    /\ Free = Usable \ (tables \cup HeapFrames)
  /\ mpc = "scan" => NoRunBelow(i)
  /\ HeapLowest

LEMMA MemInit ==
  ASSUME MInit
  PROVE  MemInv
BY DEF MInit, MemInv, HeapLowest

(* init_PMM clears the bits of the usable frames and of no others.         *)
LEMMA StepPMM ==
  ASSUME MemInv, InitPMM
  PROVE  MemInv'
<1> DEFINE total == MaxAddr(mmap, Available(mmap))
           size == RoundUp(total, ByteBits)
<1>1. /\ mpc = "pmm" /\ total_pages' = total /\ mpc' = "vmm"
      /\ bitmap' = [b \in Bits |-> \/ b \in KernelImage(size)
                                   \/ b \notin Cleared(mmap) /\ (b < size * ByteBits \/ bitmap[b])]
      /\ mmap' = mmap /\ tables' = tables /\ i' = i /\ heap' = heap
  BY DEF InitPMM
<1>2. /\ mmap \in MemoryMaps /\ bitmap \in [Bits -> BOOLEAN]
      /\ tables = {} /\ i = 0 /\ heap = 0
  BY <1>1 DEF MemInv
<1>3. /\ total \in Nat /\ total > 0 /\ total + HeapPages < MaxBit
      /\ \A k \in Available(mmap) :
           /\ mmap[k].from \in Nat /\ mmap[k].to \in Nat
           /\ mmap[k].from < LowPages => mmap[k].to <= LowPages
  BY <1>2, MapFacts
<1>4. size \in Nat /\ total <= size * ByteBits
  BY <1>3, RoundsUp, BootShape
<1>5. bitmap' \in [Bits -> BOOLEAN]
  BY <1>1, <1>2
<1>6. \A f \in 0..(total - 1) : f \in Bits /\ f < size * ByteBits
  <2>1. size * ByteBits \in Nat /\ HeapPages \in Nat /\ MaxBit \in Nat
    BY <1>4, BootShape
  <2> HIDE DEF size, total
  <2> QED
    BY <1>3, <1>4, <2>1 DEF Bits
<1>7. \A f \in 0..(total - 1) : ~bitmap'[f] <=> f \notin KernelImage(size) /\ f \in Cleared(mmap)
  BY <1>1, <1>6
<1>8. ASSUME NEW f \in Nat
      PROVE  f \in Cleared(mmap) <=> f >= LowPages /\ \E k \in Available(mmap) : f \in PagesOf(mmap[k])
  <2>1. f \in Cleared(mmap) <=> \E k \in Available(mmap) : mmap[k].from >= LowPages /\ f \in PagesOf(mmap[k])
    BY DEF Cleared
  <2>2. ASSUME NEW k \in Available(mmap), f \in PagesOf(mmap[k])
        PROVE  f >= LowPages <=> mmap[k].from >= LowPages
    BY <1>3, <2>2, BootShape DEF PagesOf
  <2> QED
    BY <2>1, <2>2
<1>9. KernelImage(size) = LowPages..(KernelEnd + RoundUp(BitmapSize', PageBytes) - 1)
  BY <1>1 DEF KernelImage, BitmapSize
<1>10. Free' = Usable'
  <2>1. Free' = {f \in 0..(total - 1) : ~bitmap'[f]}
    BY <1>1 DEF Free
  <2>2. Usable' = {f \in 0..(total - 1) : /\ f >= LowPages
                                          /\ \E k \in Available(mmap) : f \in PagesOf(mmap[k])
                                          /\ f \notin KernelImage(size)}
    BY <1>1, <1>9 DEF Usable
  <2> HIDE DEF size, total
  <2>3. \A f \in 0..(total - 1) : f \in Nat
    OBVIOUS
  <2> QED
    BY <1>7, <1>8, <2>1, <2>2, <2>3
<1>11. HeapFrames' = {} /\ HeapLowest'
  BY <1>1, <1>2 DEF HeapFrames, HeapLowest
<1>12. Free' = Usable' \ (tables' \cup HeapFrames')
  BY <1>1, <1>2, <1>10, <1>11
<1> QED
  BY <1>1, <1>2, <1>5, <1>11, <1>12 DEF MemInv

(* init_VMM takes free frames only.                                        *)
LEMMA StepVMM ==
  ASSUME MemInv, InitVMM
  PROVE  MemInv'
<1>1. /\ mpc = "vmm" /\ mpc' = "scan" /\ tables' = Lowest(2 + RoundUp(MappedEnd, BigPage))
      /\ bitmap' = [b \in Bits |-> bitmap[b] \/ b \in tables']
      /\ mmap' = mmap /\ total_pages' = total_pages /\ i' = i /\ heap' = heap
  BY DEF InitVMM
<1>2. /\ mmap \in MemoryMaps /\ bitmap \in [Bits -> BOOLEAN] /\ i = 0 /\ heap = 0 /\ tables = {}
      /\ total_pages = MaxAddr(mmap, Available(mmap))
      /\ Free = Usable \ (tables \cup HeapFrames)
  BY <1>1 DEF MemInv
<1>3. HeapFrames = {} /\ HeapFrames' = {} /\ Usable' = Usable
  BY <1>1, <1>2 DEF HeapFrames, Usable, BitmapSize
<1>4. tables' \subseteq Free
  BY <1>1 DEF Lowest
<1>5. \A f \in 0..(total_pages - 1) : f \in Bits
  BY <1>2, MapFacts, BootShape DEF Bits
<1>6. Free' = Free \ tables'
  BY <1>1, <1>5 DEF Free
<1>7. Free' = Usable' \ (tables' \cup HeapFrames')
  BY <1>2, <1>3, <1>6
<1>8. bitmap' \in [Bits -> BOOLEAN]
  BY <1>1, <1>2
<1>9. NoRunBelow(i)'
  BY <1>1, <1>2 DEF NoRunBelow
<1>10. HeapLowest'
  BY <1>1 DEF HeapLowest
<1> QED
  BY <1>1, <1>2, <1>7, <1>8, <1>9, <1>10 DEF MemInv

(* Where the loop of pmm_alloc_pages stands.                               *)
LEMMA ScanFacts ==
  ASSUME MemInv, mpc = "scan"
  PROVE  /\ total_pages \in Nat /\ total_pages > 0 /\ HeapPages \in Nat /\ HeapPages > 0
         /\ total_pages + HeapPages < MaxBit /\ MaxBit \in Nat
         /\ i \in Nat /\ Free = Usable \ tables
         /\ \A f \in Usable : f \in Nat /\ f < total_pages /\ f > 0
         /\ \A f \in 0..(total_pages - 1) : f \in Bits
<1>1. /\ mmap \in MemoryMaps /\ i \in Nat /\ heap = 0
      /\ total_pages = MaxAddr(mmap, Available(mmap))
      /\ Free = Usable \ (tables \cup HeapFrames)
  BY DEF MemInv
<1>2. /\ total_pages \in Nat /\ total_pages > 0 /\ total_pages + HeapPages < MaxBit
      /\ HeapPages \in Nat /\ HeapPages > 0 /\ MaxBit \in Nat /\ LowPages \in Nat /\ LowPages > 0
  BY <1>1, MapFacts, BootShape
<1>3. HeapFrames = {}
  BY <1>1 DEF HeapFrames
<1>4. \A f \in Usable : f \in Nat /\ f < total_pages /\ f > 0
  BY <1>2 DEF Usable
<1>5. \A f \in 0..(total_pages - 1) : f \in Bits
  BY <1>2 DEF Bits
<1> QED
  BY <1>1, <1>2, <1>3, <1>4, <1>5

(* A step of the loop that leaves the bitmap alone and passes over no run. *)
LEMMA ScanOn ==
  ASSUME MemInv, mpc = "scan", i' \in Nat, NoRunBelow(i'),
         UNCHANGED <<mmap, bitmap, total_pages, tables, heap, mpc>>
  PROVE  MemInv'
<1>1. /\ mmap' = mmap /\ bitmap' = bitmap /\ total_pages' = total_pages
      /\ tables' = tables /\ heap' = heap /\ mpc' = mpc
  OBVIOUS
<1>2. Usable' = Usable /\ Free' = Free /\ HeapFrames' = HeapFrames
  BY <1>1 DEF Usable, Free, HeapFrames, BitmapSize
<1>3. NoRunBelow(i)'
  <2>1. Usable' \ tables' = Usable \ tables
    BY <1>1, <1>2
  <2> QED
    BY <2>1 DEF NoRunBelow
<1>4. HeapLowest'
  BY <1>1 DEF HeapLowest
<1> QED
  BY <1>1, <1>2, <1>3, <1>4 DEF MemInv

(* A bit that is set is not in a run.                                      *)
LEMMA BitSet ==
  ASSUME MemInv, mpc = "scan", NEW f \in Nat, bitmap[f]
  PROVE  f \notin Usable \ tables
<1>1. f \notin Free
  BY DEF Free
<1> QED
  BY <1>1, ScanFacts

LEMMA StepScanUsed ==
  ASSUME MemInv, ScanUsed
  PROVE  MemInv'
<1>1. /\ mpc = "scan" /\ bitmap[i] /\ i' = i + 1
      /\ UNCHANGED <<mmap, bitmap, total_pages, tables, heap, mpc>>
  BY DEF ScanUsed, Scanning
<1>2. i \in Nat /\ HeapPages \in Nat /\ HeapPages > 0
  BY <1>1, ScanFacts
<1>3. i \notin Usable \ tables
  BY <1>1, <1>2, BitSet
<1>4. NoRunBelow(i)
  BY <1>1 DEF MemInv
<1>5. NoRunBelow(i')
  <2> SUFFICES ASSUME NEW s \in Nat, s < i'
               PROVE  \E f \in s..(s + HeapPages - 1) : f \notin Usable \ tables
    BY DEF NoRunBelow
  <2>1. CASE s < i
    BY <1>4, <2>1 DEF NoRunBelow
  <2>2. CASE ~(s < i)
    <3>1. i \in s..(s + HeapPages - 1)
      BY <1>1, <1>2, <2>2
    <3> QED
      BY <1>3, <3>1
  <2> QED
    BY <2>1, <2>2
<1> QED
  BY <1>1, <1>2, <1>5, ScanOn

(* A run that begins at i..i + j has i + j in it.                          *)
LEMMA StepScanShort ==
  ASSUME MemInv, ScanShort
  PROVE  MemInv'
<1> DEFINE j == Min(Blocked)
<1>1. /\ mpc = "scan" /\ Blocked # {} /\ i' = i + j + 1
      /\ UNCHANGED <<mmap, bitmap, total_pages, tables, heap, mpc>>
  BY DEF ScanShort, Scanning, Skip
<1>2. i \in Nat /\ HeapPages \in Nat /\ HeapPages > 0
  BY <1>1, ScanFacts
<1>3. Blocked \in SUBSET Nat
  BY <1>2 DEF Blocked
<1>4. j \in Blocked
  BY <1>1, <1>3, MinIsLeast
<1>5. j \in 1..(HeapPages - 1) /\ bitmap[i + j]
  BY <1>4 DEF Blocked
<1> HIDE DEF j
<1>6. i + j \in Nat /\ i' \in Nat
  BY <1>1, <1>2, <1>5
<1>7. i + j \notin Usable \ tables
  BY <1>1, <1>5, <1>6, BitSet
<1>8. NoRunBelow(i)
  BY <1>1 DEF MemInv
<1>9. NoRunBelow(i')
  <2> SUFFICES ASSUME NEW s \in Nat, s < i'
               PROVE  \E f \in s..(s + HeapPages - 1) : f \notin Usable \ tables
    BY DEF NoRunBelow
  <2>1. CASE s < i
    BY <1>8, <2>1 DEF NoRunBelow
  <2>2. CASE ~(s < i)
    <3>1. i + j \in s..(s + HeapPages - 1)
      BY <1>1, <1>2, <1>5, <2>2
    <3> QED
      BY <1>7, <3>1
  <2> QED
    BY <2>1, <2>2
<1> QED
  BY <1>1, <1>6, <1>9, ScanOn

(* FreeRuns when no run begins below n.                                    *)
LEMMA RunsFrom ==
  ASSUME MemInv, mpc = "scan", NEW n \in Nat, NoRunBelow(n)
  PROVE  \A s \in FreeRuns : s \in Nat /\ n <= s /\ s + HeapPages <= total_pages
<1> SUFFICES ASSUME NEW s \in FreeRuns
             PROVE  s \in Nat /\ n <= s /\ s + HeapPages <= total_pages
  OBVIOUS
<1>1. s \in Usable /\ \A f \in s..(s + HeapPages - 1) : f \in Usable \ tables
  BY DEF FreeRuns
<1>2. s \in Nat /\ HeapPages \in Nat /\ HeapPages > 0 /\ total_pages \in Nat
  BY <1>1, ScanFacts
<1>3. s + HeapPages - 1 \in s..(s + HeapPages - 1)
  BY <1>2
<1>4. s + HeapPages - 1 < total_pages
  BY <1>1, <1>3, ScanFacts
<1>5. ~(s < n)
  BY <1>1, <1>2 DEF NoRunBelow
<1> QED
  BY <1>2, <1>4, <1>5

LEMMA StepScanFound ==
  ASSUME MemInv, ScanFound
  PROVE  MemInv'
<1>1. /\ mpc = "scan" /\ i <= total_pages /\ ~bitmap[i] /\ Blocked = {}
      /\ bitmap' = [b \in Bits |-> bitmap[b] \/ b \in i..(i + HeapPages - 1)]
      /\ heap' = i /\ mpc' = "done"
      /\ mmap' = mmap /\ total_pages' = total_pages /\ tables' = tables /\ i' = i
  BY DEF ScanFound, Scanning
<1>2. /\ total_pages \in Nat /\ total_pages > 0 /\ HeapPages \in Nat /\ HeapPages > 0
      /\ i \in Nat /\ Free = Usable \ tables
      /\ \A f \in Usable : f \in Nat /\ f < total_pages /\ f > 0
      /\ \A f \in 0..(total_pages - 1) : f \in Bits
  BY <1>1, ScanFacts
<1>3. /\ mmap \in MemoryMaps /\ bitmap \in [Bits -> BOOLEAN] /\ NoRunBelow(i)
      /\ total_pages = MaxAddr(mmap, Available(mmap))
  BY <1>1 DEF MemInv
<1>4. i > 0
  <2>1. CASE i = total_pages
    BY <1>2, <2>1
  <2>2. CASE i < total_pages
    <3>1. i \in Free
      BY <1>1, <1>2, <2>2 DEF Free
    <3> QED
      BY <1>2, <3>1
  <2> QED
    BY <1>1, <1>2, <2>1, <2>2
<1>5. Usable' = Usable /\ HeapFrames' = i..(i + HeapPages - 1)
  BY <1>1, <1>2, <1>4 DEF Usable, HeapFrames, BitmapSize
<1>6. Free' = Free \ (i..(i + HeapPages - 1))
  BY <1>1, <1>2 DEF Free
<1>7. Free' = Usable' \ (tables' \cup HeapFrames')
  BY <1>1, <1>2, <1>5, <1>6
<1>8. bitmap' \in [Bits -> BOOLEAN]
  BY <1>1, <1>3
<1>9. \A s \in FreeRuns : s \in Nat /\ i <= s /\ s + HeapPages <= total_pages
  BY <1>1, <1>2, <1>3, RunsFrom
<1>10. IF FreeRuns # {} THEN heap' = Min(FreeRuns) ELSE heap' = 0 \/ heap' + HeapPages > total_pages
  <2>1. CASE i + HeapPages > total_pages
    <3>1. FreeRuns = {}
      BY <1>2, <1>9, <2>1
    <3> QED
      BY <1>1, <2>1, <3>1
  <2>2. CASE ~(i + HeapPages > total_pages)
    <3>1. ASSUME NEW f \in i..(i + HeapPages - 1) PROVE f \in Usable \ tables
      <4>1. f \in 0..(total_pages - 1)
        BY <1>2, <2>2
      <4>2. ~bitmap[f]
        <5>1. CASE f = i
          BY <1>1, <5>1
        <5>2. CASE f # i
          <6>1. f - i \in 1..(HeapPages - 1) /\ i + (f - i) = f
            BY <1>2, <5>2
          <6> QED
            BY <1>1, <6>1 DEF Blocked
        <5> QED
          BY <5>1, <5>2
      <4> QED
        BY <1>2, <4>1, <4>2 DEF Free
    <3>2. i \in FreeRuns
      <4>1. i \in i..(i + HeapPages - 1)
        BY <1>2
      <4> QED
        BY <3>1, <4>1 DEF FreeRuns
    <3>3. FreeRuns \in SUBSET Nat /\ FreeRuns # {}
      BY <1>9, <3>2
    <3>4. Min(FreeRuns) \in FreeRuns /\ \A y \in FreeRuns : Min(FreeRuns) <= y
      BY <3>3, MinIsLeast
    <3>5. Min(FreeRuns) \in Nat /\ Min(FreeRuns) <= i /\ i <= Min(FreeRuns)
      BY <1>9, <3>2, <3>4
    <3>6. i = Min(FreeRuns)
      BY <1>2, <3>5
    <3> QED
      BY <1>1, <3>3, <3>6
  <2> QED
    BY <2>1, <2>2
<1>11. HeapLowest'
  BY <1>1, <1>5, <1>10 DEF HeapLowest, FreeRuns
<1> QED
  BY <1>1, <1>2, <1>3, <1>7, <1>8, <1>11 DEF MemInv

LEMMA StepScanFailed ==
  ASSUME MemInv, ScanFailed
  PROVE  MemInv'
<1>1. /\ mpc = "scan" /\ mpc' = "done" /\ ~(HeapPages <= total_pages /\ i <= total_pages)
      /\ mmap' = mmap /\ bitmap' = bitmap /\ total_pages' = total_pages
      /\ tables' = tables /\ i' = i /\ heap' = heap
  BY DEF ScanFailed, Scanning
<1>2. total_pages \in Nat /\ HeapPages \in Nat /\ HeapPages > 0 /\ i \in Nat
  BY <1>1, ScanFacts
<1>3. /\ mmap \in MemoryMaps /\ bitmap \in [Bits -> BOOLEAN] /\ NoRunBelow(i) /\ heap = 0
      /\ total_pages = MaxAddr(mmap, Available(mmap))
      /\ Free = Usable \ (tables \cup HeapFrames)
  BY <1>1 DEF MemInv
<1>4. \A s \in FreeRuns : s \in Nat /\ i <= s /\ s + HeapPages <= total_pages
  BY <1>1, <1>2, <1>3, RunsFrom
<1>5. FreeRuns = {}
  BY <1>1, <1>2, <1>4
<1>6. Usable' = Usable /\ Free' = Free /\ HeapFrames' = HeapFrames
  BY <1>1 DEF Usable, Free, HeapFrames, BitmapSize
<1>7. HeapLowest'
  BY <1>1, <1>3, <1>5, <1>6 DEF HeapLowest, FreeRuns
<1> QED
  BY <1>1, <1>2, <1>3, <1>6, <1>7 DEF MemInv

THEOREM BootMemoryInductive == BSpec => []MemInv
<1>1. BInit => MemInv
  BY MemInit DEF BInit
<1>2. MemInv /\ [BNext]_<<mvars, tvars, ivars>> => MemInv'
  <2> SUFFICES ASSUME MemInv, [BNext]_<<mvars, tvars, ivars>> PROVE MemInv'
    OBVIOUS
  <2>1. CASE MNext
    BY <2>1, StepPMM, StepVMM, StepScanUsed, StepScanShort, StepScanFound, StepScanFailed DEF MNext
  <2>2. CASE UNCHANGED mvars
    BY <2>2 DEF MemInv, mvars, Free, Usable, HeapFrames, BitmapSize, NoRunBelow, HeapLowest
  <2> QED
    BY <2>1, <2>2 DEF BNext, BootsMemory, BootsIrq, BootsTimer, Runs
<1> QED
  BY <1>1, <1>2, PTL DEF BSpec

(* For every memory map: the bitmap offers the usable memory that has not  *)
(* been given out, all of it and nothing else.                             *)
THEOREM BitmapIsExact == BSpec => []BitmapExact
<1>1. ASSUME MemInv PROVE BitmapExact
  <2> SUFFICES ASSUME mpc # "pmm"
               PROVE  /\ Free = Usable \ (tables \cup HeapFrames)
                      /\ \A f \in Usable : f < MappedEnd
    BY DEF BitmapExact
  <2>1. Free = Usable \ (tables \cup HeapFrames) /\ mmap \in MemoryMaps
    BY <1>1 DEF MemInv
  <2>2. ASSUME NEW f \in Usable PROVE f < MappedEnd
    <3>1. PICK k \in Available(mmap) : f \in PagesOf(mmap[k])
      BY DEF Usable
    <3>2. /\ mmap[k].from \in Nat /\ mmap[k].to \in Nat /\ MappedEnd \in Nat
          /\ mmap[k].to <= MappedEnd
      BY <2>1, MapFacts DEF MappedEnd
    <3> QED
      BY <3>1, <3>2 DEF PagesOf
  <2> QED
    BY <2>1, <2>2
<1> QED
  BY <1>1, BootMemoryInductive, PTL

(* pmm_alloc_pages finds the lowest run of frames for the heap though it   *)
(* skips ahead; where there is none, it fails or goes beyond the end.      *)
THEOREM HeapIsLowest == BSpec => []HeapLowest
<1>1. MemInv => HeapLowest
  BY DEF MemInv
<1> QED
  BY <1>1, BootMemoryInductive, PTL
=============================================================================
