----------------------------- MODULE Interrupts -----------------------------
(***************************************************************************)
(* Interrupts from the wire to the handler: the overrides of the MADT, the *)
(* IOAPIC's redirection table, the LAPIC, the IDT and the dispatch in      *)
(* exception_handler and lapic_timer_handler, on one CPU.                  *)
(***************************************************************************)
EXTENDS Naturals, Sequences, FiniteSets, FiniteSetsExt

CONSTANTS
  Madts,     \* MADTs: sequences of entries
  Gsis,      \* the inputs of the IOAPIC
  MAX_ISO

PIT_IRQ == 0
PIT_VECTOR == 32        \* where init_PIT routes IRQ 0
YIELD_VECTOR == 129     \* 0x81
TIMER_VECTOR == 239     \* 0xEF
SPURIOUS_VECTOR == 255

(* MADT entries. Flags are the two bits ioapic_set_irq copies.             *)
LapicEntry == [type |-> 0]
IoapicEntry(addr) == [type |-> 1, addr |-> addr]
IsoEntry(irq, gsi, flags) == [type |-> 2, irq |-> irq, gsi |-> gsi, flags |-> flags]
Masked == [vector |-> 0, flags |-> {}, masked |-> TRUE]

VARIABLES
  madt,          \* what the firmware left
  ioapic_paddr,
  iso_list,
  redtbl,        \* the IOAPIC's redirection table
  irq_handlers,  \* "NULL" or the handler's name
  timer_on,      \* the LAPIC's timer is periodic
  irr, isr,      \* the LAPIC: vectors requested and in service
  iflag,         \* the CPU takes interrupts
  mode,          \* "acpi", "pit", "timer", "sti" of kernel_main; "thread";
                 \* "handler", in the handler of vector
  vector,
  handled        \* the handlers irq_handler has called

setup == <<madt, ioapic_paddr, iso_list, redtbl, irq_handlers, timer_on>>
ivars == <<setup, irr, isr, iflag, mode, vector, handled>>

(* The overrides of a MADT, where they are and in their order.             *)
IsoAt(m) == {k \in DOMAIN m : m[k].type = 2}
Isos(m) ==
  [n \in 1..Cardinality(IsoAt(m)) |->
     m[CHOOSE k \in IsoAt(m) : Cardinality({j \in IsoAt(m) : j < k}) = n - 1]]

ASSUME MadtShape ==
  /\ MAX_ISO \in Nat /\ PIT_IRQ \in Gsis
  /\ \A m \in Madts :
       /\ Len(m) \in Nat /\ DOMAIN m = 1..Len(m)
       /\ Cardinality(IsoAt(m)) <= MAX_ISO
       /\ Cardinality({k \in DOMAIN m : m[k].type = 1}) = 1
       /\ \A k, l \in IsoAt(m) : (k # l) => m[k].irq # m[l].irq
       /\ \A k \in IsoAt(m) : m[k].gsi \in Gsis

(* init_IDT and reset: everything is masked, nobody handles an IRQ.        *)
IInit ==
  /\ madt \in Madts
  /\ ioapic_paddr = 0
  /\ iso_list = <<>>
  /\ redtbl = [g \in Gsis |-> Masked]
  /\ irq_handlers = [n \in 0..15 |-> "NULL"]
  /\ timer_on = FALSE
  /\ irr = {} /\ isr = {}
  /\ iflag = FALSE /\ mode = "acpi" /\ vector = 0
  /\ handled = {}

(* The vectors init_IDT sets a gate for.                                   *)
Gates == (0..47) \cup {YIELD_VECTOR, TIMER_VECTOR, SPURIOUS_VECTOR}

-----------------------------------------------------------------------------
(* parse_acpi: the last IOAPIC entry counts; save_iso keeps the first      *)
(* MAX_ISO overrides.                                                      *)
ParseAcpi ==
  /\ mode = "acpi"
  /\ ioapic_paddr' = madt[Max({k \in DOMAIN madt : madt[k].type = 1})].addr
  /\ iso_list' = SubSeq(Isos(madt), 1, Min({Len(Isos(madt)), MAX_ISO}))
  /\ mode' = "pit"
  /\ UNCHANGED <<madt, redtbl, irq_handlers, timer_on, irr, isr, iflag, vector, handled>>

(* Mutant: the override's GSI is left out.                                 *)
RouteIdentity(irq) == [gsi |-> irq, flags |-> {}]

(* The search of ioapic_set_irq, and of get_gsi_for_irq.                   *)
Route(irq) ==
  LET ks == {k \in DOMAIN iso_list : iso_list[k].irq = irq}
  IN IF ks = {} THEN [gsi |-> irq, flags |-> {}]
     ELSE [gsi |-> iso_list[Min(ks)].gsi, flags |-> iso_list[Min(ks)].flags]

(* Mutant: the handler is not set.                                         *)
SetIRQHandlerNot(n, h) == irq_handlers

SetIRQHandler(n, h) == [irq_handlers EXCEPT ![n] = h]

(* The redirection table after ioapic_set_irq.                             *)
IoapicSetIrq(irq, v) ==
  LET r == Route(irq)
  IN [redtbl EXCEPT ![r.gsi] = [vector |-> v, flags |-> r.flags, masked |-> FALSE]]

InitPIT ==
  /\ mode = "pit"
  /\ irq_handlers' = SetIRQHandler(PIT_IRQ, "PIT_handler")
  /\ redtbl' = IoapicSetIrq(PIT_IRQ, PIT_VECTOR)
  /\ mode' = "timer"
  /\ UNCHANGED <<madt, ioapic_paddr, iso_list, timer_on, irr, isr, iflag, vector, handled>>

(* The end of init_lapic_timer.                                            *)
InitLapicTimer ==
  /\ mode = "timer"
  /\ timer_on' = TRUE
  /\ mode' = "sti"
  /\ UNCHANGED <<madt, ioapic_paddr, iso_list, redtbl, irq_handlers, irr, isr, iflag, vector, handled>>

(* sti in kernel_main, whose thread goes on in for (;;).                   *)
Sti ==
  /\ mode = "sti"
  /\ mode' = "thread" /\ iflag' = TRUE
  /\ UNCHANGED <<setup, irr, isr, vector, handled>>

-----------------------------------------------------------------------------
(* The devices. Where the PIT's line is, the firmware says.                *)
PitLine ==
  LET ks == {k \in DOMAIN madt : madt[k].type = 2 /\ madt[k].irq = PIT_IRQ}
  IN IF ks = {} THEN [gsi |-> PIT_IRQ, flags |-> {}]
     ELSE LET e == madt[Min(ks)] IN [gsi |-> e.gsi, flags |-> e.flags]

(* The PIT's counter reaches 0: also during boot, once init_PIT has        *)
(* started it, and while pit_wait_ms uses it.                              *)
PitFires ==
  LET e == redtbl[PitLine.gsi]
  IN /\ mode \notin {"acpi", "pit"} /\ ~e.masked
     /\ irr' = irr \cup {e.vector}
     /\ UNCHANGED <<setup, isr, iflag, mode, vector, handled>>

LapicTimerFires ==
  /\ timer_on
  /\ irr' = irr \cup {TIMER_VECTOR}
  /\ UNCHANGED <<setup, isr, iflag, mode, vector, handled>>

-----------------------------------------------------------------------------
Prio(v) == v \div 16

(* The CPU goes through the gate of v, an interrupt gate: iflag is off.    *)
Enter(v) ==
  /\ mode = "thread"
  /\ mode' = "handler" /\ vector' = v /\ iflag' = FALSE
  /\ UNCHANGED <<setup, handled>>

(* The LAPIC delivers the highest vector requested, if its class is above  *)
(* that of everything in service.                                          *)
Deliver ==
  /\ iflag /\ irr # {}
  /\ \A u \in isr : Prio(Max(irr)) > Prio(u)
  /\ irr' = irr \ {Max(irr)}
  /\ isr' = isr \cup {Max(irr)}
  /\ Enter(Max(irr))

(* A request withdrawn meanwhile: the spurious vector, not in service.     *)
DeliverSpurious == iflag /\ Enter(SPURIOUS_VECTOR) /\ UNCHANGED <<irr, isr>>

(* int 0x81 in yield, with interrupts on or off.                           *)
Yield == Enter(YIELD_VECTOR) /\ UNCHANGED <<irr, isr>>

(* cli and sti in a thread: spin_lock_irqsave and spin_lock_irqrestore.    *)
ThreadIF ==
  /\ mode = "thread"
  /\ iflag' = ~iflag
  /\ UNCHANGED <<setup, irr, isr, mode, vector, handled>>

(* lapic_eoi: the highest vector in service is done.                       *)
Eoi == isr \ {Max(isr \cup {0})}

(* Mutant: the timer's handler goes straight to the scheduler.             *)
CallsEoiIrqOnly(v) == v \in (32..47) \cup {SPURIOUS_VECTOR}

(* The vectors whose handler calls lapic_eoi.                              *)
CallsEoi(v) == v \in (32..47) \cup {TIMER_VECTOR, SPURIOUS_VECTOR}

(* The handler: exception_handler, lapic_timer_handler or yield_handler,   *)
(* up to iretq, with interrupts off throughout. The two that switch may    *)
(* return to a thread that had called yield with interrupts off; the       *)
(* others return to where an interrupt was taken.                          *)
Handle ==
  /\ mode = "handler"
  /\ handled' = IF vector \in 32..47 THEN handled \cup {irq_handlers[vector - 32]} ELSE handled
  /\ isr' = IF CallsEoi(vector) THEN Eoi ELSE isr
  /\ mode' = "thread"
  /\ iflag' \in (IF vector \in {TIMER_VECTOR, YIELD_VECTOR} THEN BOOLEAN ELSE {TRUE})
  /\ UNCHANGED <<setup, irr, vector>>

Running == PitFires \/ LapicTimerFires \/ Deliver \/ DeliverSpurious \/ Yield \/ ThreadIF \/ Handle

-----------------------------------------------------------------------------
(* Whatever overrides the MADT has, the input the PIT's line is on has the *)
(* PIT's vector, with the polarity and trigger mode the firmware asks for, *)
(* and no other input is let through.                                      *)
PitRouted ==
  mode \notin {"acpi", "pit"} =>
    \A g \in Gsis :
      redtbl[g] = IF g = PitLine.gsi
                  THEN [vector |-> PIT_VECTOR, flags |-> PitLine.flags, masked |-> FALSE]
                  ELSE Masked

(* Every interrupt that is requested has a gate, and irq_handler, which    *)
(* does not test the pointer, never calls a NULL handler.                  *)
HandlersThere == irr \subseteq Gates /\ "NULL" \notin handled

(* When no handler runs nothing is in service: every interrupt gets its    *)
(* EOI before iretq, so that none blocks those of its class and below, and *)
(* the EOI that answers a spurious interrupt ends no other interrupt.      *)
NothingStuck ==
  /\ mode # "handler" => isr = {}
  /\ (mode = "handler" /\ vector = SPURIOUS_VECTOR) => isr = {}
=============================================================================
