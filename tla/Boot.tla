-------------------------------- MODULE Boot --------------------------------
(***************************************************************************)
(* kernel_main: memory, then the interrupt controllers, then the timers,   *)
(* then interrupts on. Nothing else runs before that, but the PIT is       *)
(* started early and may ask for its interrupt while interrupts are off.   *)
(***************************************************************************)
EXTENDS BootMemory, Timers, Interrupts

BInit == MInit /\ TInit /\ IInit

(* init_PMM, init_VMM, init_kheap.                                         *)
BootsMemory == mpc # "done" /\ MNext /\ UNCHANGED <<tvars, ivars>>

(* parse_acpi and init_PIT.                                                *)
BootsIrq == mpc = "done" /\ (ParseAcpi \/ InitPIT) /\ UNCHANGED <<mvars, tvars>>

(* init_lapic_timer: the measurement, then the timer is on.                *)
BootsTimer ==
  /\ mode = "timer" /\ UNCHANGED mvars
  /\ \/ (Load \/ (\E d \in 0..MaxGap : Poll(d))) /\ UNCHANGED ivars
     \/ StartTimer /\ InitLapicTimer

(* sti, and everything after.                                              *)
Runs == (Sti \/ Running) /\ UNCHANGED <<mvars, tvars>>

BNext == BootsMemory \/ BootsIrq \/ BootsTimer \/ Runs

BSpec == BInit /\ [][BNext]_<<mvars, tvars, ivars>>
=============================================================================
