------------------------------- MODULE Timers -------------------------------
(***************************************************************************)
(* pit_wait_ms and init_lapic_timer: the wait for the PIT's counter, which *)
(* is polled, and the rate of the LAPIC's timer measured by it.            *)
(*                                                                         *)
(* Time is counted in ticks of the PIT; between two reads of the counter   *)
(* up to MaxGap of them pass. The counter goes on at 2^W - 1 after 0.      *)
(***************************************************************************)
EXTENDS Naturals

CONSTANTS
  W,           \* the width of the counter: 16
  TicksPerMs,  \* 1193
  CalMs,       \* the 10 ms the measurement takes
  Ms,          \* the period asked for, in ms
  LapicRates,  \* ticks of the LAPIC's timer per tick of the PIT
  MaxGap       \* bound on the ticks between two reads

VARIABLES
  total_ticks,  \* what is left to wait, without the part being waited for
  wait, last,   \* the part being waited for, the last value read
  pit,          \* the counter
  passed,       \* ticks since the LAPIC's timer was started
  rate,         \* the LAPIC's rate
  initcnt,      \* LAPIC_TIMER_INITCNT, once the timer is periodic
  tpc           \* "load", "poll", "done"

tvars == <<total_ticks, wait, last, pit, passed, rate, initcnt, tpc>>

Requested == CalMs * TicksPerMs
Longest == 2^W - 1   \* 0xFFFF

ASSUME TimerShape ==
  /\ W \in Nat \ {0} /\ 2^W \in Nat
  /\ CalMs \in Nat \ {0} /\ TicksPerMs \in Nat \ {0} /\ Ms \in Nat \ {0}
  /\ MaxGap \in 1..(2^W - 1)
  /\ \A r \in LapicRates : r \in Nat /\ r * Requested >= CalMs

TInit ==
  /\ total_ticks = Requested
  /\ wait = 0 /\ last = 0 /\ pit = 0 /\ passed = 0
  /\ rate \in LapicRates
  /\ initcnt = 0
  /\ tpc = "load"

(* The start of a turn of the outer loop: the counter is loaded.           *)
Load ==
  LET w == IF total_ticks > Longest THEN Longest ELSE total_ticks
  IN /\ tpc = "load" /\ total_ticks > 0
     /\ wait' = w /\ last' = w /\ pit' = w
     /\ tpc' = "poll"
     /\ UNCHANGED <<total_ticks, passed, rate, initcnt>>

(* Mutant: the high byte is read first.                                    *)
CountReadSwapped(c) == (c % 2^(W \div 2)) * 2^(W \div 2) + c \div 2^(W \div 2)

(* The counter as the two reads of port 0x40 return it, low byte first.    *)
CountRead(c) == c

Over(count) == count > last \/ count = 0

(* A turn of the inner loop, d ticks after the one before.                 *)
Poll(d) ==
  LET now == (pit + 2^W - d) % 2^W
      count == CountRead(now)
  IN /\ tpc = "poll"
     /\ pit' = now
     /\ passed' = passed + d
     /\ IF Over(count)
        THEN total_ticks' = total_ticks - wait /\ tpc' = "load" /\ UNCHANGED last
        ELSE last' = count /\ UNCHANGED <<total_ticks, tpc>>
     /\ UNCHANGED <<wait, rate, initcnt>>

(* Mutant: the division by 10 is forgotten.                                *)
PeriodWhole(ticks) == ticks * Ms

(* ticks_per_ms * ms.                                                      *)
Period(ticks) == (ticks \div CalMs) * Ms

(* pit_wait_ms returns, the LAPIC's timer is read and made periodic.       *)
StartTimer ==
  /\ tpc = "load" /\ total_ticks = 0
  /\ initcnt' = Period(rate * passed)
  /\ tpc' = "done"
  /\ UNCHANGED <<total_ticks, wait, last, pit, passed, rate>>

TNext == Load \/ (\E d \in 0..MaxGap : Poll(d)) \/ StartTimer

Parts == (Requested + Longest - 1) \div Longest

(* The wait is never shorter than asked for, and longer at most by the     *)
(* distance of two reads for each time the counter was loaded, wherever    *)
(* the reads fall and although the counter wraps.                          *)
WaitExact == tpc = "done" => passed \in Requested..(Requested + Parts * MaxGap)

(* The timer's period is right up to what the wait was too long and less   *)
(* than one tick per ms lost in the division; in particular the timer      *)
(* runs.                                                                   *)
PeriodSound ==
  tpc = "done" =>
    /\ initcnt > 0
    /\ initcnt * CalMs + CalMs * Ms > rate * Requested * Ms
    /\ initcnt * CalMs <= rate * (Requested + Parts * MaxGap) * Ms
=============================================================================
