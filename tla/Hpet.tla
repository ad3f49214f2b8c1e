------------------------------- MODULE Hpet -------------------------------
(***************************************************************************)
(* The HPET of src/lib/vmm/io/vhpet.c.  Every function runs under          *)
(* VHPET_LOCK and is one action; a timer's handler is called by the        *)
(* callout thread, which takes the lock some time after the callout left   *)
(* the queue, so a write of the guest may come between.                    *)
(*                                                                         *)
(* The model keeps the value of the main counter and, for each timer, how  *)
(* far its callout_sbt is ahead (-1: in the past) instead of absolute      *)
(* times.  A unit of time is one count (freq_sbt).  An edge or message     *)
(* interrupt leaves no trace; a level one holds a line of the I/O APIC.    *)
(***************************************************************************)
EXTENDS Integers, FiniteSets

CONSTANTS Timers,        \* the comparators
          CounterSpan,   \* the counter counts modulo this (2^32)
          Routes,        \* I/O APIC pins a guest may ask for; 0 is "none"
          AllowedRoutes, \* allowed_irqs
          CompWrites     \* what the guest writes to a comparator

ASSUME HpetAssumption == /\ CounterSpan \in Nat \ {0, 1} /\ AllowedRoutes \subseteq Routes \ {0}
                         /\ CompWrites \subseteq 0 .. CounterSpan - 1

VARIABLES hpet,          \* config and countbase: [on, counter]
          timer,         \* timer[n]: configuration, comparator and callout
          lines,         \* ghost: lines[n][p], assertions of pin p not yet withdrawn
          owed           \* ghost: timers whose comparator matched, interrupt still to come
hpetVars == <<hpet, timer, lines, owed>>

TimerReset ==
  [enb |-> FALSE, level |-> FALSE, fsb |-> FALSE, periodic |-> FALSE, valset |-> FALSE,
   route |-> 0, compval |-> CounterSpan - 1, comprate |-> 0, isr |-> FALSE,
   ahead |-> 0, active |-> FALSE, pending |-> FALSE, called |-> FALSE]

vhpet_init ==
  /\ hpet = [on |-> FALSE, counter |-> 0]
  /\ timer = [n \in Timers |-> TimerReset]
  /\ lines = [n \in Timers |-> [p \in Routes |-> 0]]
  /\ owed = {}

\* vhpet_timer_ioapic_pin: a timer that uses messages has no pin.
vhpet_timer_ioapic_pin(t) == IF t.fsb THEN 0 ELSE t.route

\* vhpet_timer_interrupt: what becomes of the timer and of its line.
Interrupts(t) == t.enb /\ ~t.isr
Asserts(t) == Interrupts(t) /\ vhpet_timer_ioapic_pin(t) # 0 /\ t.level
vhpet_timer_interrupt(t) == [t EXCEPT !.isr = @ \/ Asserts(t)]
Asserted(l, t) == IF Asserts(t) THEN [l EXCEPT ![vhpet_timer_ioapic_pin(t)] = @ + 1] ELSE l

\* vhpet_adjust_compval: the next multiple of the rate after the counter.
vhpet_adjust_compval(t, c) ==
  (t.compval + (((c - t.compval) % CounterSpan) \div t.comprate + 1) * t.comprate) % CounterSpan

\* vhpet_start_timer.
vhpet_start_timer(t, c) ==
  LET v == IF t.comprate # 0 THEN vhpet_adjust_compval(t, c) ELSE t.compval
  IN [t EXCEPT !.compval = v, !.ahead = (v - c) % CounterSpan,
               !.active = TRUE, !.pending = TRUE]

\* vhpet_stop_timer: callout_stop, and the interrupt if it is overdue.
StopFires(t) == t.ahead < 0
vhpet_stop_timer(t) ==
  LET s == [t EXCEPT !.active = FALSE, !.pending = FALSE]
  IN IF StopFires(t) THEN vhpet_timer_interrupt(s) ELSE s

-----------------------------------------------------------------------------
(* Time and the callout thread.                                            *)

HpetTick ==
  /\ hpet.on
  /\ hpet' = [hpet EXCEPT !.counter = (@ + 1) % CounterSpan]
  /\ timer' = [n \in Timers |-> [timer[n] EXCEPT !.ahead = IF @ < 0 THEN @ ELSE @ - 1]]
  /\ owed' = owed \cup {n \in Timers : timer[n].active /\ timer[n].ahead = 0}
  /\ UNCHANGED lines

\* The callout thread takes a due callout off its queue and calls the handler.
HpetExpire(n) ==
  /\ timer[n].pending /\ timer[n].ahead <= 0 /\ \A m \in Timers : ~timer[m].called
  /\ timer' = [timer EXCEPT ![n].pending = FALSE, ![n].called = TRUE]
  /\ UNCHANGED <<hpet, lines, owed>>

\* vhpet_handler once it has the lock.
vhpet_handler(n) ==
  LET t == [timer[n] EXCEPT !.called = FALSE]
      s == vhpet_start_timer(t, hpet.counter)
  IN /\ timer[n].called
     /\ UNCHANGED hpet
     /\ IF t.pending \/ ~t.active
          THEN timer' = [timer EXCEPT ![n] = t] /\ UNCHANGED <<lines, owed>>
          ELSE /\ timer' = [timer EXCEPT ![n] = vhpet_timer_interrupt(s)]
               /\ lines' = [lines EXCEPT ![n] = Asserted(@, s)]
               /\ owed' = owed \ {n}

-----------------------------------------------------------------------------
(* vhpet_mmio_write.                                                       *)

\* HPET_CONFIG: vhpet_start_counting and vhpet_stop_counting.
WriteConfig ==
  /\ hpet' = [hpet EXCEPT !.on = ~@]
  /\ IF hpet.on
       THEN /\ timer' = [n \in Timers |-> vhpet_stop_timer(timer[n])]
            /\ lines' = [n \in Timers |-> IF StopFires(timer[n]) THEN Asserted(lines[n], timer[n]) ELSE lines[n]]
            /\ owed' = {n \in owed : ~StopFires(timer[n])}
       ELSE /\ timer' = [n \in Timers |-> vhpet_start_timer(timer[n], hpet.counter)]
            /\ UNCHANGED <<lines, owed>>

\* HPET_ISR: vhpet_timer_clear_isr.
WriteIsr(S) ==
  /\ S # {} /\ \A n \in S : timer[n].isr
  /\ timer' = [n \in Timers |-> [timer[n] EXCEPT !.isr = @ /\ n \notin S]]
  /\ lines' = [n \in Timers |-> IF n \in S
                 THEN [lines[n] EXCEPT ![vhpet_timer_ioapic_pin(timer[n])] = @ - 1] ELSE lines[n]]
  /\ UNCHANGED <<hpet, owed>>

\* HPET_MAIN_COUNTER: the timers start again from the new value.
WriteCounter(v) ==
  /\ hpet' = [hpet EXCEPT !.counter = v]
  /\ IF hpet.on THEN timer' = [n \in Timers |-> vhpet_start_timer(timer[n], v)] /\ owed' = {}
                ELSE UNCHANGED <<timer, owed>>
  /\ UNCHANGED lines

\* vhpet_timer_update_config: the interrupt must go when it is disabled, is no
\* longer level triggered, or moves to another pin.
Withdraws(t, s) ==
  t.isr /\ (~s.enb \/ s.fsb \/ ~s.level \/ vhpet_timer_ioapic_pin(s) # vhpet_timer_ioapic_pin(t))

vhpet_timer_update_config(n, c) ==
  LET t == timer[n]
      pin == IF ~c.fsb /\ c.route \notin AllowedRoutes THEN 0 ELSE c.route
      s == [t EXCEPT !.enb = c.enb, !.level = c.level, !.fsb = c.fsb, !.periodic = c.periodic,
                     !.valset = c.valset, !.route = pin,
                     !.comprate = IF c.periodic THEN @ ELSE 0]
  IN /\ [x \in DOMAIN c |-> t[x]] # c
     /\ timer' = [timer EXCEPT ![n] = [s EXCEPT !.isr = @ /\ ~Withdraws(t, s)]]
     /\ lines' = IF Withdraws(t, s) THEN [lines EXCEPT ![n][vhpet_timer_ioapic_pin(t)] = @ - 1] ELSE lines
     /\ UNCHANGED <<hpet, owed>>

\* HPET_TIMER_COMPARATOR.
WriteComparator(n, v) ==
  LET t == timer[n]
      s == [t EXCEPT !.comprate = IF t.periodic THEN v ELSE @,
                     !.compval = IF t.periodic => t.valset THEN v ELSE @,
                     !.valset = FALSE]
      moved == s.compval # t.compval \/ s.comprate # t.comprate
  IN /\ timer' = [timer EXCEPT ![n] = IF moved /\ hpet.on THEN vhpet_start_timer(s, hpet.counter) ELSE s]
     /\ owed' = IF moved /\ hpet.on THEN owed \ {n} ELSE owed
     /\ UNCHANGED <<hpet, lines>>

HpetConfigs == [enb : BOOLEAN, level : BOOLEAN, fsb : BOOLEAN, periodic : BOOLEAN,
                valset : BOOLEAN, route : Routes]

HpetNext(Configs) ==
  \/ HpetTick
  \/ WriteConfig
  \/ \E S \in SUBSET Timers : WriteIsr(S)
  \/ \E v \in CompWrites : WriteCounter(v)
  \/ \E n \in Timers : \/ HpetExpire(n)
                       \/ vhpet_handler(n)
                       \/ \E c \in Configs : vhpet_timer_update_config(n, c)
                       \/ \E v \in CompWrites : WriteComparator(n, v)

-----------------------------------------------------------------------------
(* Properties.                                                             *)

\* The level triggered interrupt of a timer never stays asserted for ever, nor
\* is it withdrawn twice: whatever the guest reconfigured, and in whatever
\* order, the timer holds exactly the pin its ISR bit and its present routing
\* name.  The aborts and KASSERTs on the ISR bit follow.
IsrHoldsPin ==
  \A n \in Timers, p \in Routes :
    lines[n][p] = IF timer[n].isr /\ vhpet_timer_ioapic_pin(timer[n]) = p /\ p # 0 THEN 1 ELSE 0

\* "Failing to do so will result in a missed timer interrupt in the guest": a
\* match whose handler has not run yet still has a handler to come, unless the
\* guest moved the comparator or the counter; and no handler ever finds the
\* counter stopped, which would abort.
MatchServed ==
  \A n \in Timers :
    /\ n \in owed => timer[n].active /\ (timer[n].pending \/ timer[n].called)
    /\ timer[n].active => hpet.on
=============================================================================
