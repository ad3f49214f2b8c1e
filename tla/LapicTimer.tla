---------------------------- MODULE LapicTimer ----------------------------
(***************************************************************************)
(* The timer and the local vector table of src/lib/vmm/io/vlapic.c.  The   *)
(* vcpu writes registers; vlapic_callout_handler runs in the callout       *)
(* thread under VLAPIC_TIMER_LOCK; any thread may trigger a LINT pin.  The *)
(* software disable of vlapic_svr_write_handler is two steps: it stops the *)
(* timer under the lock, then masks the table without it.                  *)
(*                                                                         *)
(* A unit of time is a tick of the undivided timer clock: a count of n     *)
(* with divisor d takes n * d of them.                                     *)
(***************************************************************************)
EXTENDS Integers, FiniteSets

CONSTANTS Divisors,    \* values of the divide configuration register
          Counts       \* values of the initial count register
ASSUME LapicTimerAssumption == Divisors \subseteq Nat \ {0} /\ Counts \subseteq Nat

Lvts == {"timer", "lint0", "error"}

VARIABLES
  lt,       \* svr, icr_timer, divisor, timer_period_bt, esr_pending
  lvt,      \* lvt_last[e]: masked, periodic, bad (vector below 16), extint
  ltcall,   \* the callout and timer_fire_bt: active, pending, called, ticks until due
  disabling,\* vlapic_svr_write_handler has stopped the timer but not masked the table
  sent      \* ghost: what the last step delivered
ltVars == <<lt, lvt, ltcall, disabling, sent>>

MaskedLvt == [masked |-> TRUE, periodic |-> FALSE, bad |-> FALSE, extint |-> FALSE]
LtInit ==
  /\ lt = [svr |-> FALSE, icr |-> 0, div |-> 2, period |-> 0, esr |-> FALSE]   \* vlapic_reset
  /\ lvt = [e \in Lvts |-> MaskedLvt]
  /\ ltcall = [active |-> FALSE, pending |-> FALSE, called |-> FALSE, due |-> 0]
  /\ disabling = FALSE /\ sent = {}

\* vlapic_fire_lvt: the entries that send something.  A vector below 16 is an
\* error, and fires the error entry once (esr_firing).
Fires(e) == ~lvt[e].masked /\ ~lvt[e].bad
Fire(e) == IF Fires(e) THEN {e}
           ELSE IF ~lvt[e].masked /\ lvt[e].bad /\ e # "error" /\ Fires("error") THEN {"error"} ELSE {}
Illegal(e) == ~lvt[e].masked /\ lvt[e].bad

\* The due time is read while the callout is active.
LtTick == /\ ltcall.active
          /\ ltcall' = [ltcall EXCEPT !.due = IF @ <= -lt.period THEN @ ELSE @ - 1]
          /\ sent' = {} /\ UNCHANGED <<lt, lvt, disabling>>

LtExpire ==
  /\ ltcall.pending /\ ltcall.due <= 0 /\ ~ltcall.called
  /\ ltcall' = [ltcall EXCEPT !.pending = FALSE, !.called = TRUE]
  /\ sent' = {} /\ UNCHANGED <<lt, lvt, disabling>>

\* A periodic timer that is late by less than a period catches up.
NextDue(c) == IF -c.due < lt.period THEN lt.period + c.due ELSE lt.period

vlapic_callout_handler ==
  LET c == [ltcall EXCEPT !.called = FALSE]
  IN /\ ltcall.called
     /\ IF c.pending \/ ~c.active
          THEN ltcall' = c /\ sent' = {} /\ UNCHANGED lt
          ELSE /\ sent' = Fire("timer")
               /\ lt' = [lt EXCEPT !.esr = @ \/ Illegal("timer")]
               /\ ltcall' = IF lvt["timer"].periodic
                              THEN [c EXCEPT !.pending = TRUE, !.due = NextDue(c)]
                              ELSE [c EXCEPT !.active = FALSE, !.due = 0]
     /\ UNCHANGED <<lvt, disabling>>

-----------------------------------------------------------------------------
(* Register writes of the vcpu.                                            *)

\* vlapic_icrtmr_write_handler: (re)start or stop.
Countdown(c, n, d) == IF n # 0 THEN [c EXCEPT !.active = TRUE, !.pending = TRUE, !.due = n * d]
                    ELSE [c EXCEPT !.active = FALSE, !.pending = FALSE, !.due = 0]

vlapic_icrtmr_write_handler(n) ==
  /\ ~disabling
  /\ lt' = [lt EXCEPT !.icr = n, !.period = n * lt.div]
  /\ ltcall' = Countdown(ltcall, n, lt.div)
  /\ sent' = {} /\ UNCHANGED <<lvt, disabling>>

\* vlapic_dcr_write_handler: a running count goes on to the old due time.
vlapic_dcr_write_handler(d) ==
  /\ ~disabling
  /\ lt' = [lt EXCEPT !.div = d, !.period = lt.icr * d]
  /\ sent' = {} /\ UNCHANGED <<lvt, ltcall, disabling>>

\* vlapic_lvt_write_handler: masked while the APIC is software disabled.
LvtValue(v) == [v EXCEPT !.masked = @ \/ ~lt.svr]
vlapic_lvt_write_handler(e, v) ==
  /\ ~disabling /\ lvt[e] # LvtValue(v)
  /\ lvt' = [lvt EXCEPT ![e] = LvtValue(v)]
  /\ sent' = {} /\ UNCHANGED <<lt, ltcall, disabling>>

\* vlapic_svr_write_handler.
SvrEnable ==
  /\ ~disabling /\ ~lt.svr
  /\ lt' = [lt EXCEPT !.svr = TRUE, !.period = IF lvt["timer"].periodic THEN lt.icr * lt.div ELSE @]
  /\ ltcall' = IF lvt["timer"].periodic THEN Countdown(ltcall, lt.icr, lt.div) ELSE ltcall
  /\ sent' = {} /\ UNCHANGED <<lvt, disabling>>
StoppedTimer(c) == [c EXCEPT !.active = FALSE, !.pending = FALSE, !.due = 0]
SvrDisable ==
  /\ ~disabling /\ lt.svr
  /\ lt' = [lt EXCEPT !.svr = FALSE]
  /\ ltcall' = StoppedTimer(ltcall)
  /\ disabling' = TRUE
  /\ sent' = {} /\ UNCHANGED lvt

\* vlapic_mask_lvts, one table entry at a time as far as other threads see.
vlapic_mask_lvts ==
  /\ disabling
  /\ LET open == {e \in Lvts : ~lvt[e].masked}
     IN IF open = {} THEN disabling' = FALSE /\ UNCHANGED lvt
        ELSE \E e \in open : lvt' = [lvt EXCEPT ![e].masked = TRUE] /\ UNCHANGED disabling
  /\ sent' = {} /\ UNCHANGED <<lt, ltcall>>

\* vlapic_trigger_lvt of LINT0 by another thread.
vlapic_trigger_lvt ==
  /\ sent' = Fire("lint0")
  /\ lt' = [lt EXCEPT !.esr = @ \/ Illegal("lint0")]
  /\ UNCHANGED <<lvt, ltcall, disabling>>

\* vlapic_esr_write_handler.
vlapic_esr_write_handler == /\ ~disabling /\ lt' = [lt EXCEPT !.esr = FALSE]
                            /\ sent' = {} /\ UNCHANGED <<lvt, ltcall, disabling>>

\* vlapic_get_ccr: the remaining time in counts of the present divisor.
vlapic_get_ccr == IF ltcall.active /\ ltcall.due > 0 THEN ltcall.due \div lt.div ELSE 0

LtNext ==
  \/ LtTick \/ LtExpire \/ vlapic_callout_handler
  \/ \E n \in Counts : vlapic_icrtmr_write_handler(n)
  \/ \E d \in Divisors : vlapic_dcr_write_handler(d)
  \/ \E e \in Lvts, m, p, b \in BOOLEAN :
       vlapic_lvt_write_handler(e, [masked |-> m, periodic |-> p /\ e = "timer",
                                    bad |-> b, extint |-> e = "lint0"])
  \/ SvrEnable \/ SvrDisable \/ vlapic_mask_lvts
  \/ vlapic_trigger_lvt
  \/ vlapic_esr_write_handler

-----------------------------------------------------------------------------
(* Properties.                                                             *)

\* A software disabled APIC sends nothing from its vector table once the write
\* that disabled it is complete, although the guest may unmask entries and arm
\* the timer again, and a timer handler or a LINT trigger may be on its way.
QuietWhenDisabled == sent # {} => lt.svr \/ disabling
=============================================================================
