-------------------------------- MODULE Apic --------------------------------
(***************************************************************************)
(* The I/O APIC (vioapic.c) and the local APICs (vlapic.c, vmm_lapic.c):   *)
(* pins asserted by devices, message signalled interrupts and interrupts   *)
(* between processors travel through the request and in-service registers  *)
(* of the local APICs.  A level triggered pin keeps its Remote IRR bit     *)
(* until the end of interrupt comes back; it comes back only if the vector *)
(* is marked as level triggered in the TMR of the processor that services  *)
(* it, and these marks are recomputed by all processors in a rendezvous    *)
(* whenever a redirection entry changes.                                   *)
(*                                                                         *)
(* Vectors are scaled: PerPrio of them (16 in the code) make one priority  *)
(* class, and the first class is illegal.  Destinations have Width bits.   *)
(***************************************************************************)
EXTENDS Integers, FiniteSets, Sequences, Bitwise

CONSTANTS
  Cpus,      \* processors, 0 .. n - 1; 0 is the boot processor
  Pins,      \* pins of the I/O APIC
  PerPrio,   \* vectors per priority class
  MaxVector, \* the largest vector
  Width,     \* bits of a destination
  MaxAcnt,   \* bound: devices that assert one pin at a time
  PinVecs,   \* vectors the guest gives to pins
  MsgVecs,   \* vectors the guest uses for messages (MSI, IPI)
  Tprs,      \* values the guest writes to the task priority register
  TprCpus,   \* bound: processors on which it does
  Triggers,  \* trigger modes (level) of the entries the guest writes
  Ldr, Model,\* the logical destination and its model the guest gives to a processor
  Dests,     \* destinations the guest uses
  Modes,     \* <<phys, lowprio>> of the entries the guest writes
  Careful    \* whether the guest reprograms only entries that are masked and idle

ASSUME ApicAssumption ==
  /\ 0 \in Cpus /\ Cpus \subseteq Nat /\ PerPrio \in Nat \ {0} /\ Width \in Nat \ {0}
  /\ PinVecs \cup MsgVecs \subseteq PerPrio .. MaxVector

VARIABLES
  lapic,   \* the registers of the local APICs
  rtbl,    \* the redirection table, with the assertion count of each pin
  active,  \* processors that run (vm_active_cpus)
  at,      \* where the thread of each processor is
  wr,      \* the entry a processor is writing
  rdv      \* processors that have yet to take part in the rendezvous

apicVars == <<lapic, rtbl, active, at, wr, rdv>>

Vectors == 0 .. MaxVector
PRIO(v) == v \div PerPrio
NoWrite == [pin |-> -1, cpus |-> {}]
Broadcast == 2 ^ Width - 1

\* vlapic_reset: everything edge triggered, software disabled, the logical
\* destination empty in the flat model; the boot processor runs, the others
\* wait for INIT.
ResetLapic(c) ==
  [svr |-> FALSE, tpr |-> 0, ppr |-> 0, irr |-> {}, isr |-> {}, stk |-> <<>>, tmr |-> {},
   ldr |-> 0, dfr |-> "flat", boot |-> IF c = 0 THEN "running" ELSE "init"]

\* vioapic_init: every entry masked, edge triggered, fixed, physical.
ResetEntry ==
  [mask |-> TRUE, level |-> FALSE, phys |-> TRUE, lowprio |-> FALSE, dest |-> 0, vec |-> 0,
   rirr |-> FALSE, acnt |-> 0]

ApicInit ==
  /\ lapic = [c \in Cpus |-> ResetLapic(c)]
  /\ rtbl = [p \in Pins |-> ResetEntry]
  /\ active = {0}
  /\ at = [c \in Cpus |-> IF c = 0 THEN "inject" ELSE "off"]
  /\ wr = [c \in Cpus |-> NoWrite]
  /\ rdv = {}

-----------------------------------------------------------------------------
(* Operators on the registers of the local APICs.                          *)

\* Whether a processor matches a logical destination in its own model.
Matches(l, dest) ==
  LET half == 2 ^ (Width \div 2)
  IN \/ l.dfr = "flat" /\ (dest & l.ldr) # 0
     \/ /\ l.dfr = "cluster" /\ dest \div half = l.ldr \div half
        /\ ((dest % half) & (l.ldr % half)) # 0

\* The processors a (dest, phys, lowprio) tuple addresses.  A broadcast and a
\* logical destination only reach active processors, a physical one any; the
\* lowest priority mode picks the first that matches.
vlapic_calcdest(dest, phys, lowprio) ==
  LET logical == {c \in active : Matches(lapic[c], dest)}
  IN IF dest = Broadcast THEN active
     ELSE IF phys THEN {dest} \cap Cpus
     ELSE IF lowprio THEN {c \in logical : \A d \in logical : c <= d}
     ELSE logical

\* lapic_set_intr and vlapic_set_intr_ready: illegal vectors and local APICs
\* that are software disabled ignore the interrupt.
SetIntr(ls, cpus, vec) ==
  [c \in Cpus |-> IF c \in cpus /\ ls[c].svr /\ vec >= PerPrio
                    THEN [ls[c] EXCEPT !.irr = @ \cup {vec}] ELSE ls[c]]

Top(s) == IF s = <<>> THEN 0 ELSE s[Len(s)]

\* vlapic_update_ppr
UpdatePpr(l) ==
  [l EXCEPT !.ppr = IF PRIO(l.tpr) >= PRIO(Top(l.stk)) THEN l.tpr
                      ELSE PRIO(Top(l.stk)) * PerPrio]

Highest(S) == CHOOSE v \in S : \A w \in S : w <= v

\* Faulty variant: a request of the same class as the one in service is let through.
vlapic_pending_intr_SameClass(l) == l.irr # {} /\ PRIO(Highest(l.irr)) >= PRIO(l.ppr)

\* vlapic_pending_intr: only the highest requested vector is looked at.
vlapic_pending_intr(l) == l.irr # {} /\ PRIO(Highest(l.irr)) > PRIO(l.ppr)

vlapic_intr_accepted(l, v) ==
  UpdatePpr([l EXCEPT !.irr = @ \ {v}, !.isr = @ \cup {v}, !.stk = Append(@, v)])

-----------------------------------------------------------------------------
(* Operators of the I/O APIC.  They map a pair of redirection table and    *)
(* local APICs to the pair after the operation.                            *)

vioapic_send_intr(r, ls, p) ==
  LET e == r[p]
  IN IF e.mask THEN <<r, ls>>
     ELSE <<[r EXCEPT ![p].rirr = @ \/ e.level],
            SetIntr(ls, vlapic_calcdest(e.dest, e.phys, e.lowprio), e.vec)>>

\* vioapic_set_pinstate: only the first assertion sends an interrupt.
SetPin(r, ls, p, up) ==
  LET n == [r EXCEPT ![p].acnt = IF up THEN @ + 1 ELSE @ - 1]
  IN IF up /\ r[p].acnt = 0 THEN vioapic_send_intr(n, ls, p) ELSE <<n, ls>>

\* The pins whose interrupt an end of interrupt for vector v completes are sent
\* again if they are still asserted.  (The pins are independent of one another.)
vioapic_process_eoi(r, ls, v) ==
  LET done == {p \in Pins : r[p].rirr /\ r[p].vec = v}
      again == {p \in done : r[p].acnt > 0 /\ ~ r[p].mask}
  IN <<[p \in Pins |-> IF p \in done THEN [r[p] EXCEPT !.rirr = p \in again /\ r[p].level] ELSE r[p]],
       SetIntr(ls, UNION {vlapic_calcdest(r[p].dest, r[p].phys, r[p].lowprio) : p \in again}, v)>>

\* The end of vioapic_write: an entry that is unmasked, whose last interrupt is
\* complete and whose pin is asserted is sent.
Recheck(r, ls, p) ==
  IF ~ r[p].mask /\ ~ r[p].rirr /\ r[p].acnt > 0 THEN vioapic_send_intr(r, ls, p) ELSE <<r, ls>>

\* Faulty variant: entries that are masked are passed over.
TmrOf_Unmasked(c) ==
  {rtbl[p].vec : p \in {q \in Pins :
     rtbl[q].level /\ ~ rtbl[q].mask
       /\ c \in vlapic_calcdest(rtbl[q].dest, rtbl[q].phys, rtbl[q].lowprio)}}

\* vioapic_update_tmr: the vectors of the level triggered entries that address c.
TmrOf(c) ==
  {rtbl[p].vec : p \in {q \in Pins :
     rtbl[q].level /\ c \in vlapic_calcdest(rtbl[q].dest, rtbl[q].phys, rtbl[q].lowprio)}}

Result(x) == rtbl' = x[1] /\ lapic' = x[2]

-----------------------------------------------------------------------------
(* Devices.                                                                *)

vioapic_assert_irq(p) ==
  /\ rtbl[p].acnt < MaxAcnt
  /\ Result(SetPin(rtbl, lapic, p, TRUE))
  /\ UNCHANGED <<active, at, wr, rdv>>

vioapic_deassert_irq(p) ==
  /\ rtbl[p].acnt > 0
  /\ Result(SetPin(rtbl, lapic, p, FALSE))
  /\ UNCHANGED <<active, at, wr, rdv>>

vioapic_pulse_irq(p) ==
  /\ LET x == SetPin(rtbl, lapic, p, TRUE) IN Result(SetPin(x[1], x[2], p, FALSE))
  /\ UNCHANGED <<active, at, wr, rdv>>

\* A message is always edge triggered; its destination is logical only if both
\* the redirection hint and the destination mode say so.
lapic_intr_msi(dest, rh, log, vec) ==
  /\ lapic' = SetIntr(lapic, vlapic_calcdest(dest, ~ (rh /\ log), FALSE), vec)
  /\ UNCHANGED <<rtbl, active, at, wr, rdv>>

-----------------------------------------------------------------------------
(* The loop of a processor: inject, look for a rendezvous, run the guest.  *)

Goto(c, l) == at' = [at EXCEPT ![c] = l]

\* vmx_inject_interrupts and the check that follows it: the pending vector is
\* accepted unless the guest cannot take an interrupt now, then any rendezvous
\* in progress keeps c out of the guest.
Inject(c) ==
  /\ at[c] = "inject"
  /\ \/ /\ vlapic_pending_intr(lapic[c])
        /\ lapic' = [lapic EXCEPT ![c] = vlapic_intr_accepted(@, Highest(@.irr))]
     \/ UNCHANGED lapic
  /\ Goto(c, IF rdv = {} THEN "guest" ELSE "rdv")
  /\ UNCHANGED <<rtbl, active, wr, rdv>>

\* vm_handle_rendezvous: c plays its part, once, wherever it waits.
vioapic_update_tmr(c) ==
  /\ c \in rdv /\ at[c] \in {"rdv", "unlocked", "wait"}
  /\ lapic' = [lapic EXCEPT ![c].tmr = TmrOf(c)]
  /\ rdv' = rdv \ {c}
  /\ UNCHANGED <<rtbl, active, at, wr>>

RdvDone(c) ==
  /\ at[c] = "rdv" /\ rdv = {}
  /\ Goto(c, "inject")
  /\ UNCHANGED <<lapic, rtbl, active, wr, rdv>>

-----------------------------------------------------------------------------
(* What the guest does, handled on the thread of its processor.            *)

Guest(c) == at[c] = "guest"

\* An exit that touches no APIC (a kick, for instance).
Exit(c) == Guest(c) /\ Goto(c, "inject") /\ UNCHANGED <<lapic, rtbl, active, wr, rdv>>

\* The highest vector in service ends; the I/O APIC learns of it only if the TMR
\* says that the vector is level triggered.
vlapic_process_eoi(c) ==
  /\ Guest(c) /\ lapic[c].isr # {}
  /\ LET v == Highest(lapic[c].isr)
         l == UpdatePpr([lapic[c] EXCEPT !.isr = @ \ {v}, !.stk = SubSeq(@, 1, Len(@) - 1)])
         ls == [lapic EXCEPT ![c] = l]
     IN IF v \in l.tmr THEN Result(vioapic_process_eoi(rtbl, ls, v))
                       ELSE Result(<<rtbl, ls>>)
  /\ Goto(c, "inject") /\ UNCHANGED <<active, wr, rdv>>

vlapic_set_tpr(c, v) ==
  /\ Guest(c) /\ lapic[c].tpr # v
  /\ lapic' = [lapic EXCEPT ![c] = UpdatePpr([@ EXCEPT !.tpr = v])]
  /\ Goto(c, "inject") /\ UNCHANGED <<rtbl, active, wr, rdv>>

\* The processors an interrupt command addresses.
IpiDest(c, shorthand, dest, phys) ==
  CASE shorthand = "dest" -> vlapic_calcdest(dest, phys, FALSE)
    [] shorthand = "self" -> {c}
    [] shorthand = "all" -> active
    [] shorthand = "others" -> active \ {c}

\* vlapic_icrlo_write_handler, fixed delivery.
Ipi(c, shorthand, dest, phys, vec) ==
  /\ Guest(c)
  /\ lapic' = SetIntr(lapic, IpiDest(c, shorthand, dest, phys), vec)
  /\ Goto(c, "inject") /\ UNCHANGED <<rtbl, active, wr, rdv>>

\* INIT, from the boot processor only: init -> waiting for SIPI.
IpiInit(c, d) ==
  /\ Guest(c) /\ c = 0 /\ d # 0
  /\ lapic' = [lapic EXCEPT ![d].boot = IF @ = "init" THEN "sipi" ELSE @]
  /\ Goto(c, "inject") /\ UNCHANGED <<rtbl, active, wr, rdv>>

\* STARTUP: ignored unless the processor waits for it.
IpiStartup(c, d) ==
  /\ Guest(c) /\ c = 0 /\ d # 0
  /\ lapic' = [lapic EXCEPT ![d].boot = IF @ = "sipi" THEN "running" ELSE @]
  /\ Goto(c, "inject") /\ UNCHANGED <<rtbl, active, wr, rdv>>

\* The exit SPINUP_AP starts the thread of the processor (vm_activate_cpu).
SpinUp(d) ==
  /\ d \notin active /\ lapic[d].boot = "running"
  /\ active' = active \cup {d} /\ Goto(d, "inject")
  /\ UNCHANGED <<lapic, rtbl, wr, rdv>>

Programmed == \E p \in Pins : [rtbl[p] EXCEPT !.acnt = 0] # ResetEntry

vlapic_ldr_write_handler(c) ==
  /\ Guest(c) /\ (Careful => ~ Programmed)
  /\ lapic' = [lapic EXCEPT ![c].ldr = Ldr]
  /\ Goto(c, "inject") /\ UNCHANGED <<rtbl, active, wr, rdv>>

vlapic_dfr_write_handler(c) ==
  /\ Guest(c) /\ (Careful => ~ Programmed)
  /\ lapic' = [lapic EXCEPT ![c].dfr = Model]
  /\ Goto(c, "inject") /\ UNCHANGED <<rtbl, active, wr, rdv>>

\* The software enable bit (the timer and the LVT are in LapicTimer).
vlapic_svr_write_handler(c, on) ==
  /\ Guest(c)
  /\ Careful => on /\ lapic[c].ldr = Ldr /\ lapic[c].dfr = Model
  /\ lapic' = [lapic EXCEPT ![c].svr = on]
  /\ Goto(c, "inject") /\ UNCHANGED <<rtbl, active, wr, rdv>>

-----------------------------------------------------------------------------
(* Writing a redirection entry.                                            *)

\* The two halves of an entry the guest can write.
Low(p, m, lv, ph, lo, v) ==
  [rtbl[p] EXCEPT !.mask = m, !.level = lv, !.phys = ph, !.lowprio = lo, !.vec = v]
High(p, d) == [rtbl[p] EXCEPT !.dest = d]

\* A guest that is careful starts all processors first, addresses ones that
\* take interrupts, writes one entry at a time and changes more than the mask
\* only of an entry that is masked, stays masked and has no interrupt on its way.
GuestMay(p, e) ==
  Careful =>
    /\ active = Cpus /\ \A c \in Cpus : lapic[c].svr /\ wr[c] = NoWrite
    /\ e = [rtbl[p] EXCEPT !.mask = e.mask] \/ (rtbl[p].mask /\ e.mask /\ ~ rtbl[p].rirr)
    /\ ~ e.mask => vlapic_calcdest(e.dest, e.phys, e.lowprio) # {}

\* Faulty variant: the write also clears Remote IRR.
Stored_Rw(p, e) == [rtbl EXCEPT ![p] = [e EXCEPT !.rirr = FALSE]]

\* The entry as stored: Remote IRR (and the assertion count) are read-only.
Stored(p, e) == [rtbl EXCEPT ![p] = e]

\* vioapic_write: the writable bits are stored.  If more than the mask changed,
\* the lock is dropped for a rendezvous of the processors that are active now.
vioapic_write(c, p, e) ==
  /\ Guest(c) /\ GuestMay(p, e)
  /\ LET r == Stored(p, e)
     IN IF e = [rtbl[p] EXCEPT !.mask = e.mask]
          THEN Result(Recheck(r, lapic, p)) /\ Goto(c, "inject") /\ UNCHANGED wr
          ELSE /\ Result(<<r, lapic>>) /\ Goto(c, "unlocked")
               /\ wr' = [wr EXCEPT ![c] = [pin |-> p, cpus |-> active]]
  /\ UNCHANGED <<active, rdv>>

\* vm_smp_rendezvous: once no other rendezvous is in progress.
Rendezvous(c) ==
  /\ at[c] = "unlocked" /\ rdv = {}
  /\ rdv' = wr[c].cpus /\ Goto(c, "wait")
  /\ UNCHANGED <<lapic, rtbl, active, wr>>

\* The lock is taken again and the entry looked at.
WriteEnds(c) ==
  /\ at[c] = "wait" /\ rdv = {}
  /\ Result(Recheck(rtbl, lapic, wr[c].pin))
  /\ wr' = [wr EXCEPT ![c] = NoWrite] /\ Goto(c, "inject")
  /\ UNCHANGED <<active, rdv>>

GuestStep(c) ==
  \/ Exit(c) \/ vlapic_process_eoi(c)
  \/ c \in TprCpus /\ \E v \in Tprs : vlapic_set_tpr(c, v)
  \/ \E v \in MsgVecs : \/ \E s \in {"self", "all", "others"} : Ipi(c, s, 0, TRUE, v)
                        \/ \E d \in Dests, ph \in BOOLEAN : Ipi(c, "dest", d, ph, v)
  \/ \E d \in Cpus : IpiInit(c, d) \/ IpiStartup(c, d)
  \/ vlapic_ldr_write_handler(c) \/ vlapic_dfr_write_handler(c)
  \/ \E on \in BOOLEAN : vlapic_svr_write_handler(c, on)
  \/ \E p \in Pins, m \in BOOLEAN, lv \in Triggers, x \in Modes, v \in PinVecs :
       vioapic_write(c, p, Low(p, m, lv, x[1], x[2], v))
  \/ \E p \in Pins, d \in Dests : vioapic_write(c, p, High(p, d))

ApicNext ==
  \/ \E p \in Pins : vioapic_assert_irq(p) \/ vioapic_deassert_irq(p) \/ vioapic_pulse_irq(p)
  \/ \E d \in Dests, rh, log \in BOOLEAN, v \in MsgVecs : lapic_intr_msi(d, rh, log, v)
  \/ \E c \in Cpus : \/ Inject(c) \/ vioapic_update_tmr(c) \/ RdvDone(c)
                     \/ SpinUp(c) \/ Rendezvous(c) \/ WriteEnds(c) \/ GuestStep(c)

-----------------------------------------------------------------------------
(* Properties.                                                             *)

\* The checks that vlapic_update_ppr makes on every change of the in-service
\* register, and answers with xhyve_abort, never fail: the nested interrupts
\* have increasing priorities and the stack and the register agree.
IsrStackSound ==
  \A c \in Cpus :
    LET s == lapic[c].stk
    IN /\ \A i, j \in DOMAIN s : i < j => PRIO(s[i]) < PRIO(s[j])
       /\ lapic[c].isr = {s[i] : i \in DOMAIN s}

Writing(p) == \E c \in Cpus : wr[c].pin = p

\* An interrupt of pin p is on its way: some processor has yet to accept or to
\* complete it, and its end of interrupt will reach the I/O APIC.
OnItsWay(p) ==
  \E c \in Cpus : rtbl[p].vec \in (lapic[c].irr \cup lapic[c].isr) \cap lapic[c].tmr

\* No level triggered interrupt is lost: while its pin is asserted and unmasked
\* an interrupt is on its way, and Remote IRR, which holds back all others, is
\* set only while one is.
LevelServed ==
  \A p \in Pins :
    rtbl[p].level /\ ~ Writing(p) =>
      /\ rtbl[p].acnt > 0 /\ ~ rtbl[p].mask => rtbl[p].rirr
      /\ rtbl[p].rirr => OnItsWay(p)
=============================================================================
