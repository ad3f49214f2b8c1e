-------------------------------- MODULE Pic --------------------------------
(***************************************************************************)
(* The pair of 8259 interrupt controllers (vatpic.c), and how their        *)
(* interrupt reaches the processor: the slave raises pin 2 of the master,  *)
(* the master raises extint_pending, and vmx_inject_interrupts asks for    *)
(* the vector and accepts it in two separate critical sections.            *)
(*                                                                         *)
(* A chip has NPins pins (8 in the code): pin 2 of the master is the       *)
(* cascade, the last pin is the one of a spurious interrupt.               *)
(***************************************************************************)
EXTENDS Integers, FiniteSets

CONSTANTS
  NPins,       \* pins of a chip
  Irqs,        \* <<chip, pin>> that devices are wired to
  LevelIrqs,   \* those of them that may be level triggered
  Bases,       \* Bases[chip]: the vector base the guest chooses
  Styles,      \* sets of modes a guest may use: "aeoi", "sfn", "rotate", "smm", "poll"
  ModeChips,   \* chips whose priorities the guest rotates or whose mask mode it sets
  PicCareful   \* whether the guest starts the chips only once, before devices use them

ASSUME PicAssumption == NPins \in 4 .. 8 /\ LevelIrqs \subseteq Irqs

VARIABLES
  pic,     \* pic[0] the master, pic[1] the slave
  elc,     \* interrupts that are level triggered
  up,      \* interrupts whose device asserts its line
  extint,  \* extint_pending of the processor
  inj,     \* the vector vmx_inject_interrupts holds, and how far it is
  style    \* the modes the guest uses; it does not change

picVars == <<pic, elc, up, extint, inj, style>>

Pinset == 0 .. NPins - 1
Spurious == NPins - 1
NoPin == -1
Idle == [step |-> "idle", vec |-> 0]

PowerOn ==
  [ready |-> FALSE, icw |-> 0, request |-> {}, service |-> {}, mask |-> {}, aeoi |-> FALSE,
   sfn |-> FALSE, smm |-> FALSE, rotate |-> FALSE, lowprio |-> 0, poll |-> FALSE,
   acnt |-> [p \in Pinset |-> 0], raised |-> FALSE, base |-> 0]

PicInit ==
  /\ pic = [i \in 0 .. 1 |-> PowerOn]
  /\ elc = {} /\ up = {} /\ extint = FALSE /\ inj = Idle /\ style \in Styles

-----------------------------------------------------------------------------
(* Operators on one chip.                                                  *)

\* The rank of a pin: 0 is the highest, lowprio the lowest priority.
Rank(a, p) == (p - a.lowprio - 1) % NPins

First(a, S) == IF S = {} THEN NoPin ELSE CHOOSE p \in S : \A q \in S : Rank(a, p) <= Rank(a, q)

vatpic_get_highest_isrpin(a) == First(a, IF a.smm THEN a.service \ a.mask ELSE a.service)

\* A pin is shadowed by one of the same or a higher priority that is in service,
\* but for the cascade in special fully nested mode and all in special mask mode.
vatpic_get_highest_irrpin(a) ==
  LET serviced == IF a.smm THEN {} ELSE IF a.sfn THEN a.service \ {2} ELSE a.service
  IN First(a, {p \in a.request \ a.mask : \A q \in serviced : Rank(a, p) < Rank(a, q)})

vatpic_pin_accepted(a, p) ==
  [a EXCEPT !.raised = FALSE,
            !.request = IF a.acnt[p] = 0 THEN @ \ {p} ELSE @,
            !.lowprio = IF a.aeoi /\ a.rotate THEN p ELSE @,
            !.service = IF a.aeoi THEN @ ELSE @ \cup {p}]

-----------------------------------------------------------------------------
(* Operators on the pair.                                                  *)

\* The counting half of vatpic_set_pinstate.
Count(a, p, level, newstate) ==
  LET n == IF newstate THEN a.acnt[p] + 1 ELSE a.acnt[p] - 1
  IN [a EXCEPT !.acnt[p] = n,
               !.request = IF (a.acnt[p] = 0 /\ n = 1) \/ (n > 0 /\ level) THEN @ \cup {p}
                           ELSE IF a.acnt[p] = 1 /\ n = 0 /\ level THEN @ \ {p} ELSE @]

\* vatpic_notify_intr.  The slave pulses pin 2 of the master (which is edge
\* triggered and otherwise unused, so that only the request stays), then the
\* master, unless its interrupt is raised already, interrupts the processor.
Cascaded(x) ==
  IF ~ x[1].raised /\ vatpic_get_highest_irrpin(x[1]) # NoPin
    THEN [x EXCEPT ![1].raised = TRUE, ![0].request = @ \cup {2}]
    ELSE x

Raises(x) == ~ x[0].raised /\ vatpic_get_highest_irrpin(x[0]) # NoPin

Notified(x) == IF Raises(Cascaded(x)) THEN [Cascaded(x) EXCEPT ![0].raised = TRUE] ELSE Cascaded(x)

\* The end of an operation that left the pair as x and extint as e, and that calls
\* vatpic_notify_intr.
Notify(x, e) == pic' = Notified(x) /\ extint' = (e \/ Raises(Cascaded(x)))

-----------------------------------------------------------------------------
(* Devices.  A chip that is not ready ignores its pins.                    *)

Started == \A i \in 0 .. 1 : pic[i].ready

vatpic_set_irqstate(i, newstate) ==
  IF pic[i[1]].ready
    THEN Notify([pic EXCEPT ![i[1]] = Count(@, i[2], i \in elc, newstate)], extint)
    ELSE UNCHANGED <<pic, extint>>

vatpic_assert_irq(i) ==
  /\ i \notin up /\ (PicCareful => Started)
  /\ vatpic_set_irqstate(i, TRUE)
  /\ up' = up \cup {i} /\ UNCHANGED <<elc, inj>>

vatpic_deassert_irq(i) ==
  /\ i \in up
  /\ vatpic_set_irqstate(i, FALSE)
  /\ up' = up \ {i} /\ UNCHANGED <<elc, inj>>

\* Assert and deassert in one critical section; vatpic_notify_intr runs in both,
\* the second time it finds what the first one left.
vatpic_pulse_irq(i) ==
  /\ i \notin up /\ i \notin elc /\ pic[i[1]].ready /\ (PicCareful => Started)
  /\ Notify([pic EXCEPT ![i[1]] = Count(Count(@, i[2], FALSE, TRUE), i[2], FALSE, FALSE)], extint)
  /\ UNCHANGED <<elc, up, inj>>

\* Quiet: no line is up and nothing is on its way to the processor.
Quiet == /\ up = {} /\ ~ extint /\ inj = Idle
         /\ \A i \in 0 .. 1 : ~ pic[i].raised /\ pic[i].request = {}

\* vatpic_set_irq_trigger and vatpic_elc_handler
vatpic_set_irq_trigger(S) ==
  /\ PicCareful => Quiet
  /\ elc' = S /\ UNCHANGED <<pic, up, extint, inj>>

-----------------------------------------------------------------------------
(* Writes and reads of the guest to chip i.  A write to a chip that is     *)
(* ready ends with vatpic_notify_intr.                                     *)

Written(i, a) ==
  /\ IF a.ready THEN Notify([pic EXCEPT ![i] = a], extint)
                ELSE pic' = [pic EXCEPT ![i] = a] /\ UNCHANGED extint
  /\ UNCHANGED <<elc, up, inj>>

\* The service register, the assertion counts, aeoi and the raised interrupt
\* survive ICW1.
vatpic_icw1(i) ==
  /\ PicCareful => ~ pic[i].ready /\ pic[i].icw = 0
  /\ Written(i, [pic[i] EXCEPT !.ready = FALSE, !.icw = 2, !.request = {}, !.mask = {},
                              !.lowprio = NPins - 1, !.poll = FALSE, !.smm = FALSE])

vatpic_icw2(i) == pic[i].icw = 2 /\ Written(i, [pic[i] EXCEPT !.base = Bases[i], !.icw = 3])

vatpic_icw3(i) == pic[i].icw = 3 /\ Written(i, [pic[i] EXCEPT !.icw = 4])

vatpic_icw4(i, aeoi, sfn) ==
  /\ pic[i].icw = 4
  /\ Written(i, [pic[i] EXCEPT !.aeoi = @ \/ aeoi, !.sfn = @ \/ (sfn /\ i = 0),
                              !.icw = 0, !.ready = TRUE])

vatpic_ocw1(i, m) ==
  /\ pic[i].icw = 0 /\ (PicCareful => pic[i].ready)
  /\ Written(i, [pic[i] EXCEPT !.mask = m])

\* OCW2 with EOI: specific (pin p) or not, rotating or not.
vatpic_ocw2(i, p, rotate) ==
  /\ pic[i].ready
  /\ LET b == IF p = NoPin THEN vatpic_get_highest_isrpin(pic[i]) ELSE p
     IN Written(i, [pic[i] EXCEPT !.rotate = rotate, !.service = @ \ {b},
                                 !.lowprio = IF rotate /\ b # NoPin THEN b ELSE @])

\* OCW2 without EOI: the rotation mode, and a specific priority.
vatpic_ocw2_rotate(i, p, rotate) ==
  /\ pic[i].ready
  /\ Written(i, [pic[i] EXCEPT !.rotate = rotate,
                              !.lowprio = IF rotate /\ p # NoPin THEN p ELSE @])

\* OCW3: special mask mode, and the poll command.
vatpic_ocw3(i, smm, poll) ==
  /\ pic[i].ready
  /\ Written(i, [pic[i] EXCEPT !.smm = smm, !.poll = poll])

\* A read after the poll command accepts the pin, and does not notify.  (A guest
\* that is careful does not take the cascade this way, nor polls in a mode where
\* another pin may be served before the end of this one.)
vatpic_read(i) ==
  LET p == vatpic_get_highest_irrpin(pic[i])
  IN /\ pic[i].poll
     /\ PicCareful => <<i, p>> # <<0, 2>> /\ ~ pic[i].smm /\ ~ pic[i].aeoi
     /\ pic' = [pic EXCEPT ![i] = [IF p = NoPin THEN @ ELSE vatpic_pin_accepted(@, p)
                                     EXCEPT !.poll = FALSE]]
     /\ UNCHANGED <<elc, up, extint, inj>>

-----------------------------------------------------------------------------
(* vmx_inject_interrupts.                                                  *)

\* vatpic_pending_intr: the vector, of a spurious interrupt if no pin is active.
Vector ==
  LET m == vatpic_get_highest_irrpin(pic[0])
      i == IF m = 2 THEN 1 ELSE 0
      p == vatpic_get_highest_irrpin(pic[i])
  IN pic[i].base + (IF p = NoPin THEN Spurious ELSE p)

vatpic_pending_intr ==
  /\ inj = Idle /\ extint
  /\ inj' = [step |-> "peeked", vec |-> Vector]
  /\ UNCHANGED <<pic, elc, up, extint>>

\* The guest cannot take the interrupt now.
CantInject == inj.step = "peeked" /\ inj' = Idle /\ UNCHANGED <<pic, elc, up, extint>>

vm_extint_clear ==
  /\ inj.step = "peeked"
  /\ extint' = FALSE /\ inj' = [inj EXCEPT !.step = "cleared"]
  /\ UNCHANGED <<pic, elc, up>>

\* The pair after vector v has been accepted: one of the slave also accepts the
\* cascade.
AcceptedVector(v) ==
  LET p == v % NPins
  IN IF v - p = pic[1].base
       THEN [pic EXCEPT ![1] = vatpic_pin_accepted(@, p), ![0] = vatpic_pin_accepted(@, 2)]
       ELSE [pic EXCEPT ![0] = vatpic_pin_accepted(@, p)]

\* Faulty variant: the request is cleared only after the interrupt has been accepted.
vatpic_intr_accepted_First ==
  /\ inj.step = "cleared"
  /\ pic' = Notified(AcceptedVector(inj.vec)) /\ extint' = FALSE
  /\ inj' = Idle /\ UNCHANGED <<elc, up>>

vatpic_intr_accepted ==
  /\ inj.step = "cleared"
  /\ Notify(AcceptedVector(inj.vec), extint)
  /\ inj' = Idle /\ UNCHANGED <<elc, up>>

PicGuest(i) ==
  \/ vatpic_icw1(i) \/ vatpic_icw2(i) \/ vatpic_icw3(i) \/ vatpic_read(i)
  \/ vatpic_icw4(i, "aeoi" \in style, "sfn" \in style)
  \/ \E m \in SUBSET {x[2] : x \in {y \in Irqs : y[1] = i}} : vatpic_ocw1(i, m)
  \/ \E p \in {NoPin} \cup pic[i].service :
       \/ vatpic_ocw2(i, p, FALSE)
       \/ "rotate" \in style /\ i \in ModeChips /\ (vatpic_ocw2(i, p, TRUE) \/ \E r \in BOOLEAN : vatpic_ocw2_rotate(i, p, r))
  \/ "smm" \in style /\ i \in ModeChips /\ \E s \in BOOLEAN : vatpic_ocw3(i, s, FALSE)
  \/ "poll" \in style /\ vatpic_ocw3(i, pic[i].smm, TRUE)

PicNext ==
  /\ \/ \E i \in Irqs : vatpic_assert_irq(i) \/ vatpic_deassert_irq(i) \/ vatpic_pulse_irq(i)
     \/ \E S \in SUBSET LevelIrqs : vatpic_set_irq_trigger(S)
     \/ \E i \in 0 .. 1 : PicGuest(i)
     \/ vatpic_pending_intr \/ CantInject \/ vm_extint_clear \/ vatpic_intr_accepted
  /\ UNCHANGED style

-----------------------------------------------------------------------------
(* Properties.                                                             *)

\* The processor is told, or is about to look again.
Told == extint \/ inj.step = "cleared"

\* No interrupt request of the 8259s is lost on its way: a chip that has a pin
\* to serve has raised its interrupt, and an interrupt that is raised is known
\* to the next stage (the request of pin 2 for the slave, extint_pending for the
\* master) as long as the processor has not accepted it.
ExtIntNotLost ==
  Started =>
    /\ vatpic_get_highest_irrpin(pic[1]) # NoPin => pic[1].raised
    /\ vatpic_get_highest_irrpin(pic[0]) # NoPin => Told
    /\ pic[1].raised => 2 \in pic[0].request
=============================================================================
