--------------------------------- MODULE Pm ---------------------------------
(***************************************************************************)
(* ACPI power management (pm.c): the SCI, the power button that SIGTERM    *)
(* presses through the event loop once the guest has enabled ACPI, and the *)
(* soft power off and reset requests of the vcpus.                         *)
(***************************************************************************)
EXTENDS Mevent

CONSTANTS
  PmCpus,       \* vcpus that may power off
  PmCareful     \* the guest enables ACPI only after the loop has processed the
                \* last change of the button, and writes PM1 control only while
                \* no SMI command runs

VARIABLES
  pm,       \* pm1_enable, pm1_status (power button), sci_active, SCI_EN of
            \* pm1_control, power_button set, the action of SIGTERM and the
            \* one saved in old_power_handler
  term,     \* SIGTERM is recorded in the kqueue
  pmcpu,    \* pmcpu[c]: what c does with PM1 control; "aborted" after a failed
            \* assertion
  suspend   \* vm->suspend

pmVars == <<pm, term, pmcpu, suspend>>

Term == "term"  \* the event of SIGTERM

PmInit ==
  /\ pm = [enable |-> FALSE, status |-> FALSE, sci |-> FALSE, scien |-> FALSE,
           button |-> FALSE, action |-> "default", old |-> "default"]
  /\ term = FALSE /\ suspend = FALSE
  /\ pmcpu = [c \in PmCpus |-> "idle"]

\* sci_assert and sci_deassert drive the line when sci_active changes.
sci_update(p) == [p EXCEPT !.sci = p.enable /\ p.status]

PmStep == UNCHANGED <<kq, loop, term, pmcpu, suspend>>

pm1_status_handler == pm' = sci_update([pm EXCEPT !.status = FALSE]) /\ PmStep /\ UNCHANGED <<mev, pipe>>

pm1_enable_handler ==
  \E on \in BOOLEAN : pm' = sci_update([pm EXCEPT !.enable = on]) /\ PmStep /\ UNCHANGED <<mev, pipe>>

power_button_handler ==
  /\ Handling(Term) /\ Handled(Term)
  /\ pm' = IF pm.status THEN pm ELSE sci_update([pm EXCEPT !.status = TRUE])
  /\ UNCHANGED <<mev, pipe, kq, term, pmcpu, suspend>>

\* EVFILT_SIGNAL records the signal while the event is registered.
SigTerm ==
  /\ kq[Term] = "on" /\ ~ term /\ term' = TRUE
  /\ UNCHANGED <<pm, pmcpu, suspend, meventVars>>

\* A reported signal, or one whose event is deleted, is no longer recorded.
TermStep == term' = (term /\ kq'[Term] = "on" /\ ~ (loop.pc = "wait" /\ Term \in loop'.reported))

NoControlWrite == \A c \in PmCpus : pmcpu[c] \notin {"control", "controlOff"}

SmiEnable ==
  /\ PmCareful => NoControlWrite /\ mev[Term].list # "change"
  /\ IF pm.button THEN pm' = [pm EXCEPT !.scien = TRUE] /\ UNCHANGED <<mev, pipe>>
     ELSE /\ mevent_add(Term, "vcpu")
          /\ pm' = [pm EXCEPT !.scien = TRUE, !.button = mev[Term].list = "none",
                              !.old = pm.action, !.action = "ignore"]
  /\ PmStep

SmiDisable ==
  /\ PmCareful => NoControlWrite
  /\ IF ~ pm.button THEN pm' = [pm EXCEPT !.scien = FALSE] /\ UNCHANGED <<mev, pipe>>
     ELSE /\ mevent_delete(Term, "vcpu")
          /\ pm' = [pm EXCEPT !.scien = FALSE, !.button = FALSE, !.action = pm.old]
  /\ PmStep

smi_cmd_handler == SmiEnable \/ SmiDisable

\* pm1_control_handler takes no lock: it reads SCI_EN and stores the register
\* in two steps, and a write that asks for S5 then suspends the machine.
ReadControl(c) ==
  /\ pmcpu[c] = "idle"
  /\ pmcpu' = [pmcpu EXCEPT ![c] = IF pm.scien THEN "control" ELSE "controlOff"]
  /\ UNCHANGED <<pm, term, suspend, meventVars>>

StoreControl(c) ==
  /\ pmcpu[c] \in {"control", "controlOff"}
  /\ pm' = [pm EXCEPT !.scien = pmcpu[c] = "control"]
  /\ \E s5 \in BOOLEAN : pmcpu' = [pmcpu EXCEPT ![c] = IF s5 THEN "suspend" ELSE "idle"]
  /\ UNCHANGED <<term, suspend, meventVars>>

\* vm_suspend returns EALREADY to every caller but the first, and sets no
\* errno: the assertion that follows reads the errno of something else.
Suspend(c) ==
  /\ pmcpu[c] = "suspend"
  /\ suspend' = TRUE
  /\ pmcpu' = [pmcpu EXCEPT ![c] = IF suspend THEN "aborted" ELSE "off"]
  /\ UNCHANGED <<pm, term, meventVars>>

PmNext(regs) ==
  \/ SigTerm \/ power_button_handler
  \/ "SMI" \in regs /\ smi_cmd_handler
  \/ "PM1EVT" \in regs /\ (pm1_status_handler \/ pm1_enable_handler)
  \/ "PM1CNT" \in regs /\ \E c \in PmCpus : ReadControl(c) \/ StoreControl(c) \/ Suspend(c)

-----------------------------------------------------------------------------
\* The power button works while ACPI is enabled: once the event loop blocks with
\* nothing queued, the kernel watches for SIGTERM exactly when SCI_EN is set,
\* and otherwise SIGTERM has the action it had before ACPI was enabled.
ButtonArmed ==
  Settled => (pm.scien <=> kq[Term] = "on") /\ pm.action = (IF pm.scien THEN "ignore" ELSE "default")
=============================================================================
