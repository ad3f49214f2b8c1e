------------------------------- MODULE Inject -------------------------------
(***************************************************************************)
(* One vcpu around its guest: the injection of events before an entry and  *)
(* the processing of exits (vmx_run and what it calls in intel/vmx.c), the *)
(* exits finished by vm_run and by the exit handlers of the process, and   *)
(* the place the next instruction is kept at each stage.                   *)
(*                                                                         *)
(* Rips are counted modulo 3 and every instruction is one long, so a rip   *)
(* is the current instruction, the next or the previous one.  The guest    *)
(* and its processor are external: they deliver the event injected, run    *)
(* an instruction to its end or exit.  Ghost state: at, the instruction    *)
(* the guest has to run next; taken, the event acknowledged to its source  *)
(* and not yet delivered; inNmi, from an NMI to the end of an IRET; done,  *)
(* the elements of a string instruction that a device has seen.            *)
(***************************************************************************)
EXTENDS Integers

CONSTANTS InstrExits,   \* the exits instructions cause
          Elements,     \* elements of a string instruction
          Batch,        \* elements emulated back to back (16 in the code)
          MaxRaised     \* NMIs and interrupts that devices and other vcpus raise

ASSUME InjectAssumption ==
  /\ InstrExits \subseteq {"PAGING", "HLT", "PAUSE", "INOUT", "INOUT_STR", "INST_EMUL", "MONITOR", "MSR",
                           "TASK_SWITCH"}
  /\ Elements \in Nat /\ Batch \in Nat /\ MaxRaised \in Nat

None == "none"
Contributory == {"TS", "GP"}
PageFaults == {"PF"}
Benign == {"MC", "UD", "BP"}
Exceptions == Contributory \cup PageFaults \cup Benign

VARIABLE vc   \* the vcpu: VMCS, registers, struct vcpu, the locals of vmx_run

RipAfter(r, n) == (r + n) % 3

\* No string instruction is under way: the last one has done its elements.
InjectInit ==
  vc = [pc |-> "vmrun", rip |-> 0, nextrip |-> 0, lastrip |-> 2, xrip |-> 0, xlen |-> 0, code |-> "BOGUS",
        vmcsrip |-> 0, entry |-> None, intWin |-> FALSE, nmiWin |-> FALSE, if |-> FALSE, shadow |-> FALSE,
        nmib |-> FALSE, rcx |-> 0, index |-> Elements,
        exitint |-> None, exc |-> None, nmi |-> FALSE, extint |-> FALSE, lapic |-> FALSE, kick |-> FALSE,
        suspend |-> FALSE, rendezvous |-> FALSE, raised |-> 0,
        at |-> 0, taken |-> None, inNmi |-> FALSE, done |-> Elements]

-----------------------------------------------------------------------------
(* Exceptions and restarts.                                                *)

Running(s) == s.pc \in {"inject", "guest"}

\* The instruction runs again: a running vcpu forgets the length of the exit, a
\* frozen one takes the rip the VMCS still has.
vm_restart_instruction(s) ==
  IF Running(s) THEN [s EXCEPT !.xlen = 0] ELSE [s EXCEPT !.nextrip = s.vmcsrip]

\* Faulty variant: only the length is forgotten, which a frozen vcpu has used.
vm_inject_exception_Advance(s, vector, restart) ==
  IF s.exc # None THEN [s EXCEPT !.pc = "assert"]
  ELSE [s EXCEPT !.shadow = FALSE, !.exc = vector, !.xlen = IF restart THEN 0 ELSE @]

vm_inject_exception(s, vector, restart) ==
  IF s.exc # None THEN [s EXCEPT !.pc = "assert"]
  ELSE LET t == IF restart THEN vm_restart_instruction(s) ELSE s
       IN [t EXCEPT !.shadow = FALSE, !.exc = vector]

vm_inject_fault(s, vector) == vm_inject_exception(s, vector, TRUE)

exception_class(e) ==
  CASE e \in PageFaults -> "pagefault" [] e \in Contributory -> "contributory" [] OTHER -> "benign"

\* The event two events combine to; "shutdown" is a triple fault.
nested_fault(info1, info2) ==
  LET exc1 == exception_class(info1)
      exc2 == exception_class(info2)
  IN CASE info1 = "DF" -> "shutdown"
       [] info1 # "DF" /\ \/ exc1 = "contributory" /\ exc2 = "contributory"
                          \/ exc1 = "pagefault" /\ exc2 # "benign" -> "DF"
       [] OTHER -> info2

\* The architecture's table of double faults, for the ghost state.
Combined(first, second) ==
  IF first = None THEN second
  ELSE IF second = None THEN first
  ELSE IF first = "DF" THEN None
  ELSE IF <<first, second>> \in (Contributory \X Contributory) \cup (PageFaults \X (Contributory \cup PageFaults))
  THEN "DF" ELSE second

\* The event to inject: of the last exit, of the emulation since, or both.
vm_entry_intinfo(s) ==
  LET info == CASE s.exitint # None /\ s.exc # None -> nested_fault(s.exitint, s.exc)
                [] s.exitint # None /\ s.exc = None -> s.exitint
                [] OTHER -> s.exc
      t == [s EXCEPT !.exitint = None, !.exc = None, !.taken = Combined(@, s.exc)]
  IN IF info = "shutdown" THEN [t EXCEPT !.suspend = TRUE]
     ELSE IF info = None THEN t
     ELSE IF s.entry # None THEN [t EXCEPT !.pc = "assert"]
     ELSE [t EXCEPT !.entry = info]

-----------------------------------------------------------------------------
(* Injection before an entry.                                              *)

\* The assertions of vmx_inject_nmi and the request it clears.
vmx_inject_nmi(s) ==
  IF s.nmib \/ s.entry # None THEN [s EXCEPT !.pc = "assert"]
  ELSE [s EXCEPT !.entry = "NMI", !.nmi = FALSE, !.taken = "NMI"]

InjectNmi(s) ==
  CASE ~ s.nmi -> s
    [] s.nmi /\ ~ s.shadow /\ ~ s.nmib /\ s.entry = None -> vmx_inject_nmi(s)
    [] OTHER -> [s EXCEPT !.nmiWin = TRUE]

\* The legacy controller may post its next interrupt when one is accepted.
InjectIntr(s) ==
  IF s.intWin \/ ~ (s.extint \/ s.lapic) THEN {s}
  ELSE IF ~ s.if \/ s.shadow \/ s.entry # None THEN {[s EXCEPT !.intWin = TRUE]}
  ELSE IF s.extint
  THEN {[s EXCEPT !.entry = "INTR", !.taken = "INTR", !.extint = more, !.kick = @ \/ more, !.intWin = TRUE]
          : more \in IF s.raised < MaxRaised THEN BOOLEAN ELSE {FALSE}}
  ELSE {[s EXCEPT !.entry = "INTR", !.taken = "INTR", !.lapic = FALSE]}

\* The shadow of STI does not outlive a rip changed by emulation.
RipChange(s) == [s EXCEPT !.shadow = IF s.lastrip # s.rip THEN FALSE ELSE @]

vmx_inject_interrupts(s) == InjectIntr(InjectNmi(vm_entry_intinfo(RipChange(s))))

\* vmx_run is called with the rip to start from.  What the last exit left is not
\* read any more: the next one writes it again.
VmxRun ==
  /\ vc.pc = "vmrun"
  /\ vc' = [vc EXCEPT !.pc = "inject", !.rip = vc.nextrip, !.vmcsrip = vc.nextrip,
                      !.code = "BOGUS", !.xrip = vc.nextrip, !.xlen = 0]

\* A round of the loop: events are injected, then a suspend and a rendezvous
\* are looked for, and the guest is entered (lastrip is written by its exit and
\* not read before).
vmx_run ==
  /\ vc.pc = "inject"
  /\ \E s \in vmx_inject_interrupts(vc) :
       vc' = IF s.pc = "assert" THEN s
             ELSE IF s.suspend THEN [s EXCEPT !.pc = "kernel", !.xrip = s.rip, !.xlen = 0, !.code = "SUSPENDED"]
             ELSE IF s.rendezvous THEN [s EXCEPT !.pc = "kernel", !.xrip = s.rip, !.xlen = 0, !.code = "RENDEZVOUS"]
             ELSE [s EXCEPT !.pc = "guest", !.lastrip = s.rip]

-----------------------------------------------------------------------------
(* The guest and its processor.                                            *)

Step(s) == [s EXCEPT !.vmcsrip = RipAfter(@, 1), !.at = RipAfter(@, 1)]

MustExit(s) == \/ s.nmiWin /\ ~ s.nmib /\ ~ s.shadow
               \/ s.intWin /\ s.if /\ ~ s.shadow
InGuest == vc.pc = "guest" /\ vc.entry = None
CanRun == InGuest /\ ~ MustExit(vc)

\* The injected event reaches the guest's handler.  #BP is pushed with the rip
\* after its instruction.
Deliver ==
  /\ vc.pc = "guest" /\ vc.entry # None
  /\ LET s == [vc EXCEPT !.entry = None, !.taken = None, !.if = FALSE, !.shadow = FALSE,
                         !.nmib = @ \/ vc.entry = "NMI", !.inNmi = @ \/ vc.entry = "NMI"]
     IN vc' = IF vc.entry = "BP" THEN Step(s) ELSE s

\* An instruction that needs no help of the host.
Execute ==
  /\ CanRun
  /\ \E i \in {"plain", "sti", "cli", "iret"} :
       vc' = Step([vc EXCEPT !.shadow = i = "sti" /\ ~ vc.if,
                             !.if = CASE i \in {"sti", "iret"} -> TRUE [] i = "cli" -> FALSE [] OTHER -> @,
                             !.nmib = @ /\ i # "iret", !.inNmi = @ /\ i # "iret"])

-----------------------------------------------------------------------------
(* Exits (vmx_exit_process).                                               *)

\* What every exit leaves: the rip, the length of the instruction, and no event
\* to inject.
Left(s, len) == [s EXCEPT !.entry = None, !.kick = FALSE, !.rip = s.vmcsrip, !.lastrip = s.vmcsrip,
                          !.xrip = s.vmcsrip, !.xlen = len, !.code = "BOGUS"]

\* The exit is handled and the guest entered again: at the same rip, or after
\* the instruction.  The length is not read again.
Again(s) == IF s.pc = "assert" THEN s ELSE [s EXCEPT !.pc = "inject", !.rip = s.xrip, !.xlen = 0]
Handled(s) ==
  LET r == RipAfter(s.xrip, s.xlen)
  IN Again([s EXCEPT !.xrip = r, !.xlen = 0, !.vmcsrip = r])
Unhandled(s, code) == [s EXCEPT !.pc = "kernel", !.code = code]

\* An event whose delivery exits is kept, to be injected again.  Delivery of an
\* NMI blocks NMIs; only a task gate leaves them blocked.
vm_exit_intinfo(s, reason) ==
  [s EXCEPT !.exitint = vc.entry, !.nmib = IF vc.entry = "NMI" THEN reason = "TASK_SWITCH" ELSE @]

DeliverExit(reason) ==
  /\ vc.pc = "guest" /\ vc.entry # None
  /\ LET s == vm_exit_intinfo(Left(vc, 0), reason)
     IN CASE reason = "EPT_FAULT"   -> vc' = Unhandled(s, "PAGING")
          [] reason = "TASK_SWITCH" -> vc' = Unhandled(s, "TASK_SWITCH")
          [] reason = "EXCEPTION"   -> \E e \in {"PF", "GP"} : vc' = Again(vm_inject_exception(s, e, FALSE))

\* Faulty variant: the NMI blocking an IRET has lifted is not restored.
vmx_restore_nmi_blocking_None(s) == s

vmx_restore_nmi_blocking(s) == [s EXCEPT !.nmib = TRUE]

\* A fault inside IRET: the processor has already lifted the blocking.
IretExit(reason) ==
  /\ CanRun /\ vc.nmib
  /\ LET s == vmx_restore_nmi_blocking([Left(vc, 0) EXCEPT !.nmib = FALSE])
     IN vc' = IF reason = "EPT_FAULT" THEN Unhandled(s, "PAGING") ELSE Again(vm_inject_exception(s, "GP", FALSE))

\* Exits of host interrupts and of windows leave the rip alone.  An injected
\* event is delivered by the entry itself, so they come after it.
ExtIntrExit == InGuest /\ vc.kick /\ vc' = Again(Left(vc, 0))

IntrWindowExit ==
  /\ InGuest /\ vc.intWin /\ vc.if /\ ~ vc.shadow
  /\ vc' = Again([Left(vc, 0) EXCEPT !.intWin = FALSE])

NmiWindowExit ==
  /\ InGuest /\ vc.nmiWin /\ ~ vc.nmib
  /\ LET s == Left(vc, 0)
         t == IF s.nmi THEN vmx_inject_nmi(s) ELSE s
     IN vc' = Again([t EXCEPT !.nmiWin = FALSE])

\* Instructions finished inside vmx_run: cpuid, control registers, xsetbv and
\* MSRs, some of which fault instead.
HandledExit ==
  /\ CanRun
  /\ \E ok \in BOOLEAN :
       vc' = IF ok THEN Handled([Left(vc, 1) EXCEPT !.at = RipAfter(@, 1), !.shadow = FALSE])
             ELSE Handled(vm_inject_fault(Left(vc, 1), "GP"))

\* Exits after the instruction: APIC writes, virtual EOIs, the monitor trap.
TrapExit(code) ==
  /\ CanRun
  /\ LET s == Left([Step(vc) EXCEPT !.shadow = FALSE], 0)
     IN vc' = IF code = "APIC_WRITE" THEN Handled(s) ELSE Unhandled(s, code)

\* Exceptions are intercepted when they are traced; the one of INT3 is a trap.
ExceptionExit ==
  /\ CanRun
  /\ \E e \in {"GP", "BP"} : vc' = Again(vm_inject_exception(Left(vc, 1), e, FALSE))

\* Exits before the instruction, finished by vm_run or by the process.  The
\* length of an instruction that touches a device may be unknown (0).
InstrExit(code) ==
  /\ CanRun
  /\ \E len \in CASE code = "PAGING" -> {0} [] code = "INST_EMUL" -> {0, 1} [] OTHER -> {1} :
       LET s == Left(vc, len)
       IN vc' = Unhandled(IF code = "INOUT_STR" /\ s.rcx = 0
                          THEN [s EXCEPT !.rcx = Elements, !.index = 0, !.done = 0] ELSE s, code)

-----------------------------------------------------------------------------
(* vm_run, and the exit handlers of the process.                           *)

Finished(s) == [s EXCEPT !.pc = "vmrun", !.at = RipAfter(@, 1)]
Resumed(s) == IF s.pc = "assert" THEN s ELSE [s EXCEPT !.pc = "vmrun"]
ToUser(s) == [s EXCEPT !.pc = "user"]

\* Fetch, decode and, for a device of the kernel side, emulate; an emulation
\* that faults is restarted.  The length becomes known by decoding.
vm_handle_inst_emul(s) ==
  LET d == IF s.xlen = 0 THEN [s EXCEPT !.xlen = 1, !.nextrip = RipAfter(@, 1)] ELSE s
  IN {Resumed(vm_inject_fault(s, "PF")), Finished(d), Resumed(vm_inject_fault(d, "PF")), ToUser(d)}

vm_handle_inout(s) == {Finished(s), ToUser(s)}

vm_run ==
  /\ vc.pc = "kernel"
  /\ LET s == [vc EXCEPT !.nextrip = RipAfter(vc.xrip, vc.xlen)]
     IN vc' \in CASE s.code = "SUSPENDED"             -> {[s EXCEPT !.pc = "dead"]}
                  [] s.code = "RENDEZVOUS"            -> {Resumed([s EXCEPT !.rendezvous = FALSE])}
                  [] s.code \in {"PAGING", "IOAPIC_EOI"} -> {Resumed(s)}
                  [] s.code = "HLT"                   -> {Finished(s)}
                  [] s.code = "MONITOR"               -> {Resumed(vm_inject_fault(s, "UD"))}
                  [] s.code = "INST_EMUL"             -> vm_handle_inst_emul(s)
                  [] s.code = "INOUT"                 -> vm_handle_inout(s)
                  [] OTHER                            -> {ToUser(s)}

\* Faulty variant: the registers are only written back when no element faults.
emulate_inout_str_Forgets(s) ==
  LET most == IF s.rcx < Batch THEN s.rcx ELSE Batch
  IN {LET t == IF n < most THEN [vm_inject_fault(s, "PF") EXCEPT !.done = @ + n]
               ELSE [s EXCEPT !.index = @ + n, !.rcx = @ - n, !.done = @ + n]
      IN IF t.rcx # 0 THEN Resumed(vm_restart_instruction(t)) ELSE Finished(t) : n \in 0 .. most}

\* String I/O: up to Batch elements, fewer when one faults, then the registers,
\* and the instruction again while elements remain.
emulate_inout_str(s) ==
  LET most == IF s.rcx < Batch THEN s.rcx ELSE Batch
      Moved(t, n) == [t EXCEPT !.index = @ + n, !.rcx = @ - n, !.done = @ + n]
  IN {LET t == Moved(IF n < most THEN vm_inject_fault(s, "PF") ELSE s, n)
      IN IF t.rcx # 0 THEN Resumed(vm_restart_instruction(t)) ELSE Finished(t) : n \in 0 .. most}

\* The task switch: a fault before it commits restarts the old task, one after
\* it belongs to the new task; the event that caused it is then done.
vmexit_task_switch(s) ==
  LET new  == RipAfter(s.at, 1)
      over == [s EXCEPT !.vmcsrip = new, !.nextrip = new, !.at = new, !.inNmi = @ \/ s.exitint = "NMI"]
  IN {Resumed(vm_inject_fault(s, "TS")), Resumed(vm_inject_fault(over, "PF")),
      Resumed([over EXCEPT !.exitint = None, !.taken = None])}

\* Port I/O: a string instruction, or one value and the next instruction.
vmexit_inout(s) == IF s.code = "INOUT_STR" THEN emulate_inout_str(s) ELSE {Finished(s)}

\* An MSR nobody knows is ignored, or #GP with the option for strict MSRs.
vmexit_rdmsr(s) == {Finished(s), Resumed(vm_inject_fault(s, "GP"))}

\* A device of the process; the emulation may fault on its other operand.
vmexit_inst_emul(s) == {Finished(s), Resumed(vm_inject_fault(s, "PF"))}

vmexit_pause(s) == {Finished(s)}
vmexit_mtrap(s) == {Resumed(s)}

vcpu_loop ==
  /\ vc.pc = "user"
  /\ vc' \in CASE vc.code \in {"INOUT", "INOUT_STR"} -> vmexit_inout(vc)
               [] vc.code = "PAUSE"                 -> vmexit_pause(vc)
               [] vc.code = "MTRAP"                 -> vmexit_mtrap(vc)
               [] vc.code = "INST_EMUL"             -> vmexit_inst_emul(vc)
               [] vc.code = "MSR"                   -> vmexit_rdmsr(vc)
               [] vc.code = "TASK_SWITCH"           -> vmexit_task_switch(vc)

-----------------------------------------------------------------------------
(* Other threads.                                                          *)

\* A request is recorded, then the vcpu is notified: it is kicked out of the
\* guest if it runs.
Raise(s) == /\ vc.raised < MaxRaised /\ vc.pc \notin {"dead", "assert"}
            /\ vc' = [s EXCEPT !.raised = @ + 1, !.kick = @ \/ Running(vc)]

vm_inject_nmi == Raise([vc EXCEPT !.nmi = TRUE])
vm_inject_extint == Raise([vc EXCEPT !.extint = TRUE])
LapicIntr == Raise([vc EXCEPT !.lapic = TRUE])
Rendezvous == ~ vc.rendezvous /\ Raise([vc EXCEPT !.rendezvous = TRUE])

InjectNext ==
  \/ VmxRun \/ vmx_run \/ vm_run \/ vcpu_loop \/ Deliver \/ Execute
  \/ \E r \in {"EPT_FAULT", "EXCEPTION", "TASK_SWITCH"} : DeliverExit(r)
  \/ \E r \in {"EPT_FAULT", "EXCEPTION"} : IretExit(r)
  \/ ExtIntrExit \/ IntrWindowExit \/ NmiWindowExit \/ HandledExit \/ ExceptionExit
  \/ \E c \in {"APIC_WRITE", "IOAPIC_EOI", "MTRAP"} : TrapExit(c)
  \/ \E c \in InstrExits : InstrExit(c)
  \/ vm_inject_nmi \/ vm_inject_extint \/ LapicIntr \/ Rendezvous

InjectSpec == InjectInit /\ [][InjectNext]_vc

-----------------------------------------------------------------------------
\* The guest continues with the right instruction: whenever it is entered, and
\* whenever vm_run is about to enter it, the rip is the instruction after the
\* last one completed.  No exit, fault, restart or task switch makes it skip an
\* instruction or run one twice.
RipExact ==
  /\ vc.pc \in {"inject", "guest"} => vc.vmcsrip = vc.at
  /\ vc.pc = "vmrun" => vc.nextrip = vc.at

\* An event taken from its source is in exactly one place until it is delivered
\* or combines with a later one as the architecture says: it is neither lost
\* nor delivered twice, whatever exits interrupt its delivery.
EventKept ==
  vc.pc \notin {"dead", "assert"} /\ ~ vc.suspend =>
    /\ vc.entry # None => vc.exitint = None
    /\ vc.taken = IF vc.entry # None THEN vc.entry ELSE vc.exitint

\* What is injected passes the processor's checks and the code's assertions:
\* interrupts only with IF set and no shadow, and an NMI never inside the
\* handler of another, also when an IRET faults.
EntryValid ==
  /\ vc.pc # "assert"
  /\ vc.pc = "guest" /\ vc.entry = "INTR" => vc.if /\ ~ vc.shadow
  /\ vc.pc = "guest" /\ vc.entry = "NMI" => ~ vc.nmib /\ ~ vc.inNmi

\* A guest that runs with an NMI or an interrupt waiting will exit as soon as it
\* can take it: the window is set, or the vcpu has been kicked.
WindowArmed ==
  vc.pc = "guest" /\ ~ vc.kick =>
    /\ vc.nmi => vc.nmiWin
    /\ vc.extint \/ vc.lapic => vc.intWin

\* An event that was raised reaches the guest once, when it may be taken.
EventsSound == EventKept /\ EntryValid /\ WindowArmed

\* Every element of a string instruction reaches the device once, in order,
\* across batches, faults and events between them.
StringOnce ==
  vc.pc \in {"vmrun", "guest"} => vc.done + vc.rcx \in {0, Elements} /\ vc.index = vc.done
=============================================================================
