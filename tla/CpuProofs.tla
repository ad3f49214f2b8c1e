------------------------------ MODULE CpuProofs ------------------------------
(***************************************************************************)
(* Proofs about two parts of Cpu.                                          *)
(*                                                                         *)
(* Inject: a guest continues with the right instruction, events are        *)
(* neither lost nor injected where they may not be, and string             *)
(* instructions do every element once.  The inductive invariant VcInv says *)
(* where the rip and the event are kept at each stage of an exit.  A step  *)
(* that passes through several handlers is followed stage by stage:        *)
(* Injecting, Exiting and Emulating are what holds inside                  *)
(* vmx_inject_interrupts, inside vmx_exit_process and in the handlers of   *)
(* vm_run and the process.                                                 *)
(*                                                                         *)
(* VmxRegs: the guest reads back the control registers it wrote, and long  *)
(* mode is on when the registers say so.                                   *)
(***************************************************************************)
EXTENDS Inject, VmxRegs, TLAPS

-----------------------------------------------------------------------------
(* The inductive invariant.                                                *)

Events == {None, "NMI", "INTR", "DF"} \cup Exceptions
UserCodes == {"INOUT", "INOUT_STR", "PAUSE", "MTRAP", "INST_EMUL", "MSR", "TASK_SWITCH"}
KernelCodes == UserCodes \cup {"SUSPENDED", "RENDEZVOUS", "PAGING", "IOAPIC_EOI", "HLT", "MONITOR"}

\* The fields of a vcpu.
VcFields(D) ==
  /\ "pc" \in D /\ "rip" \in D /\ "nextrip" \in D
  /\ "lastrip" \in D /\ "xrip" \in D /\ "vmcsrip" \in D
  /\ "at" \in D /\ "xlen" \in D /\ "code" \in D
  /\ "entry" \in D /\ "exitint" \in D /\ "taken" \in D
  /\ "exc" \in D /\ "intWin" \in D /\ "nmiWin" \in D
  /\ "if" \in D /\ "shadow" \in D /\ "nmib" \in D
  /\ "nmi" \in D /\ "extint" \in D /\ "lapic" \in D
  /\ "kick" \in D /\ "suspend" \in D /\ "rendezvous" \in D
  /\ "inNmi" \in D /\ "raised" \in D /\ "rcx" \in D
  /\ "index" \in D /\ "done" \in D
VcShape(s) == VcFields(DOMAIN s)

VcTypes(s) ==
  /\ s.pc \in {"vmrun", "inject", "guest", "kernel", "user", "dead"}
  /\ s.rip \in 0 .. 2 /\ s.nextrip \in 0 .. 2 /\ s.lastrip \in 0 .. 2 /\ s.xrip \in 0 .. 2
  /\ s.vmcsrip \in 0 .. 2 /\ s.at \in 0 .. 2 /\ s.xlen \in 0 .. 1
  /\ s.code \in KernelCodes \cup {"BOGUS"}
  /\ s.entry \in Events /\ s.exitint \in Events /\ s.taken \in Events
  /\ s.exc \in Exceptions \cup {None}
  /\ s.intWin \in BOOLEAN /\ s.nmiWin \in BOOLEAN /\ s.if \in BOOLEAN /\ s.shadow \in BOOLEAN
  /\ s.nmib \in BOOLEAN /\ s.nmi \in BOOLEAN /\ s.extint \in BOOLEAN /\ s.lapic \in BOOLEAN
  /\ s.kick \in BOOLEAN /\ s.suspend \in BOOLEAN /\ s.rendezvous \in BOOLEAN
  /\ s.inNmi \in BOOLEAN /\ s.raised \in Nat /\ s.rcx \in Nat /\ s.index \in Nat /\ s.done \in Nat

\* Where the instruction to continue with is kept at each stage, and the length
\* each exit hands on.
RipInv(s) ==
  /\ s.pc = "vmrun" => s.nextrip = s.at
  /\ s.pc = "inject" => s.rip = s.at
  /\ s.pc \in {"inject", "guest", "kernel", "user"} => s.vmcsrip = s.at
  /\ s.pc = "kernel" =>
       /\ s.xrip = s.at /\ s.code \in KernelCodes
       /\ s.code \in {"RENDEZVOUS", "PAGING", "IOAPIC_EOI", "MTRAP"} => s.xlen = 0
       /\ s.code \in {"HLT", "MONITOR", "INOUT", "INOUT_STR", "PAUSE", "MSR"} => s.xlen = 1
  /\ s.pc = "user" =>
       /\ s.code \in UserCodes
       /\ s.code = "MTRAP" => s.nextrip = s.at
       /\ s.code \in {"INOUT", "INOUT_STR", "PAUSE", "MSR", "INST_EMUL"} => s.nextrip = RipAfter(s.at, 1)

\* An event is in the VMCS or kept from the last exit, not both; an exception of the
\* emulation waits for the next entry only where no event has been injected.
PlaceInv(s) ==
  /\ s.pc \in {"guest", "kernel", "user"} => s.exc = None
  /\ s.entry # None => s.exitint = None /\ s.exc = None /\ s.pc # "user"
  /\ s.entry # None /\ s.pc = "kernel" => s.code \in {"RENDEZVOUS", "SUSPENDED"}
  /\ s.pc = "guest" => s.exitint = None
  /\ s.suspend => s.pc = "dead" \/ (s.pc = "kernel" /\ s.code = "SUSPENDED")
  /\ s.pc # "dead" /\ ~ s.suspend => s.taken = IF s.entry # None THEN s.entry ELSE s.exitint

\* An interrupt that has been accepted can be injected again, and so can an NMI,
\* except while the task switch it caused is emulated.
BlockInv(s) ==
  /\ s.entry = "INTR" \/ s.exitint = "INTR" => s.if /\ ~ s.shadow
  /\ s.entry = "NMI" => ~ s.nmib
  /\ s.inNmi => s.nmib
  /\ s.exitint = "NMI" => IF s.pc \in {"kernel", "user"} /\ s.code = "TASK_SWITCH" THEN s.nmib
                          ELSE s.exc = None => ~ s.nmib

\* The elements done and the elements left.
StringInv(s) == s.index = s.done /\ s.done + s.rcx = Elements
\* WindowArmed of any vcpu.
Armed(s) ==
  s.pc = "guest" /\ ~ s.kick =>
    /\ s.nmi => s.nmiWin
    /\ s.extint \/ s.lapic => s.intWin

VcInv(s) ==
  VcShape(s) /\ VcTypes(s) /\ RipInv(s) /\ PlaceInv(s) /\ BlockInv(s) /\ StringInv(s) /\ Armed(s)

\* A vcpu in the middle of vmx_exit_process.
Exiting(s) ==
  /\ VcShape(s) /\ VcTypes(s) /\ StringInv(s)
  /\ s.pc = "guest" /\ s.xrip = s.at /\ s.vmcsrip = s.at
  /\ s.entry = None /\ ~ s.suspend /\ s.taken = s.exitint
  /\ s.exitint = "INTR" => s.if /\ ~ s.shadow
  /\ s.inNmi => s.nmib

\* An exit of a guest that is not being given an event.
LEMMA Leaves ==
  ASSUME NEW s, VcInv(s), s.pc = "guest", s.entry = None, NEW len \in 0 .. 1
  PROVE  /\ Exiting(Left(s, len))
         /\ Left(s, len).exc = None /\ Left(s, len).exitint = None /\ Left(s, len).xlen = len
<1> USE DEF Left
<1>1. VcShape(Left(s, len)) /\ StringInv(Left(s, len))
  BY DEF VcInv, VcShape, VcFields, StringInv
<1>2. VcTypes(Left(s, len))
  BY DEF VcInv, VcShape, VcFields, VcTypes, Events
<1>3. /\ Left(s, len).exc = None /\ Left(s, len).exitint = None /\ Left(s, len).xlen = len
      /\ Left(s, len).pc = "guest" /\ Left(s, len).xrip = Left(s, len).at
      /\ Left(s, len).vmcsrip = Left(s, len).at /\ Left(s, len).entry = None
      /\ ~ Left(s, len).suspend /\ Left(s, len).taken = None
  BY DEF VcInv, VcShape, VcFields, RipInv, PlaceInv, VcTypes
<1>4. Left(s, len).inNmi => Left(s, len).nmib
  BY DEF VcInv, VcShape, VcFields, BlockInv
<1> HIDE DEF Left
<1> QED BY <1>1, <1>2, <1>3, <1>4 DEF Exiting, None

\* An exit while an event was being delivered.
LEMMA LeavesEvent ==
  ASSUME VcInv(vc), vc.pc = "guest", vc.entry # None, NEW r
  PROVE  LET s == vm_exit_intinfo(Left(vc, 0), r)
         IN /\ Exiting(s) /\ s.exc = None /\ s.xlen = 0
            /\ s.exitint = "NMI" => (s.nmib <=> r = "TASK_SWITCH")
<1> DEFINE l == Left(vc, 0)
           b == IF vc.entry = "NMI" THEN r = "TASK_SWITCH" ELSE l.nmib
           s == [l EXCEPT !.exitint = vc.entry, !.nmib = b]
<1> USE DEF Left
<1>1. VcShape(l) /\ StringInv(l)
  BY DEF VcInv, VcShape, VcFields, StringInv
<1>2. VcTypes(l)
  BY DEF VcInv, VcShape, VcFields, VcTypes, Events
<1>3. /\ l.exc = None /\ l.xlen = 0 /\ l.pc = "guest" /\ l.xrip = l.at
      /\ l.vmcsrip = l.at /\ l.entry = None /\ ~ l.suspend /\ l.taken = vc.entry
      /\ (vc.entry = "INTR" => l.if /\ ~ l.shadow)
  BY DEF VcInv, VcShape, VcFields, RipInv, PlaceInv, BlockInv, VcTypes
<1>4. (l.inNmi => l.nmib) /\ (vc.entry = "NMI" => ~ l.inNmi)
  BY DEF VcInv, VcShape, VcFields, BlockInv
<1>5. vc.entry \in Events
  BY DEF VcInv, VcTypes
<1> HIDE DEF Left, l
<1>6. b \in BOOLEAN /\ (vc.entry = "NMI" => (b <=> r = "TASK_SWITCH")) /\ (l.inNmi => b)
  BY <1>2, <1>4, Zenon DEF VcTypes
<1>7. vm_exit_intinfo(l, r) = s
  BY DEF vm_exit_intinfo
<1> HIDE DEF b
<1>8. VcShape(s) /\ StringInv(s) /\ s.exc = None /\ s.xlen = 0
  BY <1>1, <1>3 DEF VcShape, VcFields, StringInv
<1>9. VcTypes(s)
  BY <1>1, <1>2, <1>5, <1>6 DEF VcShape, VcFields, VcTypes
<1>10. Exiting(s) /\ (s.exitint = "NMI" => (s.nmib <=> r = "TASK_SWITCH"))
  BY <1>1, <1>3, <1>6, <1>8, <1>9 DEF Exiting, VcShape, VcFields
<1> QED BY <1>7, <1>8, <1>10, Zenon DEF l

\* The guest is entered again.
LEMMA Reenters ==
  ASSUME NEW s, Exiting(s), s.exitint = "NMI" => (s.exc = None => ~ s.nmib)
  PROVE  VcInv(Again(s))
<1> DEFINE t == [s EXCEPT !.pc = "inject", !.rip = s.xrip, !.xlen = 0]
<1>1. Again(s) = t
  BY DEF Again, Exiting
<1>2. VcShape(t) /\ VcTypes(t)
  BY DEF Exiting, VcShape, VcFields, VcTypes
<1>3. RipInv(t) /\ PlaceInv(t)
  BY DEF Exiting, VcShape, VcFields, RipInv, PlaceInv, VcTypes
<1>4. BlockInv(t) /\ StringInv(t) /\ Armed(t)
  BY DEF Exiting, VcShape, VcFields, BlockInv, StringInv, Armed, None
<1> QED BY <1>1, <1>2, <1>3, <1>4 DEF VcInv

\* The exit is handed on to vm_run.
LEMMA HandedOn ==
  ASSUME NEW s, Exiting(s), s.exc = None, NEW code \in KernelCodes \ {"SUSPENDED", "RENDEZVOUS"},
         code \in {"PAGING", "IOAPIC_EOI", "MTRAP"} => s.xlen = 0,
         code \in {"HLT", "MONITOR", "INOUT", "INOUT_STR", "PAUSE", "MSR"} => s.xlen = 1,
         s.exitint = "NMI" => (s.nmib <=> code = "TASK_SWITCH")
  PROVE  VcInv(Unhandled(s, code))
<1> USE DEF Unhandled
<1> DEFINE t == Unhandled(s, code)
<1>2. VcShape(t) /\ VcTypes(t)
  BY DEF Exiting, VcShape, VcFields, VcTypes
<1>3. RipInv(t) /\ PlaceInv(t)
  BY DEF Exiting, VcShape, VcFields, RipInv, PlaceInv
<1>4. BlockInv(t) /\ StringInv(t) /\ Armed(t)
  BY DEF Exiting, VcShape, VcFields, BlockInv, StringInv, Armed, None, KernelCodes, UserCodes
<1> QED BY <1>2, <1>3, <1>4 DEF VcInv

\* The exceptions vmx_exit_process injects.
LEMMA Names == "GP" \in Exceptions /\ "BP" \in Exceptions /\ FALSE \in BOOLEAN /\ TRUE \in BOOLEAN
  BY DEF Exceptions, Contributory, Benign

\* An exception of the emulation is recorded for the next entry.
LEMMA Faults ==
  ASSUME NEW s, Exiting(s), s.exc = None, NEW e \in Exceptions, NEW restart \in BOOLEAN
  PROVE  LET t == vm_inject_exception(s, e, restart)
         IN /\ Exiting(t) /\ t.exc = e /\ t.exitint = s.exitint /\ t.xrip = s.xrip
            /\ t.xlen = IF restart THEN 0 ELSE s.xlen
<1>1. CASE restart
  <2> DEFINE t == [s EXCEPT !.xlen = 0, !.shadow = FALSE, !.exc = e]
  <2>1. vm_inject_exception(s, e, restart) = t
    BY <1>1 DEF Exiting, vm_inject_exception, vm_restart_instruction, Running
  <2>2. VcShape(t) /\ VcTypes(t)
    BY DEF Exiting, VcShape, VcFields, VcTypes
  <2>3. Exiting(t) /\ t.exc = e /\ t.exitint = s.exitint /\ t.xrip = s.xrip /\ t.xlen = 0
    BY <2>2 DEF Exiting, VcShape, VcFields, StringInv
  <2> QED BY <1>1, <2>1, <2>3, Zenon
<1>2. CASE ~ restart
  <2> DEFINE t == [s EXCEPT !.shadow = FALSE, !.exc = e]
  <2>1. vm_inject_exception(s, e, restart) = t
    BY <1>2 DEF vm_inject_exception
  <2>2. VcShape(t) /\ VcTypes(t)
    BY DEF Exiting, VcShape, VcFields, VcTypes
  <2>3. Exiting(t) /\ t.exc = e /\ t.exitint = s.exitint /\ t.xrip = s.xrip /\ t.xlen = s.xlen
    BY <2>2 DEF Exiting, VcShape, VcFields, StringInv
  <2> QED BY <1>2, <2>1, <2>3, Zenon
<1> QED BY <1>1, <1>2

-----------------------------------------------------------------------------
(* Injection.                                                              *)

\* Two events combine as in the architecture's table.
LEMMA Combines ==
  ASSUME NEW a \in Events \ {None}, NEW b \in Exceptions
  PROVE  /\ a = "DF" => nested_fault(a, b) = "shutdown" /\ Combined(a, b) = None
         /\ a # "DF" => /\ nested_fault(a, b) = Combined(a, b)
                        /\ nested_fault(a, b) \in Exceptions \cup {"DF"}
  BY DEF Events, Exceptions, None, nested_fault, Combined, exception_class, Contributory, PageFaults, Benign

\* A vcpu in the middle of vmx_inject_interrupts.
Injecting(s) ==
  /\ VcShape(s) /\ VcTypes(s) /\ StringInv(s)
  /\ s.pc = "inject" /\ s.rip = s.at /\ s.vmcsrip = s.at
  /\ s.exitint = None /\ s.exc = None /\ (~ s.suspend => s.taken = s.entry)
  /\ s.entry = "INTR" => s.if /\ ~ s.shadow
  /\ s.entry = "NMI" => ~ s.nmib
  /\ s.inNmi => s.nmib

\* RipChange only takes a shadow away.
LEMMA RipChanges ==
  ASSUME NEW s, VcInv(s), s.pc = "inject"
  PROVE  VcInv(RipChange(s)) /\ RipChange(s).pc = "inject"
<1> DEFINE sh == IF s.lastrip # s.rip THEN FALSE ELSE s.shadow
           t == [s EXCEPT !.shadow = sh]
<1>1. sh \in BOOLEAN /\ (sh => s.shadow)
  BY Zenon DEF VcInv, VcTypes
<1>2. RipChange(s) = t
  BY DEF RipChange
<1> HIDE DEF sh
<1>3. VcShape(t) /\ VcTypes(t)
  BY <1>1 DEF VcInv, VcShape, VcFields, VcTypes
<1>4. RipInv(t) /\ PlaceInv(t)
  BY DEF VcInv, VcShape, VcFields, RipInv, PlaceInv
<1>5. BlockInv(t) /\ StringInv(t) /\ Armed(t) /\ t.pc = "inject"
  BY <1>1 DEF VcInv, VcShape, VcFields, BlockInv, StringInv, Armed
<1> QED BY <1>2, <1>3, <1>4, <1>5 DEF VcInv

\* vm_entry_intinfo leaves the event of the last exit, the exception of the
\* emulation, or what both combine to, in the VMCS and nowhere else.
LEMMA Combining ==
  ASSUME NEW s, VcInv(s), s.pc = "inject"
  PROVE  Injecting(vm_entry_intinfo(s))
<1> DEFINE c == Combined(s.taken, s.exc)
           t == [s EXCEPT !.exitint = None, !.exc = None, !.taken = c]
<1>0. /\ s.exc \in Exceptions \cup {None} /\ s.exitint \in Events /\ s.entry \in Events
      /\ ~ s.suspend /\ s.taken = IF s.entry # None THEN s.entry ELSE s.exitint
      /\ s.entry # None => s.exitint = None /\ s.exc = None
      /\ s.rip = s.at /\ s.vmcsrip = s.at
  BY DEF VcInv, VcTypes, PlaceInv, RipInv
<1>1. CASE s.exc = None /\ (s.exitint = None \/ s.entry # None)
  <2>1. c = s.entry
    BY <1>0, <1>1 DEF Combined
  <2>2. vm_entry_intinfo(s) = t
    BY <1>0, <1>1 DEF vm_entry_intinfo, None
  <2> HIDE DEF c
  <2>3. VcShape(t) /\ VcTypes(t)
    BY <1>0, <2>1 DEF VcInv, VcShape, VcFields, VcTypes, Events
  <2>4. Injecting(t)
    BY <1>0, <2>1, <2>3 DEF VcInv, VcShape, VcFields, Injecting, StringInv, BlockInv
  <2> QED BY <2>2, <2>4
<1>2. CASE s.exc = None /\ s.exitint # None /\ s.entry = None
  <2> DEFINE u == [s EXCEPT !.exitint = None, !.exc = None, !.taken = s.exitint, !.entry = s.exitint]
  <2>1. c = s.exitint
    BY <1>0, <1>2 DEF Combined
  <2>2. vm_entry_intinfo(s) = [t EXCEPT !.entry = s.exitint] /\ s.exitint # "shutdown"
    BY <1>0, <1>2 DEF vm_entry_intinfo, None, Events, Exceptions, Contributory, PageFaults, Benign
  <2>3. VcShape(u) /\ VcTypes(u)
    BY <1>0, <1>2 DEF VcInv, VcShape, VcFields, VcTypes, Events
  <2>4. Injecting(u)
    BY <1>0, <1>2, <2>3 DEF VcInv, VcShape, VcFields, Injecting, StringInv, BlockInv
  <2> QED BY <2>1, <2>2, <2>4
<1>3. CASE s.exc # None
  <2> DEFINE info == IF s.exitint # None THEN nested_fault(s.exitint, s.exc) ELSE s.exc
             u == [s EXCEPT !.exitint = None, !.exc = None, !.taken = c, !.entry = info]
             v == [s EXCEPT !.exitint = None, !.exc = None, !.taken = c, !.suspend = TRUE]
  <2>0. s.entry = None /\ s.taken = s.exitint /\ s.exc \in Exceptions
    BY <1>0, <1>3
  <2>1. CASE info = "shutdown"
    <3>1. s.exitint = "DF"
      BY <1>0, <2>0, <2>1, Combines DEF Exceptions, Contributory, PageFaults, Benign
    <3>2. c = None
      BY <2>0, <3>1 DEF Combined, None, Exceptions, Contributory, PageFaults, Benign
    <3>3. vm_entry_intinfo(s) = v
      BY <1>3, <2>1, <3>1 DEF vm_entry_intinfo, None
    <3> HIDE DEF c
    <3>4. VcShape(v) /\ VcTypes(v)
      BY <3>2 DEF VcInv, VcShape, VcFields, VcTypes, Events
    <3>5. Injecting(v)
      BY <1>0, <2>0, <3>2, <3>4 DEF VcInv, VcShape, VcFields, Injecting, StringInv, BlockInv, None
    <3> QED BY <3>3, <3>5
  <2>2. CASE info # "shutdown"
    <3>1. s.exitint # "DF"
      BY <2>0, <2>2, Combines DEF Events, None
    <3>2. c = info /\ info \in Exceptions \cup {"DF"}
      <4>1. CASE s.exitint = None
        BY <2>0, <4>1 DEF Combined
      <4>2. CASE s.exitint # None
        BY <1>0, <2>0, <3>1, <4>2, Combines
      <4> QED BY <4>1, <4>2
    <3>3. info # None
      BY <3>2 DEF None, Exceptions, Contributory, PageFaults, Benign
    <3>4. vm_entry_intinfo(s) = [t EXCEPT !.entry = info]
      BY <1>3, <2>0, <2>2, <3>3, Zenon DEF vm_entry_intinfo
    <3> HIDE DEF c, info
    <3>5. VcShape(u) /\ VcTypes(u)
      BY <3>2 DEF VcInv, VcShape, VcFields, VcTypes, Events
    <3>6. info # "INTR" /\ info # "NMI"
      BY <3>2 DEF Exceptions, Contributory, PageFaults, Benign
    <3>7. Injecting(u)
      BY <1>0, <2>0, <3>2, <3>5, <3>6 DEF VcInv, VcShape, VcFields, Injecting, StringInv, BlockInv, None
    <3> QED BY <3>4, <3>7
  <2> QED BY <2>1, <2>2
<1> QED BY <1>1, <1>2, <1>3

\* vmx_inject_nmi's assertions hold, and an NMI that has to wait opens the window.
LEMMA NmiInjecting ==
  ASSUME NEW s, Injecting(s)
  PROVE  Injecting(InjectNmi(s)) /\ (InjectNmi(s).nmi => InjectNmi(s).nmiWin)
<1>1. CASE ~ s.nmi
  BY <1>1 DEF InjectNmi
<1>2. CASE s.nmi /\ ~ s.shadow /\ ~ s.nmib /\ s.entry = None
  <2> DEFINE t == [s EXCEPT !.entry = "NMI", !.nmi = FALSE, !.taken = "NMI"]
  <2>1. InjectNmi(s) = t
    BY <1>2 DEF InjectNmi, vmx_inject_nmi
  <2>2. VcShape(t) /\ VcTypes(t)
    BY DEF Injecting, VcShape, VcFields, VcTypes, Events
  <2>3. Injecting(t) /\ ~ t.nmi
    BY <1>2, <2>2 DEF Injecting, VcShape, VcFields, StringInv
  <2> QED BY <2>1, <2>3
<1>3. CASE s.nmi /\ ~ (~ s.shadow /\ ~ s.nmib /\ s.entry = None)
  <2> DEFINE t == [s EXCEPT !.nmiWin = TRUE]
  <2>1. InjectNmi(s) = t
    BY <1>3 DEF InjectNmi
  <2>2. VcShape(t) /\ VcTypes(t)
    BY DEF Injecting, VcShape, VcFields, VcTypes
  <2>3. Injecting(t) /\ t.nmiWin
    BY <2>2 DEF Injecting, VcShape, VcFields, StringInv
  <2> QED BY <2>1, <2>3
<1> QED BY <1>1, <1>2, <1>3

\* An interrupt is accepted only when it can be injected; otherwise, and when
\* the controller posts the next one, the window is open.
LEMMA IntrInjecting ==
  ASSUME NEW s, Injecting(s), s.nmi => s.nmiWin, NEW t \in InjectIntr(s)
  PROVE  /\ Injecting(t) /\ (t.nmi => t.nmiWin)
         /\ t.extint \/ t.lapic => t.intWin
<1>0. s.nmi \in BOOLEAN /\ s.nmiWin \in BOOLEAN /\ s.extint \in BOOLEAN /\ s.lapic \in BOOLEAN /\ s.kick \in BOOLEAN
  BY DEF Injecting, VcTypes
<1>1. CASE s.intWin \/ ~ (s.extint \/ s.lapic)
  <2>1. t = s
    BY <1>1, Zenon DEF InjectIntr
  <2> QED BY <1>1, <2>1
<1>2. CASE ~ (s.intWin \/ ~ (s.extint \/ s.lapic)) /\ (~ s.if \/ s.shadow \/ s.entry # None)
  <2> DEFINE u == [s EXCEPT !.intWin = TRUE]
  <2>1. t = u
    BY <1>2, Zenon DEF InjectIntr
  <2>2. VcShape(u) /\ VcTypes(u)
    BY DEF Injecting, VcShape, VcFields, VcTypes
  <2>3. Injecting(u) /\ u.intWin /\ (u.nmi => u.nmiWin)
    BY <1>0, <2>2 DEF Injecting, VcShape, VcFields, StringInv
  <2> QED BY <2>1, <2>3
<1>3. CASE ~ (s.intWin \/ ~ (s.extint \/ s.lapic)) /\ ~ (~ s.if \/ s.shadow \/ s.entry # None) /\ s.extint
  <2>1. PICK more \in BOOLEAN : t = [s EXCEPT !.entry = "INTR", !.taken = "INTR", !.extint = more,
                                              !.kick = s.kick \/ more, !.intWin = TRUE]
    BY <1>3, Zenon DEF InjectIntr
  <2> DEFINE k == s.kick \/ more
             u == [s EXCEPT !.entry = "INTR", !.taken = "INTR", !.extint = more, !.kick = k, !.intWin = TRUE]
  <2>2. k \in BOOLEAN
    BY <1>0, <2>1
  <2>3. t = u
    BY <2>1
  <2> HIDE DEF k
  <2>4. VcShape(u) /\ VcTypes(u)
    BY <2>1, <2>2 DEF Injecting, VcShape, VcFields, VcTypes, Events
  <2>5. Injecting(u) /\ u.intWin /\ (u.nmi => u.nmiWin)
    BY <1>0, <1>3, <2>4 DEF Injecting, VcShape, VcFields, StringInv
  <2> QED BY <2>3, <2>5
<1>4. CASE ~ (s.intWin \/ ~ (s.extint \/ s.lapic)) /\ ~ (~ s.if \/ s.shadow \/ s.entry # None) /\ ~ s.extint
  <2> DEFINE u == [s EXCEPT !.entry = "INTR", !.taken = "INTR", !.lapic = FALSE]
  <2>1. t = u
    BY <1>4 DEF InjectIntr
  <2>2. VcShape(u) /\ VcTypes(u)
    BY DEF Injecting, VcShape, VcFields, VcTypes, Events
  <2>3. Injecting(u) /\ ~ u.extint /\ ~ u.lapic /\ (u.nmi => u.nmiWin)
    BY <1>0, <1>4, <2>2 DEF Injecting, VcShape, VcFields, StringInv
  <2> QED BY <2>1, <2>3
<1> QED BY <1>1, <1>2, <1>3, <1>4

\* A round of vmx_run keeps the invariant.
LEMMA RunStep ==
  ASSUME VcInv(vc), vmx_run
  PROVE  VcInv(vc')
<1>1. PICK s \in vmx_inject_interrupts(vc) :
        vc' = IF s.pc = "assert" THEN s
              ELSE IF s.suspend THEN [s EXCEPT !.pc = "kernel", !.xrip = s.rip, !.xlen = 0, !.code = "SUSPENDED"]
              ELSE IF s.rendezvous THEN [s EXCEPT !.pc = "kernel", !.xrip = s.rip, !.xlen = 0, !.code = "RENDEZVOUS"]
              ELSE [s EXCEPT !.pc = "guest", !.lastrip = s.rip]
  BY Zenon DEF vmx_run
<1> DEFINE a == RipChange(vc)
           b == vm_entry_intinfo(a)
           c == InjectNmi(b)
<1>2. VcInv(a) /\ a.pc = "inject"
  BY RipChanges DEF vmx_run
<1> HIDE DEF a
<1>3. Injecting(b)
  BY <1>2, Combining
<1> HIDE DEF b
<1>4. Injecting(c) /\ (c.nmi => c.nmiWin)
  BY <1>3, NmiInjecting
<1> HIDE DEF c
<1>5. s \in InjectIntr(c)
  BY <1>1 DEF vmx_inject_interrupts, a, b, c
<1>6. Injecting(s) /\ (s.nmi => s.nmiWin) /\ (s.extint \/ s.lapic => s.intWin)
  BY <1>4, <1>5, IntrInjecting
<1>7. s.pc # "assert" /\ s.rip = s.at /\ s.vmcsrip = s.at
  BY <1>6 DEF Injecting
<1>8. CASE s.suspend
  <2> DEFINE t == [s EXCEPT !.pc = "kernel", !.xrip = s.rip, !.xlen = 0, !.code = "SUSPENDED"]
  <2>1. vc' = t
    BY <1>1, <1>7, <1>8
  <2>2. VcShape(t) /\ VcTypes(t)
    BY <1>6 DEF Injecting, VcShape, VcFields, VcTypes, KernelCodes
  <2>3. RipInv(t) /\ PlaceInv(t)
    BY <1>6, <1>8 DEF Injecting, VcShape, VcFields, RipInv, PlaceInv, KernelCodes
  <2>4. BlockInv(t) /\ StringInv(t) /\ Armed(t)
    BY <1>6 DEF Injecting, VcShape, VcFields, BlockInv, StringInv, Armed, None
  <2> QED BY <2>1, <2>2, <2>3, <2>4 DEF VcInv
<1>9. CASE ~ s.suspend /\ s.rendezvous
  <2> DEFINE t == [s EXCEPT !.pc = "kernel", !.xrip = s.rip, !.xlen = 0, !.code = "RENDEZVOUS"]
  <2>1. vc' = t
    BY <1>1, <1>7, <1>9
  <2>2. VcShape(t) /\ VcTypes(t)
    BY <1>6 DEF Injecting, VcShape, VcFields, VcTypes, KernelCodes
  <2>3. RipInv(t) /\ PlaceInv(t)
    BY <1>6, <1>9 DEF Injecting, VcShape, VcFields, RipInv, PlaceInv, KernelCodes
  <2>4. BlockInv(t) /\ StringInv(t) /\ Armed(t)
    BY <1>6 DEF Injecting, VcShape, VcFields, BlockInv, StringInv, Armed, None
  <2> QED BY <2>1, <2>2, <2>3, <2>4 DEF VcInv
<1>10. CASE ~ s.suspend /\ ~ s.rendezvous
  <2> DEFINE t == [s EXCEPT !.pc = "guest", !.lastrip = s.rip]
  <2>1. vc' = t
    BY <1>1, <1>7, <1>10
  <2>2. VcShape(t) /\ VcTypes(t)
    BY <1>6 DEF Injecting, VcShape, VcFields, VcTypes
  <2>3. RipInv(t) /\ PlaceInv(t)
    BY <1>6, <1>10 DEF Injecting, VcShape, VcFields, RipInv, PlaceInv
  <2>4. BlockInv(t) /\ StringInv(t) /\ Armed(t)
    BY <1>6 DEF Injecting, VcShape, VcFields, BlockInv, StringInv, Armed, None
  <2> QED BY <2>1, <2>2, <2>3, <2>4 DEF VcInv
<1> QED BY <1>8, <1>9, <1>10

-----------------------------------------------------------------------------
(* vm_run and the process.                                                 *)

\* A vcpu whose exit is being finished outside vmx_run.
Emulating(s) ==
  /\ VcShape(s) /\ VcTypes(s) /\ StringInv(s)
  /\ s.pc \in {"kernel", "user"} /\ s.vmcsrip = s.at
  /\ s.entry = None /\ s.exc = None /\ ~ s.suspend /\ s.taken = s.exitint
  /\ s.exitint = "INTR" => s.if /\ ~ s.shadow
  /\ s.inNmi => s.nmib

\* The same instruction again.
LEMMA Resumes ==
  ASSUME NEW s, Emulating(s), s.nextrip = s.at, s.exitint = "NMI" => ~ s.nmib
  PROVE  VcInv(Resumed(s))
<1> DEFINE t == [s EXCEPT !.pc = "vmrun"]
<1>1. Resumed(s) = t
  BY DEF Resumed, Emulating
<1>2. VcShape(t) /\ VcTypes(t)
  BY DEF Emulating, VcShape, VcFields, VcTypes
<1>3. RipInv(t) /\ PlaceInv(t)
  BY DEF Emulating, VcShape, VcFields, RipInv, PlaceInv
<1>4. BlockInv(t) /\ StringInv(t) /\ Armed(t)
  BY DEF Emulating, VcShape, VcFields, BlockInv, StringInv, Armed, None
<1> QED BY <1>1, <1>2, <1>3, <1>4 DEF VcInv

\* The next instruction.
LEMMA Finishes ==
  ASSUME NEW s, Emulating(s), s.nextrip = RipAfter(s.at, 1), s.exitint = "NMI" => ~ s.nmib
  PROVE  VcInv(Finished(s))
<1> DEFINE t == [s EXCEPT !.pc = "vmrun", !.at = s.nextrip]
<1>1. Finished(s) = t
  BY DEF Finished
<1>2. VcShape(t) /\ VcTypes(t)
  BY DEF Emulating, VcShape, VcFields, VcTypes
<1>3. RipInv(t) /\ PlaceInv(t)
  BY DEF Emulating, VcShape, VcFields, RipInv, PlaceInv
<1>4. BlockInv(t) /\ StringInv(t) /\ Armed(t)
  BY DEF Emulating, VcShape, VcFields, BlockInv, StringInv, Armed, None
<1> QED BY <1>1, <1>2, <1>3, <1>4 DEF VcInv

\* The instruction again, after the exception of its emulation.
LEMMA Restarts ==
  ASSUME NEW s, Emulating(s), NEW e \in Exceptions
  PROVE  VcInv(Resumed(vm_inject_fault(s, e)))
<1> DEFINE t == [s EXCEPT !.nextrip = s.vmcsrip, !.shadow = FALSE, !.exc = e, !.pc = "vmrun"]
<1>0. e # None
  BY DEF Exceptions, Contributory, PageFaults, Benign, None
<1>1. Resumed(vm_inject_fault(s, e)) = t
  <2>1. vm_inject_fault(s, e) = [s EXCEPT !.nextrip = s.vmcsrip, !.shadow = FALSE, !.exc = e]
    BY Zenon DEF Emulating, vm_inject_fault, vm_inject_exception, vm_restart_instruction, Running
  <2>2. [s EXCEPT !.nextrip = s.vmcsrip, !.shadow = FALSE, !.exc = e].pc # "assert"
    BY DEF Emulating, VcShape, VcFields
  <2> QED BY <2>1, <2>2 DEF Resumed
<1>2. VcShape(t) /\ VcTypes(t)
  BY DEF Emulating, VcShape, VcFields, VcTypes
<1>3. RipInv(t) /\ PlaceInv(t)
  BY DEF Emulating, VcShape, VcFields, RipInv, PlaceInv
<1>4. BlockInv(t) /\ StringInv(t) /\ Armed(t)
  BY <1>0 DEF Emulating, VcShape, VcFields, BlockInv, StringInv, Armed, None
<1> QED BY <1>1, <1>2, <1>3, <1>4 DEF VcInv

\* The exit is handed on to the process.
LEMMA Returns ==
  ASSUME NEW s, Emulating(s), s.code \in UserCodes, s.code = "MTRAP" => s.nextrip = s.at,
         s.code \in {"INOUT", "INOUT_STR", "PAUSE", "MSR", "INST_EMUL"} => s.nextrip = RipAfter(s.at, 1),
         s.exitint = "NMI" => (s.nmib <=> s.code = "TASK_SWITCH")
  PROVE  VcInv(ToUser(s))
<1> DEFINE t == [s EXCEPT !.pc = "user"]
<1>1. ToUser(s) = t
  BY DEF ToUser
<1>2. VcShape(t) /\ VcTypes(t)
  BY DEF Emulating, VcShape, VcFields, VcTypes
<1>3. RipInv(t) /\ PlaceInv(t)
  BY DEF Emulating, VcShape, VcFields, RipInv, PlaceInv
<1>4. BlockInv(t) /\ StringInv(t) /\ Armed(t)
  BY DEF Emulating, VcShape, VcFields, BlockInv, StringInv, Armed, None
<1> QED BY <1>1, <1>2, <1>3, <1>4 DEF VcInv

\* vm_run keeps the invariant.
LEMMA KernelStep ==
  ASSUME VcInv(vc), vm_run
  PROVE  VcInv(vc')
<1> DEFINE r == RipAfter(vc.xrip, vc.xlen)
           s == [vc EXCEPT !.nextrip = r]
<1>0. /\ vc.pc = "kernel" /\ vc.code \in KernelCodes /\ vc.xrip = vc.at /\ vc.vmcsrip = vc.at
      /\ vc.at \in 0 .. 2 /\ vc.xlen \in 0 .. 1
      /\ vc.code \in {"RENDEZVOUS", "PAGING", "IOAPIC_EOI", "MTRAP"} => vc.xlen = 0
      /\ vc.code \in {"HLT", "MONITOR", "INOUT", "INOUT_STR", "PAUSE", "MSR"} => vc.xlen = 1
  BY DEF VcInv, VcTypes, RipInv, vm_run
<1>1. r \in 0 .. 2 /\ (vc.xlen = 0 => r = vc.at) /\ (vc.xlen = 1 => r = RipAfter(vc.at, 1))
  BY <1>0 DEF RipAfter
<1>2. vc' \in CASE s.code = "SUSPENDED"             -> {[s EXCEPT !.pc = "dead"]}
                [] s.code = "RENDEZVOUS"            -> {Resumed([s EXCEPT !.rendezvous = FALSE])}
                [] s.code \in {"PAGING", "IOAPIC_EOI"} -> {Resumed(s)}
                [] s.code = "HLT"                   -> {Finished(s)}
                [] s.code = "MONITOR"               -> {Resumed(vm_inject_fault(s, "UD"))}
                [] s.code = "INST_EMUL"             -> vm_handle_inst_emul(s)
                [] s.code = "INOUT"                 -> vm_handle_inout(s)
                [] OTHER                            -> {ToUser(s)}
  BY DEF vm_run
<1> HIDE DEF r
<1>3. VcShape(s) /\ VcTypes(s) /\ StringInv(s)
  BY <1>1 DEF VcInv, VcShape, VcFields, VcTypes, StringInv
<1>4. /\ s.code = vc.code /\ s.pc = "kernel" /\ s.nextrip = r /\ s.at = vc.at /\ s.vmcsrip = vc.at
      /\ s.xlen = vc.xlen
  BY <1>0 DEF VcInv, VcShape, VcFields
<1>5. CASE vc.code = "SUSPENDED"
  <2> DEFINE t == [vc EXCEPT !.nextrip = r, !.pc = "dead"]
  <2>1. vc' = t
    BY <1>2, <1>4, <1>5
  <2>2. VcShape(t) /\ VcTypes(t)
    BY <1>1 DEF VcInv, VcShape, VcFields, VcTypes
  <2>3. RipInv(t) /\ PlaceInv(t)
    BY <1>0 DEF VcInv, VcShape, VcFields, RipInv, PlaceInv
  <2>4. BlockInv(t) /\ StringInv(t) /\ Armed(t)
    BY <1>0, <1>5 DEF VcInv, VcShape, VcFields, BlockInv, StringInv, Armed
  <2> QED BY <2>1, <2>2, <2>3, <2>4 DEF VcInv
<1>6. CASE vc.code = "RENDEZVOUS"
  <2> DEFINE t == [vc EXCEPT !.nextrip = r, !.rendezvous = FALSE, !.pc = "vmrun"]
  <2>1. vc' = t
    <3>1. vc' = Resumed([s EXCEPT !.rendezvous = FALSE])
      BY <1>2, <1>4, <1>6
    <3>2. [s EXCEPT !.rendezvous = FALSE].pc # "assert"
      BY <1>3, <1>4 DEF VcShape, VcFields
    <3> QED BY <3>1, <3>2 DEF Resumed
  <2>2. VcShape(t) /\ VcTypes(t)
    BY <1>1 DEF VcInv, VcShape, VcFields, VcTypes
  <2>3. RipInv(t) /\ PlaceInv(t)
    BY <1>0, <1>1, <1>6 DEF VcInv, VcShape, VcFields, RipInv, PlaceInv
  <2>4. BlockInv(t) /\ StringInv(t) /\ Armed(t)
    BY <1>0, <1>6 DEF VcInv, VcShape, VcFields, BlockInv, StringInv, Armed
  <2> QED BY <2>1, <2>2, <2>3, <2>4 DEF VcInv
<1>7. CASE vc.code \notin {"SUSPENDED", "RENDEZVOUS"}
  <2>1. /\ s.entry = None /\ s.exc = None /\ ~ s.suspend /\ s.taken = s.exitint
        /\ s.exitint = "INTR" => s.if /\ ~ s.shadow
        /\ s.inNmi => s.nmib
    BY <1>0, <1>7 DEF VcInv, VcShape, VcFields, PlaceInv, BlockInv
  <2>2. s.exitint = "NMI" => (s.nmib <=> s.code = "TASK_SWITCH")
    BY <1>0, <1>7 DEF VcInv, VcShape, VcFields, PlaceInv, BlockInv
  <2>3. Emulating(s)
    BY <1>3, <1>4, <2>1 DEF Emulating
  <2> HIDE DEF s
  <2>4. CASE vc.code \in {"PAGING", "IOAPIC_EOI"}
    <3>1. vc' = Resumed(s)
      BY <1>2, <1>4, <2>4
    <3> QED BY <1>0, <1>1, <1>4, <2>2, <2>3, <2>4, <3>1, Resumes
  <2>5. CASE vc.code = "HLT"
    <3>1. vc' = Finished(s)
      BY <1>2, <1>4, <2>5
    <3> QED BY <1>0, <1>1, <1>4, <2>2, <2>3, <2>5, <3>1, Finishes
  <2>6. CASE vc.code = "MONITOR"
    <3>1. vc' = Resumed(vm_inject_fault(s, "UD"))
      BY <1>2, <1>4, <2>6
    <3> QED BY <2>3, <3>1, Restarts DEF Exceptions, Benign
  <2>7. CASE vc.code = "INOUT"
    <3>1. vc' \in {Finished(s), ToUser(s)}
      BY <1>2, <1>4, <2>7 DEF vm_handle_inout
    <3> QED BY <1>0, <1>1, <1>4, <2>2, <2>3, <2>7, <3>1, Finishes, Returns DEF UserCodes
  <2>8. CASE vc.code = "INST_EMUL"
    <3> DEFINE d == IF s.xlen = 0 THEN [s EXCEPT !.xlen = 1, !.nextrip = RipAfter(@, 1)] ELSE s
    <3>1. vc' \in {Resumed(vm_inject_fault(s, "PF")), Finished(d), Resumed(vm_inject_fault(d, "PF")), ToUser(d)}
      BY <1>2, <1>4, <2>8 DEF vm_handle_inst_emul
    <3>2. /\ Emulating(d) /\ d.nextrip = RipAfter(d.at, 1) /\ d.code = "INST_EMUL"
          /\ d.exitint = "NMI" => ~ d.nmib
      <4>1. CASE s.xlen = 1
        BY <1>1, <1>4, <2>2, <2>3, <2>8, <4>1
      <4>2. CASE s.xlen = 0
        <5> DEFINE n == RipAfter(s.at, 1)
                   e == [s EXCEPT !.xlen = 1, !.nextrip = n]
        <5>1. n \in 0 .. 2
          BY <1>0, <1>4 DEF RipAfter
        <5>2. d = e
          BY <1>1, <1>4, <4>2, Zenon
        <5> HIDE DEF n, d
        <5>3. VcShape(e) /\ VcTypes(e)
          BY <1>3, <5>1 DEF VcShape, VcFields, VcTypes
        <5>4. Emulating(e) /\ e.at = s.at /\ e.nextrip = n /\ e.code = s.code /\ e.exitint = s.exitint /\ e.nmib = s.nmib
          BY <2>3, <5>3 DEF Emulating, VcShape, VcFields, StringInv
        <5> QED BY <1>4, <2>2, <2>8, <5>2, <5>4, Zenon DEF n
      <4> QED BY <1>0, <1>4, <4>1, <4>2
    <3> HIDE DEF d
    <3> QED BY <2>3, <3>1, <3>2, Restarts, Finishes, Returns DEF Exceptions, PageFaults, UserCodes
  <2>9. CASE vc.code \in {"INOUT_STR", "PAUSE", "MTRAP", "MSR", "TASK_SWITCH"}
    <3>1. vc' = ToUser(s)
      BY <1>2, <1>4, <2>9
    <3> QED BY <1>0, <1>1, <1>4, <2>2, <2>3, <2>9, <3>1, Returns DEF UserCodes
  <2> QED BY <1>0, <1>7, <2>4, <2>5, <2>6, <2>7, <2>8, <2>9 DEF KernelCodes, UserCodes
<1> QED BY <1>5, <1>6, <1>7

\* String I/O writes back the elements it has moved, whether or not it ends in a
\* fault.
LEMMA StringStep ==
  ASSUME NEW s, Emulating(s), s.nextrip = RipAfter(s.at, 1), s.exitint = "NMI" => ~ s.nmib,
         NEW u \in emulate_inout_str(s)
  PROVE  VcInv(u)
<1> USE InjectAssumption
<1> DEFINE most == IF s.rcx < Batch THEN s.rcx ELSE Batch
           Moved(t, n) == [t EXCEPT !.index = @ + n, !.rcx = @ - n, !.done = @ + n]
<1>1. PICK n \in 0 .. most :
        u = LET t == Moved(IF n < most THEN vm_inject_fault(s, "PF") ELSE s, n)
            IN IF t.rcx # 0 THEN Resumed(vm_restart_instruction(t)) ELSE Finished(t)
  BY Zenon DEF emulate_inout_str
<1> DEFINE i == s.index + n
           r == s.rcx - n
           d == s.done + n
<1>2. /\ n \in Nat /\ i \in Nat /\ r \in Nat /\ d \in Nat /\ i = d /\ d + r = Elements
      /\ n < most => r # 0
  BY <1>1 DEF Emulating, VcTypes, StringInv
<1>3. CASE n < most
  <2> DEFINE f == [s EXCEPT !.nextrip = s.vmcsrip, !.shadow = FALSE, !.exc = "PF"]
             t == [f EXCEPT !.index = i, !.rcx = r, !.done = d]
             v == [t EXCEPT !.nextrip = t.vmcsrip]
             w == [v EXCEPT !.pc = "vmrun"]
  <2>1. vm_inject_fault(s, "PF") = f
    BY Zenon DEF Emulating, vm_inject_fault, vm_inject_exception, vm_restart_instruction, Running
  <2>2. f.index = s.index /\ f.rcx = s.rcx /\ f.done = s.done
    BY DEF Emulating, VcShape, VcFields
  <2>3. u = IF t.rcx # 0 THEN Resumed(vm_restart_instruction(t)) ELSE Finished(t)
    BY <1>1, <1>3, <2>1, <2>2, Zenon
  <2> HIDE DEF i, r, d
  <2>4. /\ VcShape(t) /\ VcTypes(t) /\ StringInv(t) /\ t.rcx # 0
    BY <1>2, <1>3 DEF Emulating, VcShape, VcFields, VcTypes, StringInv, Exceptions, PageFaults
  <2>5. /\ t.pc \in {"kernel", "user"} /\ t.vmcsrip = t.at /\ t.entry = None /\ t.exc = "PF"
        /\ ~ t.suspend /\ t.taken = t.exitint /\ ~ t.shadow
        /\ t.exitint = "INTR" => t.if
        /\ t.inNmi => t.nmib
    BY DEF Emulating, VcShape, VcFields
  <2> HIDE DEF t
  <2>6. u = w
    <3>1. vm_restart_instruction(t) = v
      BY <2>5 DEF vm_restart_instruction, Running
    <3>2. v.pc # "assert"
      BY <2>4, <2>5 DEF VcShape, VcFields
    <3> QED BY <2>3, <2>4, <3>1, <3>2 DEF Resumed
  <2>7. VcShape(w) /\ VcTypes(w)
    BY <2>4 DEF VcShape, VcFields, VcTypes
  <2>8. RipInv(w) /\ PlaceInv(w)
    BY <2>4, <2>5 DEF VcShape, VcFields, RipInv, PlaceInv
  <2>9. BlockInv(w) /\ StringInv(w) /\ Armed(w)
    BY <2>4, <2>5 DEF VcShape, VcFields, BlockInv, StringInv, Armed, None
  <2> QED BY <2>6, <2>7, <2>8, <2>9 DEF VcInv
<1>4. CASE ~ (n < most)
  <2> DEFINE t == [s EXCEPT !.index = i, !.rcx = r, !.done = d]
             v == [t EXCEPT !.nextrip = t.vmcsrip]
  <2>1. u = IF t.rcx # 0 THEN Resumed(vm_restart_instruction(t)) ELSE Finished(t)
    BY <1>1, <1>4
  <2> HIDE DEF i, r, d
  <2>2. VcShape(t) /\ VcTypes(t) /\ StringInv(t)
    BY <1>2 DEF Emulating, VcShape, VcFields, VcTypes, StringInv
  <2>3. /\ Emulating(t) /\ t.nextrip = RipAfter(t.at, 1) /\ (t.exitint = "NMI" => ~ t.nmib)
    BY <2>2 DEF Emulating, VcShape, VcFields
  <2> HIDE DEF t
  <2>4. CASE t.rcx # 0
    <3>1. vm_restart_instruction(t) = v
      BY <2>3 DEF Emulating, vm_restart_instruction, Running
    <3>2. VcShape(v) /\ VcTypes(v) /\ StringInv(v)
      BY <2>2 DEF VcShape, VcFields, VcTypes, StringInv
    <3>3. Emulating(v) /\ v.nextrip = v.at /\ (v.exitint = "NMI" => ~ v.nmib)
      BY <2>3, <3>2 DEF Emulating, VcShape, VcFields
    <3> HIDE DEF v
    <3> QED BY <2>1, <2>4, <3>1, <3>3, Resumes
  <2>5. CASE t.rcx = 0
    BY <2>1, <2>3, <2>5, Finishes
  <2> QED BY <2>4, <2>5
<1> QED BY <1>3, <1>4

\* A task switch restarts the old task or leaves the new one, with the event that
\* caused it done.
LEMMA TaskHandlerStep ==
  ASSUME NEW s, Emulating(s), s.exitint = "NMI" => s.nmib, NEW u \in vmexit_task_switch(s)
  PROVE  VcInv(u)
<1> DEFINE new == RipAfter(s.at, 1)
           b == s.inNmi \/ s.exitint = "NMI"
           over == [s EXCEPT !.vmcsrip = new, !.nextrip = new, !.at = new, !.inNmi = b]
           done == [over EXCEPT !.exitint = None, !.taken = None]
<1>1. new \in 0 .. 2 /\ b \in BOOLEAN /\ (b => s.nmib)
  BY DEF Emulating, VcTypes, RipAfter
<1>2. u \in {Resumed(vm_inject_fault(s, "TS")), Resumed(vm_inject_fault(over, "PF")), Resumed(done)}
  BY DEF vmexit_task_switch
<1> HIDE DEF new, b
<1>3. VcShape(over) /\ VcTypes(over) /\ StringInv(over)
  BY <1>1 DEF Emulating, VcShape, VcFields, VcTypes, StringInv
<1>4. Emulating(over) /\ over.nextrip = over.at
  BY <1>1, <1>3 DEF Emulating, VcShape, VcFields
<1> HIDE DEF over
<1>5. VcShape(done) /\ VcTypes(done) /\ StringInv(done)
  BY <1>3 DEF VcShape, VcFields, VcTypes, StringInv, Events
<1>6. Emulating(done) /\ done.nextrip = done.at /\ done.exitint = None
  BY <1>4, <1>5 DEF Emulating, VcShape, VcFields, None
<1> HIDE DEF done
<1>7. VcInv(Resumed(done))
  BY <1>6, Resumes DEF None
<1>8. VcInv(Resumed(vm_inject_fault(s, "TS"))) /\ VcInv(Resumed(vm_inject_fault(over, "PF")))
  BY <1>4, Restarts DEF Exceptions, Contributory, PageFaults
<1> QED BY <1>2, <1>7, <1>8

\* The exit handlers of the process keep the invariant.
LEMMA UserStep ==
  ASSUME VcInv(vc), vcpu_loop
  PROVE  VcInv(vc')
<1>1. /\ vc.pc = "user" /\ vc.code \in UserCodes
      /\ vc.code = "MTRAP" => vc.nextrip = vc.at
      /\ vc.code \in {"INOUT", "INOUT_STR", "PAUSE", "MSR", "INST_EMUL"} => vc.nextrip = RipAfter(vc.at, 1)
  BY DEF VcInv, RipInv, vcpu_loop
<1>2. Emulating(vc)
  BY <1>1 DEF VcInv, RipInv, PlaceInv, BlockInv, Emulating
<1>3. vc.exitint = "NMI" => (vc.nmib <=> vc.code = "TASK_SWITCH")
  BY <1>1, <1>2 DEF VcInv, BlockInv, Emulating
<1>4. CASE vc.code = "INOUT_STR"
  <2>1. vc' \in emulate_inout_str(vc)
    BY <1>4 DEF vcpu_loop, vmexit_inout
  <2> QED BY <1>1, <1>2, <1>3, <1>4, <2>1, StringStep
<1>5. CASE vc.code = "TASK_SWITCH"
  <2>1. vc' \in vmexit_task_switch(vc)
    BY <1>5 DEF vcpu_loop
  <2> QED BY <1>2, <1>3, <1>5, <2>1, TaskHandlerStep
<1>6. CASE vc.code = "MTRAP"
  <2>1. vc' = Resumed(vc)
    BY <1>6 DEF vcpu_loop, vmexit_mtrap
  <2> QED BY <1>1, <1>2, <1>3, <1>6, <2>1, Resumes
<1>7. CASE vc.code \in {"INOUT", "PAUSE", "MSR", "INST_EMUL"}
  <2>1. vc' \in {Finished(vc), Resumed(vm_inject_fault(vc, "GP")), Resumed(vm_inject_fault(vc, "PF"))}
    BY <1>7 DEF vcpu_loop, vmexit_inout, vmexit_pause, vmexit_rdmsr, vmexit_inst_emul
  <2>2. VcInv(Finished(vc))
    BY <1>1, <1>2, <1>3, <1>7, Finishes
  <2>3. VcInv(Resumed(vm_inject_fault(vc, "GP"))) /\ VcInv(Resumed(vm_inject_fault(vc, "PF")))
    BY <1>2, Restarts DEF Exceptions, Contributory, PageFaults
  <2> QED BY <2>1, <2>2, <2>3
<1> QED BY <1>1, <1>4, <1>5, <1>6, <1>7 DEF UserCodes

-----------------------------------------------------------------------------
(* The guest, its exits and the other threads.                             *)

\* A guest that is given an event or runs an instruction keeps the invariant.
LEMMA GuestStep ==
  ASSUME VcInv(vc), Deliver \/ Execute
  PROVE  VcInv(vc')
<1>0. vc.at \in 0 .. 2 /\ vc.if \in BOOLEAN /\ vc.nmib \in BOOLEAN /\ vc.inNmi \in BOOLEAN
  BY DEF VcInv, VcTypes
<1> DEFINE n == RipAfter(vc.at, 1)
<1>1. n \in 0 .. 2
  BY <1>0 DEF RipAfter
<1>2. vc.pc = "guest" /\ vc.vmcsrip = vc.at
  BY DEF VcInv, RipInv, Deliver, Execute, CanRun, InGuest
<1>3. CASE Deliver
  <2> DEFINE b == vc.nmib \/ vc.entry = "NMI"
             c == vc.inNmi \/ vc.entry = "NMI"
             s == [vc EXCEPT !.entry = None, !.taken = None, !.if = FALSE, !.shadow = FALSE,
                             !.nmib = b, !.inNmi = c]
             u == [s EXCEPT !.vmcsrip = n, !.at = n]
  <2>1. b \in BOOLEAN /\ c \in BOOLEAN /\ (c => b)
    BY <1>0 DEF VcInv, BlockInv
  <2>2. vc' = IF vc.entry = "BP" THEN Step(s) ELSE s
    BY <1>3 DEF Deliver
  <2> HIDE DEF b, c
  <2>3. VcShape(s) /\ VcTypes(s)
    BY <2>1 DEF VcInv, VcShape, VcFields, VcTypes, Events
  <2>4. s.pc = "guest" /\ s.vmcsrip = vc.at /\ s.at = vc.at
    BY <1>2 DEF VcInv, VcShape, VcFields
  <2>5. VcInv(s)
    <3>1. RipInv(s) /\ PlaceInv(s)
      BY <1>2 DEF VcInv, VcShape, VcFields, RipInv, PlaceInv, VcTypes
    <3>2. BlockInv(s) /\ StringInv(s) /\ Armed(s)
      BY <1>2, <2>1 DEF VcInv, VcShape, VcFields, PlaceInv, BlockInv, StringInv, Armed, VcTypes, None
    <3> QED BY <2>3, <3>1, <3>2 DEF VcInv
  <2> HIDE DEF s
  <2>6. Step(s) = u
    BY <2>4 DEF Step
  <2> HIDE DEF n
  <2>7. VcShape(u) /\ VcTypes(u)
    BY <1>1, <2>3 DEF VcShape, VcFields, VcTypes
  <2>8. RipInv(u) /\ PlaceInv(u)
    BY <2>3, <2>4, <2>5 DEF VcInv, VcShape, VcFields, RipInv, PlaceInv
  <2>9. BlockInv(u) /\ StringInv(u) /\ Armed(u)
    BY <2>3, <2>5 DEF VcInv, VcShape, VcFields, BlockInv, StringInv, Armed
  <2> QED BY <2>2, <2>5, <2>6, <2>7, <2>8, <2>9 DEF VcInv
<1>4. CASE Execute
  <2>1. PICK i \in {"plain", "sti", "cli", "iret"} :
          vc' = Step([vc EXCEPT !.shadow = i = "sti" /\ ~ vc.if,
                                !.if = CASE i \in {"sti", "iret"} -> TRUE [] i = "cli" -> FALSE [] OTHER -> vc.if,
                                !.nmib = vc.nmib /\ i # "iret", !.inNmi = vc.inNmi /\ i # "iret"])
    BY <1>4, Zenon DEF Execute
  <2> DEFINE sh == i = "sti" /\ ~ vc.if
             f == CASE i \in {"sti", "iret"} -> TRUE [] i = "cli" -> FALSE [] OTHER -> vc.if
             b == vc.nmib /\ i # "iret"
             c == vc.inNmi /\ i # "iret"
             s == [vc EXCEPT !.shadow = sh, !.if = f, !.nmib = b, !.inNmi = c]
             u == [s EXCEPT !.vmcsrip = n, !.at = n]
  <2>2. sh \in BOOLEAN /\ f \in BOOLEAN /\ b \in BOOLEAN /\ c \in BOOLEAN /\ (c => b)
    BY <1>0, <2>1, Zenon DEF VcInv, BlockInv
  <2>3. vc' = Step(s)
    BY <2>1
  <2> HIDE DEF sh, f, b, c
  <2>4. s.at = vc.at /\ s.vmcsrip = vc.at
    BY <1>2 DEF VcInv, VcShape, VcFields
  <2>5. vc' = u
    BY <2>3, <2>4, Zenon DEF Step
  <2> HIDE DEF n
  <2>6. VcShape(u) /\ VcTypes(u)
    BY <1>1, <2>2 DEF VcInv, VcShape, VcFields, VcTypes
  <2>7. vc.entry = None
    BY <1>4 DEF Execute, CanRun, InGuest
  <2>8. RipInv(u) /\ PlaceInv(u)
    BY <1>2, <2>7 DEF VcInv, VcShape, VcFields, RipInv, PlaceInv
  <2>9. BlockInv(u) /\ StringInv(u) /\ Armed(u)
    BY <1>2, <2>2, <2>7 DEF VcInv, VcShape, VcFields, PlaceInv, BlockInv, StringInv, Armed, None
  <2> QED BY <2>5, <2>6, <2>8, <2>9 DEF VcInv
<1> QED BY <1>3, <1>4

\* The exits during the delivery of an event and inside an IRET.
LEMMA EventExitStep ==
  ASSUME VcInv(vc), \/ \E r \in {"EPT_FAULT", "EXCEPTION", "TASK_SWITCH"} : DeliverExit(r)
                    \/ \E r \in {"EPT_FAULT", "EXCEPTION"} : IretExit(r)
  PROVE  VcInv(vc')
<1>1. ASSUME NEW r \in {"EPT_FAULT", "EXCEPTION", "TASK_SWITCH"}, DeliverExit(r)
      PROVE  VcInv(vc')
  <2> DEFINE s == vm_exit_intinfo(Left(vc, 0), r)
  <2>1. /\ Exiting(s) /\ s.exc = None /\ s.xlen = 0
        /\ s.exitint = "NMI" => (s.nmib <=> r = "TASK_SWITCH")
    BY <1>1, LeavesEvent DEF DeliverExit
  <2>2. /\ r = "EPT_FAULT" => vc' = Unhandled(s, "PAGING")
        /\ r = "TASK_SWITCH" => vc' = Unhandled(s, "TASK_SWITCH")
        /\ r = "EXCEPTION" => \E e \in {"PF", "GP"} : vc' = Again(vm_inject_exception(s, e, FALSE))
    BY <1>1, Zenon DEF DeliverExit
  <2> HIDE DEF s
  <2>3. CASE r = "EPT_FAULT"
    BY <2>1, <2>2, <2>3, HandedOn DEF KernelCodes
  <2>4. CASE r = "TASK_SWITCH"
    BY <2>1, <2>2, <2>4, HandedOn DEF KernelCodes, UserCodes
  <2>5. CASE r = "EXCEPTION"
    <3>1. PICK e \in {"PF", "GP"} : vc' = Again(vm_inject_exception(s, e, FALSE))
      BY <2>2, <2>5, Zenon
    <3> DEFINE t == vm_inject_exception(s, e, FALSE)
    <3>2. e \in Exceptions /\ e # None
      BY <3>1 DEF Exceptions, Contributory, PageFaults, None
    <3>3. Exiting(t) /\ t.exc = e
      BY <2>1, <3>2, Faults, Zenon
    <3> HIDE DEF t
    <3> QED BY <3>1, <3>2, <3>3, Reenters, Zenon DEF t
  <2> QED BY <1>1, <2>3, <2>4, <2>5
<1>2. ASSUME NEW r \in {"EPT_FAULT", "EXCEPTION"}, IretExit(r)
      PROVE  VcInv(vc')
  <2> DEFINE l == Left(vc, 0)
             s == [[l EXCEPT !.nmib = FALSE] EXCEPT !.nmib = TRUE]
  <2>1. vc' = IF r = "EPT_FAULT" THEN Unhandled(s, "PAGING") ELSE Again(vm_inject_exception(s, "GP", FALSE))
    BY <1>2 DEF IretExit, vmx_restore_nmi_blocking
  <2>2. Exiting(l) /\ l.exc = None /\ l.exitint = None /\ l.xlen = 0
    BY <1>2, Leaves DEF IretExit, CanRun, InGuest
  <2> HIDE DEF l
  <2>3. VcShape(s) /\ VcTypes(s)
    BY <2>2 DEF Exiting, VcShape, VcFields, VcTypes
  <2>4. Exiting(s) /\ s.exc = None /\ s.exitint = None /\ s.xlen = 0
    BY <2>2, <2>3 DEF Exiting, VcShape, VcFields, StringInv
  <2> HIDE DEF s
  <2>5. CASE r = "EPT_FAULT"
    BY <2>1, <2>4, <2>5, HandedOn DEF KernelCodes, None
  <2>6. CASE r = "EXCEPTION"
    <3> DEFINE t == vm_inject_exception(s, "GP", FALSE)
    <3>1. Exiting(t) /\ t.exitint = None
      BY <2>4, Names, Faults, Zenon
    <3> HIDE DEF t
    <3> QED BY <2>1, <2>6, <3>1, Reenters, Zenon DEF t, None
  <2> QED BY <1>2, <2>5, <2>6
<1> QED BY <1>1, <1>2

\* The exits of host interrupts and of windows.
LEMMA WindowStep ==
  ASSUME VcInv(vc), ExtIntrExit \/ IntrWindowExit \/ NmiWindowExit
  PROVE  VcInv(vc')
<1> DEFINE l == Left(vc, 0)
<1>0. vc.pc = "guest" /\ vc.entry = None
  BY DEF ExtIntrExit, IntrWindowExit, NmiWindowExit, InGuest
<1>a. Exiting(l) /\ l.exc = None /\ l.exitint = None
  BY <1>0, Leaves
<1>b. l.nmib = vc.nmib
  BY DEF Left, VcInv, VcShape, VcFields
<1>1. Exiting(l) /\ l.exc = None /\ l.exitint = None /\ l.nmib = vc.nmib
  BY <1>a, <1>b, Zenon
<1>2. CASE ExtIntrExit
  <2>1. vc' = Again(l)
    BY <1>2 DEF ExtIntrExit
  <2> QED BY <1>1, <2>1, Reenters DEF None
<1>3. CASE IntrWindowExit
  <2> DEFINE s == [l EXCEPT !.intWin = FALSE]
  <2>1. vc' = Again(s)
    BY <1>3 DEF IntrWindowExit
  <2> HIDE DEF l
  <2>2. VcShape(s) /\ VcTypes(s)
    BY <1>1 DEF Exiting, VcShape, VcFields, VcTypes
  <2>3. Exiting(s) /\ s.exitint = None
    BY <1>1, <2>2 DEF Exiting, VcShape, VcFields, StringInv
  <2> HIDE DEF s
  <2> QED BY <2>1, <2>3, Reenters DEF None
<1>4. CASE NmiWindowExit
  <2> DEFINE t == IF l.nmi THEN vmx_inject_nmi(l) ELSE l
             s == [t EXCEPT !.nmiWin = FALSE]
  <2>1. vc' = Again(s) /\ ~ l.nmib
    BY <1>1, <1>4 DEF NmiWindowExit
  <2> HIDE DEF l
  <2>2. CASE ~ l.nmi
    <3> DEFINE u == [l EXCEPT !.nmiWin = FALSE]
    <3>1. s = u
      BY <2>2
    <3>2. VcShape(u) /\ VcTypes(u)
      BY <1>1 DEF Exiting, VcShape, VcFields, VcTypes
    <3>3. Exiting(u) /\ u.exitint = None
      BY <1>1, <3>2 DEF Exiting, VcShape, VcFields, StringInv
    <3> HIDE DEF s, u
    <3> QED BY <2>1, <3>1, <3>3, Reenters DEF None
  <2>3. CASE l.nmi
    <3> DEFINE u == [l EXCEPT !.entry = "NMI", !.nmi = FALSE, !.taken = "NMI", !.nmiWin = FALSE]
               w == [u EXCEPT !.pc = "inject", !.rip = u.xrip, !.xlen = 0]
    <3>1. s = u
      BY <1>1, <2>1, <2>3 DEF vmx_inject_nmi, Exiting
    <3>2. VcShape(u) /\ VcTypes(u) /\ StringInv(u)
      BY <1>1 DEF Exiting, VcShape, VcFields, VcTypes, StringInv, Events
    <3>3. /\ u.pc = "guest" /\ u.xrip = u.at /\ u.vmcsrip = u.at /\ u.entry = "NMI" /\ u.taken = "NMI"
          /\ ~ u.suspend /\ u.exitint = None /\ u.exc = None /\ ~ u.nmib /\ ~ u.inNmi
      BY <1>1, <2>1 DEF Exiting, VcShape, VcFields
    <3> HIDE DEF s, u
    <3>4. vc' = w
      BY <2>1, <3>1, <3>3 DEF Again
    <3>5. VcShape(w) /\ VcTypes(w)
      BY <3>2 DEF VcShape, VcFields, VcTypes
    <3>6. RipInv(w) /\ PlaceInv(w)
      BY <3>2, <3>3 DEF VcShape, VcFields, RipInv, PlaceInv, VcTypes
    <3>7. BlockInv(w) /\ StringInv(w) /\ Armed(w)
      BY <3>2, <3>3 DEF VcShape, VcFields, BlockInv, StringInv, Armed, None
    <3> QED BY <3>4, <3>5, <3>6, <3>7 DEF VcInv
  <2> QED BY <2>2, <2>3
<1> QED BY <1>2, <1>3, <1>4

\* The exits instructions cause.
LEMMA InstrExitStep ==
  ASSUME VcInv(vc), \/ HandledExit \/ ExceptionExit
                    \/ \E c \in {"APIC_WRITE", "IOAPIC_EOI", "MTRAP"} : TrapExit(c)
                    \/ \E c \in InstrExits : InstrExit(c)
  PROVE  VcInv(vc')
<1>0. vc.pc = "guest" /\ vc.entry = None
  BY Zenon DEF HandledExit, ExceptionExit, TrapExit, InstrExit, CanRun, InGuest
<1>1. CASE HandledExit
  <2> DEFINE l == Left(vc, 1)
             m == [l EXCEPT !.at = RipAfter(@, 1), !.shadow = FALSE]
             f == vm_inject_exception(l, "GP", TRUE)
  <2>1. vc' \in {Handled(m), Handled(f)}
    BY <1>1 DEF HandledExit, vm_inject_fault
  <2>2. Exiting(l) /\ l.exc = None /\ l.exitint = None /\ l.xlen = 1
    BY <1>0, Leaves
  <2> HIDE DEF l
  <2>3. VcInv(Handled(m))
    <3> DEFINE r == RipAfter(l.at, 1)
               n == [l EXCEPT !.at = r, !.shadow = FALSE]
               w == [n EXCEPT !.xrip = r, !.xlen = 0, !.vmcsrip = r]
    <3>1. m = n /\ n.xrip = l.at /\ n.xlen = 1
      BY <2>2 DEF Exiting, VcShape, VcFields
    <3>2. r \in 0 .. 2
      BY <2>2 DEF Exiting, VcTypes, RipAfter
    <3>3. Handled(m) = Again(w)
      BY <3>1, Zenon DEF Handled
    <3> HIDE DEF r, m
    <3>4. VcShape(w) /\ VcTypes(w)
      BY <2>2, <3>2 DEF Exiting, VcShape, VcFields, VcTypes
    <3>5. Exiting(w) /\ w.exitint = None
      BY <2>2, <3>4 DEF Exiting, VcShape, VcFields, StringInv
    <3> HIDE DEF w
    <3> QED BY <3>3, <3>5, Reenters DEF None
  <2>4. VcInv(Handled(f))
    <3>1. Exiting(f) /\ f.exitint = None /\ f.xlen = 0
      BY <2>2, Names, Faults, Zenon
    <3> HIDE DEF f
    <3> DEFINE w == [f EXCEPT !.xrip = f.at, !.xlen = 0, !.vmcsrip = f.at]
    <3>2. RipAfter(f.xrip, f.xlen) = f.at
      BY <3>1 DEF Exiting, VcTypes, RipAfter
    <3>3. Handled(f) = Again(w)
      BY <3>2 DEF Handled
    <3>4. VcShape(w) /\ VcTypes(w)
      BY <3>1 DEF Exiting, VcShape, VcFields, VcTypes
    <3>5. Exiting(w) /\ w.exitint = None
      BY <3>1, <3>4 DEF Exiting, VcShape, VcFields, StringInv
    <3> HIDE DEF w
    <3> QED BY <3>3, <3>5, Reenters DEF None
  <2> HIDE DEF m, f
  <2> QED BY <2>1, <2>3, <2>4
<1>2. CASE ExceptionExit
  <2> DEFINE l == Left(vc, 1)
  <2>1. PICK e \in {"GP", "BP"} : vc' = Again(vm_inject_exception(l, e, FALSE))
    BY <1>2, Zenon DEF ExceptionExit
  <2>2. Exiting(l) /\ l.exc = None /\ l.exitint = None
    BY <1>0, Leaves
  <2> HIDE DEF l
  <2> DEFINE t == vm_inject_exception(l, e, FALSE)
  <2> e \in Exceptions
    BY <2>1, Names
  <2>3. Exiting(t) /\ t.exitint = None
    BY <2>2, Names, Faults, Zenon
  <2> HIDE DEF t
  <2> QED BY <2>1, <2>3, Reenters, Zenon DEF t, None
<1>3. ASSUME NEW c \in {"APIC_WRITE", "IOAPIC_EOI", "MTRAP"}, TrapExit(c)
      PROVE  VcInv(vc')
  <2> DEFINE n == RipAfter(vc.at, 1)
             a == [vc EXCEPT !.vmcsrip = n, !.at = n, !.shadow = FALSE]
             l == Left(a, 0)
             w == [l EXCEPT !.xrip = l.at, !.xlen = 0, !.vmcsrip = l.at]
  <2>1. vc.vmcsrip = vc.at /\ n \in 0 .. 2
    BY <1>0 DEF VcInv, RipInv, VcTypes, RipAfter
  <2>2. vc' = IF c = "APIC_WRITE" THEN Handled(l) ELSE Unhandled(l, c)
    BY <1>3, <2>1 DEF TrapExit, Step
  <2> HIDE DEF n
  <2>3. VcShape(a) /\ VcTypes(a) /\ a.pc = "guest" /\ a.entry = None
    BY <1>0, <2>1 DEF VcInv, VcShape, VcFields, VcTypes
  <2>4. RipInv(a) /\ PlaceInv(a) /\ BlockInv(a) /\ StringInv(a) /\ Armed(a)
    BY <1>0 DEF VcInv, VcShape, VcFields, RipInv, PlaceInv, BlockInv, StringInv, Armed
  <2> HIDE DEF a
  <2>5. Exiting(l) /\ l.exc = None /\ l.exitint = None /\ l.xlen = 0
    BY <2>3, <2>4, Leaves DEF VcInv
  <2> HIDE DEF l
  <2>6. RipAfter(l.xrip, l.xlen) = l.at
    BY <2>5 DEF Exiting, VcTypes, RipAfter
  <2>7. CASE c = "APIC_WRITE"
    <3>1. vc' = Again(w)
      BY <2>2, <2>6, <2>7 DEF Handled
    <3>2. VcShape(w) /\ VcTypes(w)
      BY <2>5 DEF Exiting, VcShape, VcFields, VcTypes
    <3>3. Exiting(w) /\ w.exitint = None
      BY <2>5, <3>2 DEF Exiting, VcShape, VcFields, StringInv
    <3> HIDE DEF w
    <3> QED BY <3>1, <3>3, Reenters DEF None
  <2>8. CASE c # "APIC_WRITE"
    BY <1>3, <2>2, <2>5, <2>8, HandedOn DEF KernelCodes, UserCodes, None
  <2> QED BY <2>7, <2>8
<1>4. ASSUME NEW c \in InstrExits, InstrExit(c)
      PROVE  VcInv(vc')
  <2>1. PICK len \in CASE c = "PAGING" -> {0} [] c = "INST_EMUL" -> {0, 1} [] OTHER -> {1} :
          LET s == Left(vc, len)
          IN vc' = Unhandled(IF c = "INOUT_STR" /\ s.rcx = 0
                             THEN [s EXCEPT !.rcx = Elements, !.index = 0, !.done = 0] ELSE s, c)
    BY <1>4, Zenon DEF InstrExit
  <2>2. len \in 0 .. 1 /\ (c = "PAGING" => len = 0) /\ (c \notin {"PAGING", "INST_EMUL"} => len = 1)
    BY <2>1
  <2>3. c \in {"PAGING", "HLT", "PAUSE", "INOUT", "INOUT_STR", "INST_EMUL", "MONITOR", "MSR", "TASK_SWITCH"}
    BY <1>4, InjectAssumption
  <2> DEFINE l == Left(vc, len)
             m == [l EXCEPT !.rcx = Elements, !.index = 0, !.done = 0]
             t == IF c = "INOUT_STR" /\ l.rcx = 0 THEN m ELSE l
  <2>4. vc' = Unhandled(t, c)
    BY <2>1
  <2>5. Exiting(l) /\ l.exc = None /\ l.exitint = None /\ l.xlen = len
    BY <1>0, <2>2, Leaves
  <2> HIDE DEF l
  <2>6. VcShape(m) /\ VcTypes(m) /\ StringInv(m)
    BY <2>5, InjectAssumption DEF Exiting, VcShape, VcFields, VcTypes, StringInv
  <2>7. Exiting(m) /\ m.exc = None /\ m.exitint = None /\ m.xlen = len
    BY <2>5, <2>6 DEF Exiting, VcShape, VcFields
  <2> HIDE DEF m
  <2>8. Exiting(t) /\ t.exc = None /\ t.exitint = None /\ t.xlen = len
    BY <2>5, <2>7
  <2> HIDE DEF t
  <2> QED BY <2>2, <2>3, <2>4, <2>8, HandedOn DEF KernelCodes, UserCodes, None
<1> QED BY <1>1, <1>2, <1>3, <1>4

\* The requests of other threads: one that finds the vcpu in the guest kicks it out.
LEMMA RaiseStep ==
  ASSUME VcInv(vc), vm_inject_nmi \/ vm_inject_extint \/ LapicIntr \/ Rendezvous
  PROVE  VcInv(vc')
<1> DEFINE k == vc.kick \/ Running(vc)
           n == vc.raised + 1
<1>1. k \in BOOLEAN /\ n \in Nat /\ (vc.pc = "guest" => k)
  BY DEF VcInv, VcTypes, Running
<1>2. CASE vm_inject_nmi
  <2> DEFINE t == [vc EXCEPT !.nmi = TRUE, !.raised = n, !.kick = k]
  <2>1. vc' = t
    BY <1>2 DEF vm_inject_nmi, Raise, VcInv, VcShape, VcFields
  <2> HIDE DEF k, n
  <2>2. VcShape(t) /\ VcTypes(t)
    BY <1>1 DEF VcInv, VcShape, VcFields, VcTypes
  <2>3. RipInv(t) /\ PlaceInv(t)
    BY DEF VcInv, VcShape, VcFields, RipInv, PlaceInv
  <2>4. BlockInv(t) /\ StringInv(t) /\ Armed(t)
    BY <1>1 DEF VcInv, VcShape, VcFields, BlockInv, StringInv, Armed
  <2> QED BY <2>1, <2>2, <2>3, <2>4 DEF VcInv
<1>3. CASE vm_inject_extint
  <2> DEFINE t == [vc EXCEPT !.extint = TRUE, !.raised = n, !.kick = k]
  <2>1. vc' = t
    BY <1>3 DEF vm_inject_extint, Raise, VcInv, VcShape, VcFields
  <2> HIDE DEF k, n
  <2>2. VcShape(t) /\ VcTypes(t)
    BY <1>1 DEF VcInv, VcShape, VcFields, VcTypes
  <2>3. RipInv(t) /\ PlaceInv(t)
    BY DEF VcInv, VcShape, VcFields, RipInv, PlaceInv
  <2>4. BlockInv(t) /\ StringInv(t) /\ Armed(t)
    BY <1>1 DEF VcInv, VcShape, VcFields, BlockInv, StringInv, Armed
  <2> QED BY <2>1, <2>2, <2>3, <2>4 DEF VcInv
<1>4. CASE LapicIntr
  <2> DEFINE t == [vc EXCEPT !.lapic = TRUE, !.raised = n, !.kick = k]
  <2>1. vc' = t
    BY <1>4 DEF LapicIntr, Raise, VcInv, VcShape, VcFields
  <2> HIDE DEF k, n
  <2>2. VcShape(t) /\ VcTypes(t)
    BY <1>1 DEF VcInv, VcShape, VcFields, VcTypes
  <2>3. RipInv(t) /\ PlaceInv(t)
    BY DEF VcInv, VcShape, VcFields, RipInv, PlaceInv
  <2>4. BlockInv(t) /\ StringInv(t) /\ Armed(t)
    BY <1>1 DEF VcInv, VcShape, VcFields, BlockInv, StringInv, Armed
  <2> QED BY <2>1, <2>2, <2>3, <2>4 DEF VcInv
<1>5. CASE Rendezvous
  <2> DEFINE t == [vc EXCEPT !.rendezvous = TRUE, !.raised = n, !.kick = k]
  <2>1. vc' = t
    BY <1>5 DEF Rendezvous, Raise, VcInv, VcShape, VcFields
  <2> HIDE DEF k, n
  <2>2. VcShape(t) /\ VcTypes(t)
    BY <1>1 DEF VcInv, VcShape, VcFields, VcTypes
  <2>3. RipInv(t) /\ PlaceInv(t)
    BY DEF VcInv, VcShape, VcFields, RipInv, PlaceInv
  <2>4. BlockInv(t) /\ StringInv(t) /\ Armed(t)
    BY <1>1 DEF VcInv, VcShape, VcFields, BlockInv, StringInv, Armed
  <2> QED BY <2>1, <2>2, <2>3, <2>4 DEF VcInv
<1> QED BY <1>2, <1>3, <1>4, <1>5

\* vmx_run is called with the rip the vcpu is to continue at.
LEMMA CallStep ==
  ASSUME VcInv(vc), VmxRun
  PROVE  VcInv(vc')
<1> DEFINE r == vc.nextrip
           t == [vc EXCEPT !.pc = "inject", !.rip = r, !.vmcsrip = r, !.code = "BOGUS", !.xrip = r, !.xlen = 0]
<1>1. vc' = t /\ vc.pc = "vmrun" /\ r = vc.at /\ r \in 0 .. 2
  BY DEF VmxRun, VcInv, RipInv, VcTypes
<1> HIDE DEF r
<1>2. VcShape(t) /\ VcTypes(t)
  BY <1>1 DEF VcInv, VcShape, VcFields, VcTypes
<1>3. RipInv(t) /\ PlaceInv(t)
  BY <1>1 DEF VcInv, VcShape, VcFields, RipInv, PlaceInv
<1>4. BlockInv(t) /\ StringInv(t) /\ Armed(t)
  BY <1>1 DEF VcInv, VcShape, VcFields, BlockInv, StringInv, Armed
<1> QED BY <1>1, <1>2, <1>3, <1>4 DEF VcInv

-----------------------------------------------------------------------------

\* The inductive invariant.
InjectInv == VcInv(vc)

\* The invariant holds at the start.
LEMMA InjectInitInv == InjectInit => InjectInv
<1> SUFFICES ASSUME InjectInit PROVE VcInv(vc)
  BY DEF InjectInv
<1>1. VcShape(vc)
  BY DEF InjectInit, VcShape, VcFields
<1>2. VcTypes(vc)
  BY InjectAssumption DEF InjectInit, VcTypes, Events, KernelCodes
<1>3. RipInv(vc) /\ PlaceInv(vc)
  BY DEF InjectInit, RipInv, PlaceInv
<1>4. BlockInv(vc) /\ StringInv(vc) /\ Armed(vc)
  BY InjectAssumption DEF InjectInit, BlockInv, StringInv, Armed, None
<1> QED BY <1>1, <1>2, <1>3, <1>4 DEF VcInv

\* Every step keeps the invariant.
LEMMA InjectStep == InjectInv /\ [InjectNext]_vc => InjectInv'
<1> SUFFICES ASSUME VcInv(vc), [InjectNext]_vc PROVE VcInv(vc')
  BY DEF InjectInv
<1>1. CASE VmxRun
  BY <1>1, CallStep
<1>2. CASE vmx_run
  BY <1>2, RunStep
<1>3. CASE vm_run
  BY <1>3, KernelStep
<1>4. CASE vcpu_loop
  BY <1>4, UserStep
<1>5. CASE Deliver \/ Execute
  BY <1>5, GuestStep
<1>6. CASE \/ \E r \in {"EPT_FAULT", "EXCEPTION", "TASK_SWITCH"} : DeliverExit(r)
           \/ \E r \in {"EPT_FAULT", "EXCEPTION"} : IretExit(r)
  BY <1>6, EventExitStep
<1>7. CASE ExtIntrExit \/ IntrWindowExit \/ NmiWindowExit
  BY <1>7, WindowStep
<1>8. CASE \/ HandledExit \/ ExceptionExit
           \/ \E c \in {"APIC_WRITE", "IOAPIC_EOI", "MTRAP"} : TrapExit(c)
           \/ \E c \in InstrExits : InstrExit(c)
  BY <1>8, InstrExitStep
<1>9. CASE vm_inject_nmi \/ vm_inject_extint \/ LapicIntr \/ Rendezvous
  BY <1>9, RaiseStep
<1>10. CASE UNCHANGED vc
  BY <1>10
<1> QED BY <1>1, <1>2, <1>3, <1>4, <1>5, <1>6, <1>7, <1>8, <1>9, <1>10, Zenon DEF InjectNext

\* Where the rip and the event of a vcpu are at each stage of vmx_run, vm_run and
\* the exit handlers.
THEOREM InjectInvariant == InjectSpec => []InjectInv
  BY InjectInitInv, InjectStep, PTL DEF InjectSpec

\* vmx_run, vm_run and the exit handlers of the process keep the instruction to
\* continue with through every exit, fault, restart and task switch: whenever the
\* guest is entered it is the instruction after the last one completed.
THEOREM RipCorrect == InjectSpec => []RipExact
<1>1. InjectInv => RipExact
  BY DEF InjectInv, VcInv, RipInv, RipExact
<1> QED BY <1>1, InjectInvariant, PTL

\* An event taken from its source stays in one place until it is delivered or
\* combines with a later one, every injection passes the processor's checks and
\* the assertions of vmx_inject_nmi and vm_inject_exception, and a guest that runs
\* with an event waiting has its window armed or has been kicked.
THEOREM EventsCorrect == InjectSpec => []EventsSound
<1>1. InjectInv => EventsSound
  <2> SUFFICES ASSUME VcInv(vc) PROVE EventsSound
    BY DEF InjectInv
  <2>1. EventKept
    BY DEF VcInv, PlaceInv, EventKept
  <2>2. EntryValid
    BY DEF VcInv, VcTypes, BlockInv, EntryValid
  <2>3. WindowArmed
    BY DEF VcInv, Armed, WindowArmed
  <2> QED BY <2>1, <2>2, <2>3 DEF EventsSound
<1> QED BY <1>1, InjectInvariant, PTL

\* For any number of elements and any batch, a device sees every element of a
\* string instruction once and in order, whatever faults and events come between.
THEOREM StringsCorrect == InjectSpec => []StringOnce
<1>1. InjectInv => StringOnce
  BY DEF InjectInv, VcInv, StringInv, StringOnce
<1> QED BY <1>1, InjectInvariant, PTL

-----------------------------------------------------------------------------
(* Control registers.                                                      *)

\* The fields of the record; the registers themselves are any sets.
CrType ==
  /\ cr = [cr0 |-> cr.cr0, sh0 |-> cr.sh0, cr4 |-> cr.cr4, sh4 |-> cr.sh4, efer |-> cr.efer,
           lma |-> cr.lma, xcr0 |-> cr.xcr0, wrote0 |-> cr.wrote0, wrote4 |-> cr.wrote4]
  /\ cr.lma \in BOOLEAN

\* The bits that the host shadows although it lets the guest have them are the same
\* in the register and in its shadow, so a write that does not exit leaves long mode
\* as it was.
RegsInv ==
  /\ CrType
  /\ RegsTruthful
  /\ cr.cr0 \cap {"PG", "PE"} = cr.sh0 \cap {"PG", "PE"}

LEMMA RegsInitInv == RegsInit => RegsInv
<1> SUFFICES ASSUME RegsInit PROVE RegsInv
  OBVIOUS
<1> USE DEF RegsInit, vmx_fix_cr0, vmx_fix_cr4, cr0_ones_mask, cr0_zeros_mask, cr4_ones_mask
<1>1. CrType
  BY DEF CrType
<1>2. RegsTruthful
  <2>1. Cr0Seen = cr.wrote0
    BY DEF Cr0Seen, Cr0Mask
  <2>2. Cr4Seen = cr.wrote4
    BY DEF Cr4Seen, Cr4Mask
  <2>3. /\ cr.lma <=> ("LMA" \in cr.efer)
        /\ cr.lma <=> ("LME" \in cr.efer /\ "PG" \in cr.wrote0)
    <3>1. cr.efer = {} /\ cr.lma = FALSE
      OBVIOUS
    <3> QED BY ONLY <3>1
  <2>4. cr.xcr0 \cap (AVX512 \cup {"AVX"}) = {} /\ "X87" \in cr.xcr0
    BY DEF AVX512
  <2> QED BY <2>1, <2>2, <2>3, <2>4 DEF RegsTruthful
<1>3. cr.cr0 \cap {"PG", "PE"} = cr.sh0 \cap {"PG", "PE"}
  OBVIOUS
<1> QED BY <1>1, <1>2, <1>3 DEF RegsInv

LEMMA RegsStep == RegsInv /\ [RegsNext]_cr => RegsInv'
<1> SUFFICES ASSUME RegsInv, [RegsNext]_cr PROVE RegsInv'
  OBVIOUS
<1>t. CrType /\ RegsTruthful /\ cr.cr0 \cap {"PG", "PE"} = cr.sh0 \cap {"PG", "PE"}
  BY DEF RegsInv
<1> USE DEF cr0_ones_mask, cr0_zeros_mask, cr4_ones_mask
<1>1. ASSUME NEW v \in Cr0Values, MovCr0(v) PROVE RegsInv'
  <2> USE <1>t, <1>1
  <2>1. CASE v \cap Cr0Mask = cr.sh0 \cap Cr0Mask
    <3>1. cr' = [cr EXCEPT !.wrote0 = v, !.cr0 = (v \ Cr0Mask) \cup (cr.cr0 \cap Cr0Mask)]
      BY <2>1 DEF MovCr0, CrType
    <3>2. CrType'
      BY <3>1, Zenon DEF CrType, Cr0Mask
    <3>3. RegsTruthful'
      BY <2>1, <3>1 DEF CrType, RegsTruthful, Cr0Seen, Cr4Seen, Cr0Mask
    <3>4. (cr.cr0 \cap {"PG", "PE"} = cr.sh0 \cap {"PG", "PE"})'
      BY <3>1 DEF CrType, Cr0Mask
    <3> QED BY <3>2, <3>3, <3>4 DEF RegsInv
  <2>2. CASE v \cap Cr0Mask # cr.sh0 \cap Cr0Mask
    <3>1. /\ CrType'
          /\ cr'.wrote0 = v /\ cr'.sh0 = v /\ cr'.cr0 = vmx_fix_cr0(v)
          /\ cr'.cr4 = cr.cr4 /\ cr'.sh4 = cr.sh4 /\ cr'.wrote4 = cr.wrote4 /\ cr'.xcr0 = cr.xcr0
          /\ \/ "PG" \in v /\ "LME" \in cr.efer /\ cr'.efer = cr.efer \cup {"LMA"} /\ cr'.lma = TRUE
             \/ "PG" \notin v /\ "LMA" \in cr.efer /\ cr'.efer = cr.efer \ {"LMA"} /\ cr'.lma = FALSE
             \/ /\ ~ ("PG" \in v /\ "LME" \in cr.efer) /\ ~ ("PG" \notin v /\ "LMA" \in cr.efer)
                /\ cr'.efer = cr.efer /\ cr'.lma = cr.lma
      BY <2>2, Zenon DEF MovCr0, CrType, vmx_emulate_cr0_access, vmx_fix_cr0
    <3>2. Cr0Seen' = cr'.wrote0 /\ Cr4Seen' = cr'.wrote4
      BY <3>1 DEF RegsTruthful, Cr0Seen, Cr4Seen, Cr0Mask, vmx_fix_cr0
    <3>5. /\ cr'.lma <=> ("LMA" \in cr'.efer)
          /\ cr'.lma <=> ("LME" \in cr'.efer /\ "PG" \in cr'.wrote0)
      BY <3>1 DEF CrType, RegsTruthful
    <3>3. RegsTruthful'
      BY <3>1, <3>2, <3>5 DEF RegsTruthful, vmx_fix_cr0
    <3>4. (cr.cr0 \cap {"PG", "PE"} = cr.sh0 \cap {"PG", "PE"})'
      BY <3>1 DEF vmx_fix_cr0
    <3> QED BY <3>1, <3>3, <3>4 DEF RegsInv, CrType
  <2> QED BY <2>1, <2>2
<1>2. ASSUME NEW v \in Cr4Values, MovCr4(v) PROVE RegsInv'
  <2> USE <1>t, <1>2
  <2>1. \/ /\ v \cap Cr4Mask = cr.sh4 \cap Cr4Mask
           /\ cr' = [cr EXCEPT !.wrote4 = v, !.cr4 = (v \ Cr4Mask) \cup (cr.cr4 \cap Cr4Mask)]
        \/ cr' = [cr EXCEPT !.wrote4 = v, !.sh4 = v, !.cr4 = vmx_fix_cr4(v)]
    BY DEF MovCr4, vmx_emulate_cr4_access, CrType
  <2>2. CrType'
    BY <2>1, Zenon DEF CrType, Cr4Mask, vmx_fix_cr4
  <2>3. Cr4Seen' = cr'.wrote4 /\ "VMXE" \in cr'.cr4
    <3>1. Cr4Seen = cr.wrote4 /\ "VMXE" \in cr.cr4
      BY DEF RegsTruthful
    <3>2. \/ /\ v \cap {"VMXE"} = cr.sh4 \cap {"VMXE"}
             /\ cr'.wrote4 = v /\ cr'.sh4 = cr.sh4 /\ cr'.cr4 = (v \ {"VMXE"}) \cup (cr.cr4 \cap {"VMXE"})
          \/ cr'.wrote4 = v /\ cr'.sh4 = v /\ cr'.cr4 = v \cup {"VMXE"}
      BY <2>1, Zenon DEF CrType, Cr4Mask, vmx_fix_cr4
    <3> QED BY ONLY <3>1, <3>2 DEF Cr4Seen, Cr4Mask, cr4_ones_mask
  <2>4. RegsTruthful'
    BY <2>1, <2>3, Zenon DEF CrType, RegsTruthful, Cr0Seen
  <2>5. (cr.cr0 \cap {"PG", "PE"} = cr.sh0 \cap {"PG", "PE"})'
    BY <2>1, Zenon DEF CrType
  <2> QED BY <2>2, <2>4, <2>5 DEF RegsInv
<1>3. ASSUME NEW v \in SUBSET EferBits, vmx_wrmsr(v) PROVE RegsInv'
  <2>1. CrType'
    BY <1>t, <1>3 DEF vmx_wrmsr, CrType
  <2>2. "PG" \notin cr.wrote0 => "LMA" \notin cr.efer
    BY <1>t DEF RegsTruthful
  <2>3. RegsTruthful'
    BY <1>t, <1>3, <2>2 DEF vmx_wrmsr, CrType, RegsTruthful, Cr0Seen, Cr4Seen
  <2> QED BY <1>t, <1>3, <2>1, <2>3 DEF vmx_wrmsr, CrType, RegsInv
<1>4. ASSUME NEW v \in XcrValues, vmx_emulate_xsetbv(v) PROVE RegsInv'
  BY <1>t, <1>4 DEF vmx_emulate_xsetbv, RegsInv, CrType, RegsTruthful, Cr0Seen, Cr4Seen, AVX512
<1>5. CASE vmx_setreg
  <2> USE <1>t, <1>5
  <2> DEFINE v == cr.cr0 \cup {"TS"}
  <2>1. /\ cr' = [cr EXCEPT !.cr0 = vmx_fix_cr0(v), !.sh0 = v, !.wrote0 = cr.wrote0 \cup {"TS"}]
        /\ cr0_ones_mask \subseteq cr.wrote0 /\ cr.wrote0 \cap cr0_zeros_mask = {}
    BY DEF vmx_setreg, CrType
  <2>2. CrType'
    BY <2>1, Zenon DEF CrType, vmx_fix_cr0
  <2>3. Cr0Seen' = cr'.wrote0
    BY <2>1 DEF CrType, RegsTruthful, Cr0Seen, Cr0Mask, vmx_fix_cr0
  <2>4. RegsTruthful'
    BY <2>1, <2>3 DEF CrType, RegsTruthful, Cr4Seen, vmx_fix_cr0
  <2>5. (cr.cr0 \cap {"PG", "PE"} = cr.sh0 \cap {"PG", "PE"})'
    BY <2>1 DEF CrType, vmx_fix_cr0
  <2> QED BY <2>2, <2>4, <2>5 DEF RegsInv
<1>6. CASE UNCHANGED cr
  BY <1>t, <1>6 DEF RegsInv, CrType, RegsTruthful, Cr0Seen, Cr4Seen
<1> QED BY <1>1, <1>2, <1>3, <1>4, <1>5, <1>6 DEF RegsNext

\* Whatever control registers, EFER and XCR0 the guest writes, it reads back what it
\* wrote, the processor holds what VMX demands, and long mode is active exactly when
\* EFER.LME and CR0.PG say so.
THEOREM RegsCorrect == RegsSpec => []RegsTruthful
<1>1. RegsInv => RegsTruthful
  BY DEF RegsInv
<1> QED BY <1>1, RegsInitInv, RegsStep, PTL DEF RegsSpec
=============================================================================
