------------------------------ MODULE VmxRegs -------------------------------
(***************************************************************************)
(* The control registers of a vcpu (intel/vmx.c, intel/vmx_msr.c): CR0 and *)
(* CR4 with the bits the host owns and the shadows the guest reads, EFER   *)
(* and the entry control that has to agree with it, and XCR0.  A register  *)
(* is the set of its bits.  The processor is external: a write that leaves *)
(* the host's bits as the shadow has them does not exit.  Ghost state:     *)
(* wrote0 and wrote4, what the guest last wrote.                           *)
(***************************************************************************)
EXTENDS Integers

CONSTANTS Cr0Values, Cr4Values, EferBits, XcrValues, XcrAllowed

VARIABLE cr

cr0_ones_mask == {"NE", "ET"}
cr0_zeros_mask == {"NW", "CD"}
cr4_ones_mask == {"VMXE"}

\* Faulty variant: only the bits with fixed values belong to the host.
Cr0Mask_Fixed == cr0_ones_mask \cup cr0_zeros_mask

Cr0Mask == cr0_ones_mask \cup cr0_zeros_mask \cup {"PG", "PE"}
Cr4Mask == cr4_ones_mask

vmx_fix_cr0(v) == (v \cup cr0_ones_mask) \ cr0_zeros_mask
vmx_fix_cr4(v) == v \cup cr4_ones_mask

\* After vmx_vcpu_init and the reset of the vcpu: CR0.NE, and CR4 empty.
RegsInit ==
  cr = [cr0 |-> vmx_fix_cr0({"NE"}), sh0 |-> {"NE"}, cr4 |-> vmx_fix_cr4({}), sh4 |-> {},
        efer |-> {}, lma |-> FALSE, xcr0 |-> {"X87"}, wrote0 |-> {"NE"}, wrote4 |-> {}]

\* What the guest reads.
Cr0Seen == (cr.cr0 \ Cr0Mask) \cup (cr.sh0 \cap Cr0Mask)
Cr4Seen == (cr.cr4 \ Cr4Mask) \cup (cr.sh4 \cap Cr4Mask)

\* Turning paging on or off enters or leaves long mode.
vmx_emulate_cr0_access(s, v) ==
  LET t == [s EXCEPT !.sh0 = v, !.cr0 = vmx_fix_cr0(v)]
  IN CASE "PG" \in v /\ "LME" \in s.efer    -> [t EXCEPT !.efer = @ \cup {"LMA"}, !.lma = TRUE]
       [] "PG" \notin v /\ "LMA" \in s.efer -> [t EXCEPT !.efer = @ \ {"LMA"}, !.lma = FALSE]
       [] OTHER                             -> t

\* A write of the guest exits when it changes a bit of the host.
MovCr0(v) ==
  /\ LET s == [cr EXCEPT !.wrote0 = v]
     IN cr' = IF v \cap Cr0Mask = cr.sh0 \cap Cr0Mask
              THEN [s EXCEPT !.cr0 = (v \ Cr0Mask) \cup (@ \cap Cr0Mask)]
              ELSE vmx_emulate_cr0_access(s, v)

vmx_emulate_cr4_access(s, v) == [s EXCEPT !.sh4 = v, !.cr4 = vmx_fix_cr4(v)]

MovCr4(v) ==
  /\ LET s == [cr EXCEPT !.wrote4 = v]
     IN cr' = IF v \cap Cr4Mask = cr.sh4 \cap Cr4Mask
              THEN [s EXCEPT !.cr4 = (v \ Cr4Mask) \cup (@ \cap Cr4Mask)]
              ELSE vmx_emulate_cr4_access(s, v)

\* EFER is stored as it is written.  The guest keeps LMA as it read it, and
\* changes LME only while paging is off.
vmx_wrmsr(v) ==
  /\ v \cap {"LMA"} = cr.efer \cap {"LMA"}
  /\ "PG" \in cr.wrote0 => (v \cap {"LME"} = cr.efer \cap {"LME"})
  /\ cr' = [cr EXCEPT !.efer = v]

AVX512 == {"OPMASK", "ZMM_HI256", "HI16_ZMM"}

\* Refused with #UD without CR4.OSXSAVE, and with #GP for a value that is not
\* allowed.
vmx_emulate_xsetbv(v) ==
  /\ "OSXSAVE" \in cr.cr4
  /\ v \subseteq XcrAllowed
  /\ "X87" \in v
  /\ "AVX" \in v => "SSE" \in v
  /\ v \cap AVX512 # {} => AVX512 \cup {"AVX", "SSE"} \subseteq v
  /\ ("BNDREGS" \in v) = ("BNDCSR" \in v)
  /\ cr' = [cr EXCEPT !.xcr0 = v]

\* The process sets CR0.TS in a task switch: it reads the real register and
\* its write goes to both.  By then the guest has set the fixed bits itself.
vmx_setreg ==
  /\ cr0_ones_mask \subseteq cr.wrote0 /\ cr.wrote0 \cap cr0_zeros_mask = {}
  /\ LET v == cr.cr0 \cup {"TS"}
     IN cr' = [cr EXCEPT !.cr0 = vmx_fix_cr0(v), !.sh0 = v, !.wrote0 = @ \cup {"TS"}]

RegsNext ==
  \/ \E v \in Cr0Values : MovCr0(v)
  \/ \E v \in Cr4Values : MovCr4(v)
  \/ \E v \in SUBSET EferBits : vmx_wrmsr(v)
  \/ \E v \in XcrValues : vmx_emulate_xsetbv(v)
  \/ vmx_setreg

RegsSpec == RegsInit /\ [][RegsNext]_cr

-----------------------------------------------------------------------------
\* The guest reads what it wrote although the processor holds other values: CR0
\* and CR4 always have the bits VMX demands, EFER.LMA and the entry control say
\* long mode exactly when EFER.LME and CR0.PG are both set, and XCR0 never
\* enables part of AVX, AVX-512 or MPX.  A write that does not exit may change
\* none of this.
RegsTruthful ==
  /\ Cr0Seen = cr.wrote0 /\ Cr4Seen = cr.wrote4
  /\ cr0_ones_mask \subseteq cr.cr0 /\ cr.cr0 \cap cr0_zeros_mask = {} /\ cr4_ones_mask \subseteq cr.cr4
  /\ cr.lma <=> ("LMA" \in cr.efer)
  /\ cr.lma <=> ("LME" \in cr.efer /\ "PG" \in cr.wrote0)
  /\ "X87" \in cr.xcr0
  /\ cr.xcr0 \cap (AVX512 \cup {"AVX"}) # {} => "SSE" \in cr.xcr0
=============================================================================
