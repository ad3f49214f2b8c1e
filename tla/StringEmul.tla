----------------------------- MODULE StringEmul -----------------------------
(***************************************************************************)
(* String moves and stores that meet a device (emulate_movs, emulate_stos, *)
(* get_gla and vie_calculate_gla in vmm_instruction_emul.c, vm_copy_setup  *)
(* in vmm.c): one element for each exit, the instruction restarted while   *)
(* the count register is not zero.                                         *)
(*                                                                         *)
(* As in Emulate a byte has one bit: a register has 8 bits, an address     *)
(* size of 2, 4 or 8 wraps it there, and a 64-bit address is canonical     *)
(* when its upper 3 bits agree.  Whether a page is there is decided anew   *)
(* each time it is translated, as the other processors of the guest may    *)
(* change the tables.  Ghost state: the registers at the start, and moved, *)
(* the elements transferred.                                               *)
(***************************************************************************)
EXTENDS Integers, Sequences

CONSTANTS Counts, Starts, Segments, ElementSizes

VARIABLE sx

Wrap(v, n) == v % 2^n

\* vie_update_register: a result of 1 or 2 bytes is merged, others replace.
SetReg(old, val, size) ==
  IF size \in {1, 2} THEN Wrap(val, size) + (old - Wrap(old, size)) ELSE Wrap(val, size)

SxInit == sx = [pc |-> "idle"]

\* The processor executes a string instruction; its destination segment is
\* es, and the source segment another or the same.
SxStart ==
  /\ sx.pc = "idle"
  /\ \E kind \in {"movs", "stos"}, size \in ElementSizes, m \in {<<64, 4>>, <<64, 8>>, <<32, 2>>, <<32, 4>>},
        rep, df, ac \in BOOLEAN, rcx \in Counts, rsi, rdi \in Starts, src, dst \in {"ram", "mmio"}, ds, es \in Segments :
       /\ IF kind = "movs" THEN "mmio" \in {src, dst} ELSE src = "ram" /\ dst = "mmio" /\ rsi = 0 /\ ds = es
       /\ ~ rep => rcx = 0
       /\ m[1] = 64 => ds = es
       /\ sx' = [pc |-> "guest", kind |-> kind, size |-> size, mode |-> m[1], as |-> m[2], rep |-> rep, df |-> df,
                 ac |-> ac, rcx |-> rcx, rsi |-> rsi, rdi |-> rdi, src |-> src, dst |-> dst, ds |-> ds, es |-> es,
                 rcx0 |-> rcx, rsi0 |-> rsi, rdi0 |-> rdi, moved |-> <<>>, reads |-> 0, writes |-> 0]

\* An element is left to transfer and the processor meets the device.
SxExit ==
  /\ sx.pc = "guest"
  /\ sx.rep => Wrap(sx.rcx, sx.as) # 0
  /\ sx' = [sx EXCEPT !.pc = "emul"]

-----------------------------------------------------------------------------
\* Outside 64-bit mode the segment has to allow the access, and each byte of
\* the element, its offset wrapped at the address size, to lie in its limits.
vie_calculate_gla(s, seg, offset, prot) ==
  IF s.mode = 32 /\ (prot \notin seg.prot \/ \E k \in 0 .. s.size - 1 : Wrap(offset + k, s.as) \notin seg.lo .. seg.hi)
  THEN -1
  ELSE Wrap((IF s.mode = 64 THEN 0 ELSE seg.base) + Wrap(offset, s.as), IF s.mode = 64 THEN 8 ELSE 4)

\* vie_canonical_check and vie_alignment_check.
Canonical(s, gla) == s.mode = 64 => gla \div 32 \in {0, 7}
Aligned(s, gla) == s.ac => gla % s.size = 0

get_gla(s, seg, offset, prot) ==
  LET gla == vie_calculate_gla(s, seg, offset, prot)
  IN IF gla = -1 \/ ~ Canonical(s, gla) \/ ~ Aligned(s, gla) THEN "fault" ELSE "ok"

\* An exception is injected: the instruction starts again, or never does.
SxFault(s) == [s EXCEPT !.pc = "guest"]

Stepped(s, r) == IF s.df THEN r - s.size ELSE r + s.size

\* The index and count registers after an element; vm_restart_instruction
\* while elements remain.
Advance(s) ==
  LET t == [s EXCEPT !.rdi = SetReg(@, Stepped(s, @), s.as),
                     !.rsi = IF s.kind = "movs" THEN SetReg(@, Stepped(s, @), s.as) ELSE @,
                     !.rcx = IF s.rep THEN SetReg(@, @ - 1, s.as) ELSE @]
  IN [t EXCEPT !.pc = IF s.rep /\ Wrap(t.rcx, s.as) # 0 THEN "guest" ELSE "done"]

\* memread and memwrite are called for the operands that are devices.
Transfer(s) ==
  [s EXCEPT !.moved = Append(@, <<Wrap(s.rsi, s.as), Wrap(s.rdi, s.as)>>),
            !.reads = IF s.src = "mmio" THEN @ + 1 ELSE @,
            !.writes = IF s.dst = "mmio" THEN @ + 1 ELSE @]

\* vm_copy_setup: a page that is missing faults; a device is refused.
vm_copy_setup(present, what) == IF ~ present THEN "fault" ELSE IF what = "ram" THEN "ok" ELSE "efault"

\* The source tells the cases apart: from memory to the device that faulted
\* (2), or from a device, read only when the destination is known to be
\* memory that is there (3) or another device (4).
emulate_movs(s, srcp, dstp) ==
  IF s.rep /\ Wrap(s.rcx, s.as) = 0 THEN [s EXCEPT !.pc = "done"]
  ELSE IF get_gla(s, s.ds, s.rsi, "r") = "fault" \/ vm_copy_setup(srcp, s.src) = "fault" THEN SxFault(s)
  ELSE IF vm_copy_setup(srcp, s.src) = "ok" THEN Advance(Transfer(s))
  ELSE IF get_gla(s, s.es, s.rdi, "w") = "fault" \/ vm_copy_setup(dstp, s.dst) = "fault" THEN SxFault(s)
  ELSE Advance(Transfer(s))

\* The destination is the device that faulted; the processor checked it.
emulate_stos(s) ==
  IF s.rep /\ Wrap(s.rcx, s.as) = 0 THEN [s EXCEPT !.pc = "done"] ELSE Advance(Transfer(s))

SxEmulate ==
  /\ sx.pc = "emul"
  /\ \/ \E srcp, dstp \in BOOLEAN : sx.kind = "movs" /\ sx' = emulate_movs(sx, srcp, dstp)
     \/ sx.kind = "stos" /\ sx' = emulate_stos(sx)

SxNext == SxStart \/ SxExit \/ SxEmulate

-----------------------------------------------------------------------------
Elem(k) ==
  LET by == IF sx.df THEN -(k * sx.size) ELSE k * sx.size
  IN << Wrap(IF sx.kind = "stos" THEN 0 ELSE sx.rsi0 + by, sx.as), Wrap(sx.rdi0 + by, sx.as)>>

\* However often a string instruction (emulate_movs, emulate_stos) faults and
\* is restarted, its elements are transferred once each and in order, between
\* the addresses that the registers at its start determine; a device is read
\* or written once for each element and never for one that then faults; and
\* the count and index registers always stand at the next element.
StringExact ==
  sx.pc # "idle" =>
    LET n == Len(sx.moved)
    IN /\ sx.reads = (IF sx.src = "mmio" THEN n ELSE 0) /\ sx.writes = (IF sx.dst = "mmio" THEN n ELSE 0)
       /\ \A k \in 1 .. n : sx.moved[k] = Elem(k - 1)
       /\ <<Wrap(sx.rsi, sx.as), Wrap(sx.rdi, sx.as)>> = Elem(n)
       /\ sx.rep => Wrap(sx.rcx, sx.as) + n = Wrap(sx.rcx0, sx.as)
       /\ sx.pc = "done" => n = IF sx.rep THEN Wrap(sx.rcx0, sx.as) ELSE 1
=============================================================================
