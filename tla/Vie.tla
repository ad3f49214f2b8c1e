-------------------------------- MODULE Vie ---------------------------------
(***************************************************************************)
(* The decoder of the instructions that touch emulated devices             *)
(* (vmm_instruction_emul.c): prefixes, opcode, ModRM, SIB, displacement,   *)
(* immediate, direct offset, and the check of the decoded address against  *)
(* the one the processor reported.                                         *)
(*                                                                         *)
(* The guest executes an instruction of Instructions, given by what it     *)
(* means: operand size, register, base, index, scale, displacement.        *)
(* Assemble (external: an assembler, from the architecture's tables) turns *)
(* it into bytes; the decoder has to find the meaning again.  Register r   *)
(* holds the value RegValue(r).                                            *)
(***************************************************************************)
EXTENDS Integers, Sequences, SequencesExt

CONSTANTS Instructions, INST_SIZE

VARIABLE vie   \* the instruction, the bytes fetched, and the decoder's result

NoReg == -1
RIP == 16
RegValue(r) == IF r = NoReg THEN 0 ELSE 1000 * (r + 1)

\* Little endian values of bytes, without and with their sign.
Unsigned(b) == FoldRight(LAMBDA x, acc : x + 256 * acc, b, 0)
Signed(b) ==
  LET top == b[Len(b)]
  IN FoldRight(LAMBDA x, acc : x + 256 * acc, SubSeq(b, 1, Len(b) - 1) \o <<IF top >= 128 THEN top - 256 ELSE top>>, 0)

-----------------------------------------------------------------------------
(* The opcodes: a type and flags.                                          *)

Op(type, flags) == [type |-> type, flags |-> flags]
NoOp == Op("NONE", {})

two_byte_opcodes ==
  (182 :> Op("MOVZX", {})) @@ (183 :> Op("MOVZX", {})) @@ (186 :> Op("BITTEST", {"IMM8"})) @@ (190 :> Op("MOVSX", {}))

one_byte_opcodes ==
  (15 :> Op("TWO_BYTE", {})) @@ (43 :> Op("SUB", {})) @@ (59 :> Op("CMP", {})) @@ (35 :> Op("AND", {}))
    @@ [x \in {136, 137, 138, 139} |-> Op("MOV", {})]
    @@ [x \in {161, 163} |-> Op("MOV", {"MOFFSET", "NO_MODRM"})]
    @@ [x \in {164, 165} |-> Op("MOVS", {"NO_MODRM", "NO_GLA"})]
    @@ [x \in {170, 171} |-> Op("STOS", {"NO_MODRM", "NO_GLA"})]
    @@ (198 :> Op("MOV", {"IMM8"})) @@ (199 :> Op("MOV", {"IMM"}))
    @@ (128 :> Op("GROUP1", {"IMM8"})) @@ (129 :> Op("GROUP1", {"IMM"})) @@ (131 :> Op("GROUP1", {"IMM8"}))
    @@ (143 :> Op("POP", {})) @@ (255 :> Op("PUSH", {}))

Lookup(table, x) == IF x \in DOMAIN table THEN table[x] ELSE NoOp

-----------------------------------------------------------------------------
(* The decoder.  v is struct vie; ok becomes FALSE where a step returns -1 *)

\* vie_init and the bytes vmm_fetch_instruction copied.
vie_init(bytes) ==
  [inst |-> bytes, n |-> 0, ok |-> TRUE, op |-> NoOp, seg |-> 0, opsize |-> 0, addrsize |-> 0,
   rep |-> FALSE, rex |-> 0, mod |-> 0, reg |-> 0, rm |-> 0, base |-> NoReg, index |-> NoReg, scale |-> 0,
   dispbytes |-> 0, disp |-> 0, imm |-> 0]

vie_peek(v) == v.inst[v.n + 1]
vie_left(v) == v.ok /\ v.n < Len(v.inst)
vie_advance(v, k) == [v EXCEPT !.n = @ + k]
Bad(v) == [v EXCEPT !.ok = FALSE]

SegmentPrefixes == {46, 54, 62, 38, 100, 101}
LegacyPrefixes == {102, 103, 243, 242} \cup SegmentPrefixes
RexBit(v, b) == (v.rex \div 2^b) % 2

\* Legacy prefixes in any order, then a REX prefix in 64-bit mode, and the
\* sizes they give.
decode_prefixes(v, mode, csd) ==
  LET many == Len(v.inst)
      k    == CHOOSE i \in 0 .. many : /\ \A j \in 1 .. i : v.inst[j] \in LegacyPrefixes
                                       /\ i < many => v.inst[i + 1] \notin LegacyPrefixes
      has  == {v.inst[j] : j \in 1 .. k}
      segs == SelectSeq(SubSeq(v.inst, 1, k), LAMBDA x : x \in SegmentPrefixes)
      rex  == IF k < many /\ mode = "64" /\ v.inst[k + 1] \in 64 .. 79 THEN v.inst[k + 1] ELSE 0
      op66 == 102 \in has
      op67 == 103 \in has
  IN IF k = many THEN Bad(v)
     ELSE [v EXCEPT !.n = k + (IF rex # 0 THEN 1 ELSE 0), !.rex = rex, !.rep = has \cap {242, 243} # {},
                    !.seg = IF segs = <<>> THEN 0 ELSE segs[Len(segs)],
                    !.addrsize = CASE mode = "64"         -> IF op67 THEN 4 ELSE 8
                                   [] mode # "64" /\ csd  -> IF op67 THEN 2 ELSE 4
                                   [] OTHER               -> IF op67 THEN 4 ELSE 2,
                    !.opsize = CASE mode = "64"        -> IF (rex \div 8) % 2 = 1 THEN 8 ELSE IF op66 THEN 2 ELSE 4
                                 [] mode # "64" /\ csd -> IF op66 THEN 2 ELSE 4
                                 [] OTHER              -> IF op66 THEN 4 ELSE 2]

decode_two_byte_opcode(v) ==
  IF ~ vie_left(v) \/ Lookup(two_byte_opcodes, vie_peek(v)) = NoOp THEN Bad(v)
  ELSE [vie_advance(v, 1) EXCEPT !.op = two_byte_opcodes[vie_peek(v)]]

decode_opcode(v) ==
  IF ~ vie_left(v) \/ Lookup(one_byte_opcodes, vie_peek(v)) = NoOp THEN Bad(v)
  ELSE LET w == [vie_advance(v, 1) EXCEPT !.op = one_byte_opcodes[vie_peek(v)]]
       IN IF w.op.type = "TWO_BYTE" THEN decode_two_byte_opcode(w) ELSE w

DispBytes(mod) == CASE mod = 1 -> 1 [] mod = 2 -> 4 [] OTHER -> 0

\* Faulty variant: REX.B also extends an r/m that announces a SIB byte.
decode_modrm_RexSib(v, mode) ==
  IF ~ v.ok \/ "NO_MODRM" \in v.op.flags THEN v
  ELSE IF mode = "REAL" \/ ~ vie_left(v) \/ vie_peek(v) \div 64 = 3 THEN Bad(v)
  ELSE LET x   == vie_peek(v)
           mod == x \div 64
           rm  == (x % 8) + 8 * RexBit(v, 0)
           w   == [vie_advance(v, 1) EXCEPT !.mod = mod, !.rm = rm, !.reg = ((x \div 8) % 8) + 8 * RexBit(v, 2)]
       IN IF rm = 4 THEN w
          ELSE IF mod = 0 /\ rm = 5
          THEN [w EXCEPT !.dispbytes = 4, !.base = IF mode = "64" THEN RIP ELSE NoReg]
          ELSE [w EXCEPT !.dispbytes = DispBytes(mod), !.base = rm]

\* Registers and the form of the address.  No ModRM operand is decoded in real
\* mode, and a register operand does not touch memory.
decode_modrm(v, mode) ==
  IF ~ v.ok \/ "NO_MODRM" \in v.op.flags THEN v
  ELSE IF mode = "REAL" \/ ~ vie_left(v) \/ vie_peek(v) \div 64 = 3 THEN Bad(v)
  ELSE LET x   == vie_peek(v)
           mod == x \div 64
           low == x % 8
           rm  == IF (mod = 0 /\ low = 5) \/ low = 4 THEN low ELSE low + 8 * RexBit(v, 0)
           w   == [vie_advance(v, 1) EXCEPT !.mod = mod, !.rm = rm, !.reg = ((x \div 8) % 8) + 8 * RexBit(v, 2)]
       IN IF rm = 4 THEN w
          ELSE IF mod = 0 /\ rm = 5
          THEN [w EXCEPT !.dispbytes = 4, !.base = IF mode = "64" THEN RIP ELSE NoReg]
          ELSE [w EXCEPT !.dispbytes = DispBytes(mod), !.base = rm]

decode_sib(v) ==
  IF ~ v.ok \/ v.rm # 4 THEN v
  ELSE IF ~ vie_left(v) THEN Bad(v)
  ELSE LET x     == vie_peek(v)
           base  == (x % 8) + 8 * RexBit(v, 0)
           index == ((x \div 8) % 8) + 8 * RexBit(v, 1)
           none  == v.mod = 0 /\ base \in {5, 13}
       IN [vie_advance(v, 1) EXCEPT
             !.dispbytes = IF none THEN 4 ELSE DispBytes(v.mod), !.base = IF none THEN NoReg ELSE base,
             !.index = IF index = 4 THEN NoReg ELSE index, !.scale = IF index = 4 THEN 0 ELSE 2^(x \div 64)]

\* The next k bytes.
Next_(v, k) == SubSeq(v.inst, v.n + 1, v.n + k)

decode_displacement(v) ==
  IF ~ v.ok \/ v.dispbytes = 0 THEN v
  ELSE IF v.n + v.dispbytes > Len(v.inst) THEN Bad(v)
  ELSE [vie_advance(v, v.dispbytes) EXCEPT !.disp = Signed(Next_(v, v.dispbytes))]

ImmBytes(v) ==
  CASE "IMM" \in v.op.flags  -> IF v.opsize \in {4, 8} THEN 4 ELSE 2
    [] "IMM8" \in v.op.flags -> 1
    [] OTHER                 -> 0

decode_immediate(v) ==
  IF ~ v.ok \/ ImmBytes(v) = 0 THEN v
  ELSE IF v.n + ImmBytes(v) > Len(v.inst) THEN Bad(v)
  ELSE [vie_advance(v, ImmBytes(v)) EXCEPT !.imm = Signed(Next_(v, ImmBytes(v)))]

decode_moffset(v) ==
  IF ~ v.ok \/ "MOFFSET" \notin v.op.flags THEN v
  ELSE IF v.n + v.addrsize > Len(v.inst) THEN Bad(v)
  ELSE [vie_advance(v, v.addrsize) EXCEPT !.disp = Unsigned(Next_(v, v.addrsize))]

\* Some byte has been consumed.
verify_inst_length(v) == IF v.n > 0 THEN v ELSE Bad(v)

\* The address the operand denotes is the one that faulted.  A base of RIP
\* counts from the end of the bytes fetched.
verify_gla(v, gla) ==
  LET base == RegValue(v.base) + (IF v.base = RIP THEN Len(v.inst) ELSE 0)
  IN IF v.ok /\ "NO_GLA" \notin v.op.flags /\ base + v.scale * RegValue(v.index) + v.disp # gla THEN Bad(v) ELSE v

vmm_decode_instruction(bytes, gla, mode, csd) ==
  LET form == decode_sib(decode_modrm(decode_opcode(decode_prefixes(vie_init(bytes), mode, csd)), mode))
      all  == decode_moffset(decode_immediate(decode_displacement(form)))
  IN verify_gla(verify_inst_length(all), gla)

-----------------------------------------------------------------------------
(* The guest's instruction, assembled.                                     *)

Extended(r) == r \in 8 .. 15
Rex(i) == LET bits == (IF i.w THEN 8 ELSE 0) + (IF Extended(i.reg) THEN 4 ELSE 0)
                      + (IF Extended(i.index) THEN 2 ELSE 0) + (IF Extended(i.base) THEN 1 ELSE 0)
          IN IF bits = 0 THEN <<>> ELSE <<64 + bits>>

\* An operand needs a SIB byte for an index, for a base encoded like the escape
\* to one, and in 64-bit mode for no base at all.
NeedsSib(i) == i.index # NoReg \/ (i.base # RIP /\ i.base # NoReg /\ i.base % 8 = 4) \/ (i.base = NoReg /\ i.mode = "64")

Assemble(i) ==
  LET mod   == IF i.base \in {NoReg, RIP} THEN 0 ELSE CASE Len(i.disp) = 0 -> 0 [] Len(i.disp) = 1 -> 1 [] OTHER -> 2
      rm    == IF NeedsSib(i) THEN 4 ELSE IF i.base \in {NoReg, RIP} THEN 5 ELSE i.base % 8
      log   == CASE i.scale = 1 -> 0 [] i.scale = 2 -> 1 [] i.scale = 4 -> 2 [] i.scale = 8 -> 3 [] OTHER -> 0
      sib   == IF NeedsSib(i)
               THEN <<64 * log + 8 * (IF i.index = NoReg THEN 4 ELSE i.index % 8) + (IF i.base = NoReg THEN 5 ELSE i.base % 8)>>
               ELSE <<>>
      modrm == IF i.modrm THEN <<64 * mod + 8 * (i.reg % 8) + rm>> \o sib ELSE <<>>
  IN i.prefixes \o Rex(i) \o i.op \o modrm \o i.disp \o i.imm

\* The address of the operand: RIP counts from the end of the instruction.
Address(i) ==
  RegValue(i.base) + (IF i.base = RIP THEN Len(Assemble(i)) ELSE 0) + i.scale * RegValue(i.index)
    + (IF i.disp = <<>> THEN 0 ELSE IF i.modrm THEN Signed(i.disp) ELSE Unsigned(i.disp))

VieInit == vie = [pc |-> "idle", i |-> "none", bytes |-> <<>>, out |-> "none"]

\* The instruction exits.  Its length is known; or not, and as many bytes are
\* fetched as an instruction can have; or the fetch ends within it.
vmm_fetch_instruction(i, len) ==
  /\ vie.pc = "idle"
  /\ LET code == Assemble(i)
         rest == [k \in 1 .. INST_SIZE - Len(code) |-> 144]
     IN vie' = [pc |-> "fetched", i |-> i, out |-> "none",
                bytes |-> CASE len = "known" -> code [] len = "unknown" -> code \o rest
                            [] len = "short" -> SubSeq(code, 1, Len(code) - 1)]

VieDecode ==
  /\ vie.pc = "fetched"
  /\ vie' = [vie EXCEPT !.pc = "decoded", !.out = vmm_decode_instruction(vie.bytes, Address(vie.i), vie.i.mode, vie.i.csd)]

VieNext == VieDecode \/ \E i \in Instructions, len \in {"known", "unknown", "short"} : vmm_fetch_instruction(i, len)

-----------------------------------------------------------------------------
\* The decoder finds the instruction the guest executes: its length, sizes,
\* register, address and immediate, whatever the encoding, also when more bytes
\* were fetched than it has; and an instruction fetched in part is refused.
\* The one exception is an operand relative to RIP of unknown length.
DecodeExact ==
  vie.pc = "decoded" =>
    LET i    == vie.i
        v    == vie.out
        code == Assemble(i)
    IN IF Len(vie.bytes) < Len(code) THEN ~ v.ok
       ELSE ~ (i.base = RIP /\ Len(vie.bytes) > Len(code)) =>
            /\ v.ok /\ v.n = Len(code)
            /\ v.base = i.base /\ v.index = i.index /\ v.scale = i.scale
            /\ v.disp = (IF i.disp = <<>> THEN 0 ELSE IF i.modrm THEN Signed(i.disp) ELSE Unsigned(i.disp))
            /\ i.modrm => v.reg = i.reg
            /\ v.imm = IF i.imm = <<>> THEN 0 ELSE Signed(i.imm)
            /\ v.opsize = i.opsize /\ v.addrsize = i.addrsize
=============================================================================
