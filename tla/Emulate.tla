------------------------------ MODULE Emulate -------------------------------
(***************************************************************************)
(* What an instruction that touches a device does once it is decoded       *)
(* (vmm_instruction_emul.c): moves, zero and sign extension, logic,        *)
(* compare and subtract, bit test, push and pop, with registers and        *)
(* operands of 1, 2, 4 and 8 bytes.                                        *)
(*                                                                         *)
(* A byte has one bit here, so sizes are numbers of bits and a register    *)
(* has 8 of them: what matters is which bytes an operand has.  The device  *)
(* takes the bytes of a write that its size covers.  em has the state      *)
(* before the instruction in s0 and after it in s.                         *)
(***************************************************************************)
EXTENDS Integers, Bitwise

CONSTANTS RegValues, DevValues, Immediates

VARIABLE em

Trunc(v, n) == v % 2^n
AsSigned(v, n) == IF Trunc(v, n) >= 2^(n - 1) THEN Trunc(v, n) - 2^n ELSE Trunc(v, n)

vie_update_register(old, val, size) ==
  IF size \in {1, 2} THEN Trunc(val, size) + (old - Trunc(old, size)) ELSE Trunc(val, size)

\* The byte registers: the second byte of a register without a REX prefix.
vie_read_bytereg(old, high) == IF high THEN Trunc(old \div 2, 1) ELSE Trunc(old, 1)
vie_write_bytereg(old, byte, high) ==
  IF high THEN old - 2 * Trunc(old \div 2, 1) + 2 * Trunc(byte, 1) ELSE old - Trunc(old, 1) + Trunc(byte, 1)

\* The flags of x - y, from the host's own subtraction.
getcc(size, x, y) ==
  LET a == Trunc(x, size)
      b == Trunc(y, size)
      r == Trunc(a - b, size)
      Neg(v) == v >= 2^(size - 1)
  IN [c |-> a < b, z |-> r = 0, s |-> Neg(r), o |-> Neg(a) # Neg(b) /\ Neg(r) # Neg(a)]

LogicFlags(size, result) == [getcc(size, result, 0) EXCEPT !.c = FALSE, !.o = FALSE]

-----------------------------------------------------------------------------
(* The operations: s is the state with the register operand, the device's  *)
(* register, the flags and the stack.                                      *)

memwrite(s, val, size) == [s EXCEPT !.dev = Trunc(val, size), !.writes = @ + 1]

emulate_mov(s, i) ==
  CASE i.op = "88" -> memwrite(s, vie_read_bytereg(s.reg, i.high), 1)
    [] i.op \in {"89", "A3"} -> memwrite(s, Trunc(s.reg, i.size), i.size)
    [] i.op = "8A" -> [s EXCEPT !.reg = vie_write_bytereg(@, Trunc(s.dev, 1), i.high)]
    [] i.op \in {"8B", "A1"} -> [s EXCEPT !.reg = vie_update_register(@, Trunc(s.dev, i.size), i.size)]
    [] i.op = "C6" -> memwrite(s, i.imm, 1)
    [] i.op = "C7" -> memwrite(s, Trunc(i.imm, i.size), i.size)

emulate_movx(s, i) ==
  LET val == CASE i.op = "B6" -> Trunc(s.dev, 1) [] i.op = "B7" -> Trunc(s.dev, 2) [] i.op = "BE" -> Trunc(AsSigned(s.dev, 1), 8)
  IN [s EXCEPT !.reg = vie_update_register(@, val, i.size)]

emulate_and(s, i) ==
  LET result == IF i.op = "23" THEN s.reg & Trunc(s.dev, i.size) ELSE Trunc(s.dev, i.size) & Trunc(i.imm, 8)
      t == IF i.op = "23" THEN [s EXCEPT !.reg = vie_update_register(@, result, i.size)] ELSE memwrite(s, result, i.size)
  IN [t EXCEPT !.flags = LogicFlags(i.size, result)]

emulate_or(s, i) ==
  LET result == Trunc(s.dev, i.size) | Trunc(i.imm, 8)
  IN [memwrite(s, result, i.size) EXCEPT !.flags = LogicFlags(i.size, result)]

emulate_cmp(s, i) ==
  LET size == IF i.op = "80/7" THEN 1 ELSE i.size
  IN [s EXCEPT !.flags = IF i.op = "3B" THEN getcc(size, s.reg, Trunc(s.dev, size))
                         ELSE getcc(size, Trunc(s.dev, size), i.imm)]

emulate_sub(s, i) ==
  [s EXCEPT !.reg = vie_update_register(@, @ - Trunc(s.dev, i.size), i.size),
            !.flags = getcc(i.size, s.reg, Trunc(s.dev, i.size))]

emulate_bittest(s, i) ==
  [s EXCEPT !.flags.c = (s.dev \div 2^(i.imm % i.size)) % 2 = 1]

\* Push and pop: the stack is checked and translated before the device is
\* touched, and the stack pointer moves last.
emulate_stack_op(s, i) ==
  LET down == s.rsp - i.size
  IN IF ~ s.stackok THEN [s EXCEPT !.exc = "SS"]
     ELSE IF i.op = "push"
     THEN [s EXCEPT !.stack = Trunc(s.dev, i.size), !.at = Trunc(down, i.stack), !.rsp = vie_update_register(@, down, i.stack)]
     ELSE [memwrite(s, s.stack, i.size) EXCEPT !.at = Trunc(s.rsp, i.stack),
                                               !.rsp = vie_update_register(@, s.rsp + i.size, i.stack)]

emulate_group1(s, i) ==
  CASE i.op \in {"81/1", "83/1"} -> emulate_or(s, i)
    [] i.op \in {"81/4", "83/4"} -> emulate_and(s, i)
    [] i.op \in {"80/7", "81/7", "83/7"} -> emulate_cmp(s, i)

MovOps == {"88", "89", "8A", "8B", "A1", "A3", "C6", "C7"}
Group1Ops == {"81/1", "83/1", "81/4", "83/4", "80/7", "81/7", "83/7"}
AllOps == MovOps \cup {"B6", "B7", "BE", "23", "3B", "2B", "0FBA", "push", "pop"} \cup Group1Ops

vmm_emulate_instruction(s, i) ==
  CASE i.op \in MovOps             -> emulate_mov(s, i)
    [] i.op \in {"B6", "B7", "BE"} -> emulate_movx(s, i)
    [] i.op = "23"                 -> emulate_and(s, i)
    [] i.op = "3B"                 -> emulate_cmp(s, i)
    [] i.op = "2B"                 -> emulate_sub(s, i)
    [] i.op = "0FBA"               -> emulate_bittest(s, i)
    [] i.op \in {"push", "pop"}    -> emulate_stack_op(s, i)
    [] i.op \in Group1Ops          -> emulate_group1(s, i)

EmulState(reg, dev, ok) ==
  [reg |-> reg, dev |-> dev, flags |-> [c |-> FALSE, z |-> FALSE, s |-> FALSE, o |-> FALSE], rsp |-> 66, stack |-> 5,
   stackok |-> ok, at |-> 0, exc |-> "none", writes |-> 0]

EmulInit == em = [pc |-> "idle"]

\* An instruction the processor can have executed: the operand size of a stack
\* operation follows the mode, and movzx of two bytes has a wider target.
Executable(i) ==
  /\ i.op = "B7" => i.size > 2
  /\ i.op \in {"push", "pop"} => i.size = 2 \/ i.size = i.stack
  /\ i.op \notin {"88", "8A"} => ~ i.high
  /\ i.op \in {"C6"} \cup Group1Ops => i.size # 1
  /\ i.op \in MovOps \cup {"B6", "BE", "23", "3B", "2B", "0FBA"} => i.size # 1

EmulStep ==
  /\ em.pc = "idle"
  /\ \E op \in AllOps, size \in {1, 2, 4, 8}, high \in BOOLEAN, imm \in Immediates, stack \in {2, 4, 8},
        reg \in RegValues, dev \in DevValues, ok \in BOOLEAN :
       LET i == [op |-> op, size |-> size, high |-> high, imm |-> imm, stack |-> stack]
           s == EmulState(reg, dev, ok)
       IN /\ Executable(i)
          /\ op \notin {"push", "pop"} => stack = 8 /\ ok
          /\ em' = [pc |-> "done", i |-> i, s0 |-> s, s |-> vmm_emulate_instruction(s, i)]

-----------------------------------------------------------------------------
(* The architecture: what a write to part of a register leaves, and the    *)
(* flags of a subtraction by their meaning.                                *)

ArchWrite(old, size, val) ==
  CHOOSE n \in 0 .. 255 : /\ n % 2^size = val % 2^size
                          /\ n \div 2^size = IF size >= 4 THEN 0 ELSE old \div 2^size

ArchFlags(size, x, y) ==
  LET a == x % 2^size
      b == y % 2^size
      d == AsSigned(a, size) - AsSigned(b, size)
  IN [c |-> a < b, z |-> a = b, s |-> AsSigned(d, size) < 0, o |-> d \notin -(2^(size - 1)) .. 2^(size - 1) - 1]

ArchReg(i, s) ==
  CASE i.op \in {"8B", "A1"} -> ArchWrite(s.reg, i.size, s.dev)
    [] i.op = "8A"           -> IF i.high THEN 4 * (s.reg \div 4) + 2 * (s.dev % 2) + (s.reg % 2) ELSE ArchWrite(s.reg, 1, s.dev)
    [] i.op = "B6"           -> ArchWrite(s.reg, i.size, s.dev % 2)
    [] i.op = "B7"           -> ArchWrite(s.reg, i.size, s.dev % 4)
    [] i.op = "BE"           -> ArchWrite(s.reg, i.size, -(s.dev % 2))
    [] i.op = "23"           -> ArchWrite(s.reg, i.size, s.reg & s.dev)
    [] i.op = "2B"           -> ArchWrite(s.reg, i.size, s.reg - s.dev)
    [] OTHER                 -> s.reg

ArchDev(i, s) ==
  CASE i.op = "88"                  -> (IF i.high THEN s.reg \div 2 ELSE s.reg) % 2
    [] i.op \in {"89", "A3"}        -> s.reg % 2^i.size
    [] i.op = "C6"                  -> i.imm % 2
    [] i.op = "C7"                  -> i.imm % 2^i.size
    [] i.op \in {"81/4", "83/4"}    -> (s.dev & (i.imm % 256)) % 2^i.size
    [] i.op \in {"81/1", "83/1"}    -> (s.dev | (i.imm % 256)) % 2^i.size
    [] i.op = "pop" /\ s.stackok    -> s.stack % 2^i.size
    [] OTHER                        -> s.dev

\* The emulated instruction leaves the register, the device and the flags as
\* the processor would, for every operand size: results of 1 and 2 bytes keep
\* the rest of the register, 4 byte results clear it, immediates are extended
\* with their sign.  A push or pop that faults has touched neither the device
\* nor the stack pointer.
EmulationExact ==
  em.pc = "done" =>
    LET i == em.i
        s == em.s0
        t == em.s
    IN /\ t.reg = ArchReg(i, s) /\ t.dev = ArchDev(i, s)
       /\ i.op = "2B" => t.flags = ArchFlags(i.size, s.reg, s.dev)
       /\ i.op = "3B" => t.flags = ArchFlags(i.size, s.reg, s.dev)
       /\ i.op \in {"81/7", "83/7"} => t.flags = ArchFlags(i.size, s.dev, i.imm)
       /\ i.op = "80/7" => t.flags = ArchFlags(1, s.dev, i.imm)
       /\ i.op = "23" => t.flags = [ArchFlags(i.size, t.reg, 0) EXCEPT !.c = FALSE]
       /\ i.op \in {"81/4", "83/4", "81/1", "83/1"} => t.flags = [ArchFlags(i.size, t.dev, 0) EXCEPT !.c = FALSE]
       /\ t.exc # "none" => t.rsp = s.rsp /\ t.writes = 0 /\ t.stack = s.stack
       /\ i.op = "push" /\ s.stackok => t.at = t.rsp % 2^i.stack /\ t.rsp = ArchWrite(s.rsp, i.stack, s.rsp - i.size)
       /\ i.op = "pop" /\ s.stackok => t.at = s.rsp % 2^i.stack /\ t.rsp = ArchWrite(s.rsp, i.stack, s.rsp + i.size)
=============================================================================
