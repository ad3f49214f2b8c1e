------------------------------- MODULE MCCpu --------------------------------
\* Small instances of the parts of Cpu.
EXTENDS Cpu

\* Every value of CR0 the processor would accept from the guest.
MCCr0Values == {v \in SUBSET {"NE", "ET", "NW", "CD", "PG", "PE", "TS"} :
                  ("PG" \in v => "PE" \in v) /\ ("NW" \in v => "CD" \in v)}

MCXcrValues == {{"X87"}, {"SSE"}, {"X87", "AVX"}, {"X87", "SSE", "AVX"}, {"X87", "SSE", "AVX", "OPMASK"},
                {"X87", "SSE", "AVX"} \cup AVX512, {"X87", "BNDREGS"}, {"X87", "PKRU"}}

\* Page tables that differ from the usual one in one bit of one level.
Usual == [l \in 1 .. 4 |-> Entry(TRUE, TRUE, TRUE, FALSE)]
MCTables == UNION {{[Usual EXCEPT ![l].v = FALSE], [Usual EXCEPT ![l].rw = FALSE], [Usual EXCEPT ![l].u = FALSE],
                    [Usual EXCEPT ![l].ps = TRUE], [Usual EXCEPT ![l].a = TRUE]} : l \in 1 .. 4}

\* Segments: the whole space, one to read only, one that expands down.
MCSegments == {[lo |-> 0, hi |-> 15, prot |-> {"r", "w"}, base |-> 0],
   [lo |-> 0, hi |-> 9, prot |-> {"r"}, base |-> 3],
   [lo |-> 6, hi |-> 15, prot |-> {"r","w"}, base |-> 12]}

MCImmediates == {0, 1, 6, -1}

\* Encodings: every shape of ModRM, SIB and displacement; prefixes; the sizes
\* outside 64-bit mode; and instructions without ModRM or with two byte opcodes.
Disps(base) == IF base \in {NoReg, RIP} THEN {<<5, 0, 0, 0>>, <<251, 255, 255, 255>>}
               ELSE {<<7>>, <<249>>, <<0, 1, 0, 0>>} \cup (IF base % 8 = 5 THEN {} ELSE {<<>>})
Form(mode, csd, pfx, w, op, modrm, reg, base, index, scale, disp, imm, os, as) ==
  [mode |-> mode, csd |-> csd, prefixes |-> pfx, w |-> w, op |-> op, modrm |-> modrm, reg |-> reg, base |-> base,
   index |-> index, scale |-> scale, disp |-> disp, imm |-> imm, opsize |-> os, addrsize |-> as]
Long == UNION {UNION {{Form("64", FALSE, <<>>, TRUE, <<139>>, TRUE, reg, base, ix[1], ix[2], d, <<>>, 8, 8) : d \in Disps(base)} :
   base \in {NoReg, RIP, 0, 4, 5, 12, 13}, ix \in {<<NoReg, 0>>, <<1, 2>>, <<12, 8>>}} : reg \in {2, 9}}
Known == {i \in Long : ~ (i.base = RIP /\ i.index # NoReg)}
Prefixed == {Form("64", FALSE, p[1], FALSE, <<199>>, TRUE, 0, 3, NoReg, 0, <<>>, p[2], p[3], p[4]) :
   p \in {<< <<>>, <<1,2,3,128>>, 4, 8>>, << <<102>>, <<1,128>>, 2, 8>>, << <<103, 46>>, <<1,2,3,4>>, 4, 4>>, << <<102, 103, 100>>, <<1, 2>>, 2, 4>>}}
Narrow == {Form("PROTECTED", p[1], p[2], FALSE, <<131>>, TRUE, 4, b, NoReg, 0, IF b = NoReg THEN <<1,1,0,0>> ELSE <<>>, <<200>>, p[3], p[4]) :
   b \in {NoReg, 3}, p \in {<<TRUE, <<>>, 4, 4>>, <<TRUE, <<102>>, 2, 4>>, <<FALSE, <<103>>, 2, 4>>, <<FALSE, <<103, 102>>, 4, 4>>}}
Direct == {Form("64", FALSE, <<>>, FALSE, <<161>>, FALSE, 0, NoReg, NoReg, 0, <<9,1,0,0,0,0,0,0>>, <<>>, 4, 8),
           Form("REAL", FALSE, <<>>, FALSE, <<163>>, FALSE, 0, NoReg, NoReg, 0, <<9,1>>, <<>>, 2, 2),
           Form("64", FALSE, <<243>>, FALSE, <<164>>, FALSE, 0, NoReg, NoReg, 0, <<>>, <<>>, 4, 8),
           Form("64", FALSE, <<>>, FALSE, <<15, 183>>, TRUE, 3, 6, NoReg, 0, <<>>, <<>>, 4, 8),
           Form("64", FALSE, <<>>, TRUE, <<15, 186>>, TRUE, 4, 6, NoReg, 0, <<>>, <<7>>, 8, 8)}
MCInstructions == Known \cup Prefixed \cup Narrow \cup Direct
=============================================================================
