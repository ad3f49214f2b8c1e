----------------------------- MODULE MCPlatform -----------------------------
(* Platform for TLC.                                                       *)
EXTENDS Platform

MCModes == {<<TRUE, FALSE>>, <<FALSE, FALSE>>}
MCIrqs == {<<0, 1>>, <<1, 1>>}
MCLevel == {<<1, 1>>}
MCBases == [i \in 0 .. 1 |-> (i + 1) * NPins]
MCHpetConfigs == {c \in HpetConfigs : /\ c.valset = c.periodic /\ (c.level \/ c.route # 0)
                                      /\ (c.fsb => c.level /\ c.route = 1)}

\* A pin of the I/O APIC as a line: Remote IRR is the outstanding interrupt.
Line == INSTANCE IrqLine WITH
  Lines <- Pins,
  line <- [p \in Pins |-> rtbl[p].acnt > 0],
  mask <- [p \in Pins |-> rtbl[p].mask \/ ~ rtbl[p].level],
  due <- [p \in Pins |-> rtbl[p].rirr]

\* The I/O APIC, with the local APICs' EOI broadcasts and the windows in which
\* vioapic_write does not hold its lock, implements IrqLine for its level
\* triggered pins: no assertion is lost and none is delivered twice.
LineRefined == Line!LineSpec
=============================================================================
