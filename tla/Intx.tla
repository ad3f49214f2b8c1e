-------------------------------- MODULE Intx --------------------------------
(***************************************************************************)
(* Legacy PCI interrupts: a device thread asserts and deasserts its INTx   *)
(* line (pci_lintr_assert, pci_lintr_deassert), a vcpu enables MSI or      *)
(* MSI-X or sets INTxDIS and then has the line re-evaluated                *)
(* (pci_lintr_update), and another reroutes a PIRQ pin (pirq_write).  The  *)
(* line of a function has a lock, each PIRQ pin has one, and the IOAPIC is *)
(* driven after the latter is released.                                    *)
(***************************************************************************)
EXTENDS Integers, FiniteSets

CONSTANTS
  Devs,          \* the functions with an INTx pin
  PirqPin,       \* PirqPin[d]: the PIRQ pin of d, shared
  IoapicIrq,     \* IoapicIrq[d]: the IOAPIC pin of d
  MaskDevs,      \* the functions whose INTx the guest forbids and permits
  PirqRegs       \* values the guest writes to a PIRQ register: an irq, or 0 when
                 \* the pin is disabled or the irq is not permitted

ASSUME IntxAssumption == IsFiniteSet(Devs)

Pirqs == {PirqPin[d] : d \in Devs}
IrqNos == PirqRegs \ {0}
Pins == {IoapicIrq[d] : d \in Devs}
Threads == {"dev", "cfg"}       \* of each device

VARIABLES
  lintr,      \* pi_lintr.state
  held,       \* the thread that holds pi_lintr.lock, or "none"
  blocked,    \* what forbids INTx for d: "msi" (or MSI-X), "intxdis"
  reg, active,          \* the PIRQ pins
  ioapic, isa,          \* how often a pin, an irq is asserted
  at,         \* at[d][t]: what thread t of d is doing
  wanted      \* the device wants the line asserted

intxVars == <<lintr, held, blocked, reg, active, ioapic, isa, at, wanted>>

pirq_valid_irq(r) == r # 0

pci_lintr_permitted(d) == blocked[d] = {}

Bump(f, i, n) == [f EXCEPT ![i] = @ + n]

IntxInit ==
  /\ lintr = [d \in Devs |-> "IDLE"] /\ held = [d \in Devs |-> "none"]
  /\ blocked = [d \in Devs |-> {}] /\ wanted = [d \in Devs |-> FALSE]
  /\ reg \in [Pirqs -> PirqRegs \ {0}] /\ active = [p \in Pirqs |-> 0]
  /\ ioapic = [i \in Pins |-> 0] /\ isa = [i \in IrqNos |-> 0]
  /\ at = [d \in Devs |-> [t \in Threads |-> "idle"]]

Step(d, t, pc) == at' = [at EXCEPT ![d][t] = pc]

-----------------------------------------------------------------------------
\* The decision, under pi_lintr.lock.

Take(d, t) == held[d] = "none" /\ held' = [held EXCEPT ![d] = t]

pci_lintr_assert(d) ==
  /\ at[d]["dev"] = "idle" /\ held[d] = "none"
  /\ wanted' = [wanted EXCEPT ![d] = TRUE]
  /\ \/ /\ lintr[d] = "IDLE" /\ pci_lintr_permitted(d)
        /\ lintr' = [lintr EXCEPT ![d] = "ASSERTED"] /\ Take(d, "dev") /\ Step(d, "dev", "assert")
     \/ /\ lintr[d] = "IDLE" /\ ~ pci_lintr_permitted(d)
        /\ lintr' = [lintr EXCEPT ![d] = "PENDING"] /\ UNCHANGED <<held, at>>
  /\ UNCHANGED <<blocked, reg, active, ioapic, isa>>

pci_lintr_deassert(d) ==
  /\ at[d]["dev"] = "idle" /\ held[d] = "none" /\ lintr[d] # "IDLE"
  /\ wanted' = [wanted EXCEPT ![d] = FALSE]
  /\ lintr' = [lintr EXCEPT ![d] = "IDLE"]
  /\ \/ lintr[d] = "ASSERTED" /\ Take(d, "dev") /\ Step(d, "dev", "deassert")
     \/ lintr[d] = "PENDING" /\ UNCHANGED <<held, at>>
  /\ UNCHANGED <<blocked, reg, active, ioapic, isa>>

\* msicap_cfgwrite, msixcap_cfgwrite and pci_emul_cmdsts_write change what
\* pci_lintr_permitted reads, without the lock, and then call the update.
CfgWrite(d) ==
  \E b \in {"msi", "intxdis"} :
    /\ d \in MaskDevs /\ at[d]["cfg"] = "idle"
    /\ blocked' = [blocked EXCEPT ![d] = IF b \in @ THEN @ \ {b} ELSE @ \cup {b}]
    /\ Step(d, "cfg", "update")
    /\ UNCHANGED <<lintr, held, reg, active, ioapic, isa, wanted>>

pci_lintr_update(d) ==
  /\ at[d]["cfg"] = "update" /\ held[d] = "none"
  /\ \/ /\ lintr[d] = "ASSERTED" /\ ~ pci_lintr_permitted(d)
        /\ lintr' = [lintr EXCEPT ![d] = "PENDING"] /\ Take(d, "cfg") /\ Step(d, "cfg", "deassert")
     \/ /\ lintr[d] = "PENDING" /\ pci_lintr_permitted(d)
        /\ lintr' = [lintr EXCEPT ![d] = "ASSERTED"] /\ Take(d, "cfg") /\ Step(d, "cfg", "assert")
     \/ /\ lintr[d] = "IDLE" \/ (lintr[d] = "PENDING") # pci_lintr_permitted(d)
        /\ Step(d, "cfg", "idle") /\ UNCHANGED <<lintr, held>>
  /\ UNCHANGED <<blocked, reg, active, ioapic, isa, wanted>>

-----------------------------------------------------------------------------
\* The router, under the lock of the PIRQ pin; then perhaps the IOAPIC alone.

Done(d, t) == held' = [held EXCEPT ![d] = "none"] /\ Step(d, t, "idle")

\* The first asserts irq and pin together, the others only their pin.
pci_irq_assert(d, t) ==
  LET p == PirqPin[d]
  IN /\ at[d][t] = "assert"
     /\ active' = Bump(active, p, 1)
     /\ IF active[p] = 0 /\ pirq_valid_irq(reg[p])
        THEN isa' = Bump(isa, reg[p], 1) /\ ioapic' = Bump(ioapic, IoapicIrq[d], 1) /\ Done(d, t)
        ELSE Step(d, t, "pin+") /\ UNCHANGED <<isa, ioapic, held>>
     /\ UNCHANGED <<lintr, blocked, reg, wanted>>

pci_irq_deassert_Stays(d, t) ==   \* Faulty variant: the last one looks at the count before
  LET p == PirqPin[d]
  IN /\ at[d][t] = "deassert"
     /\ active' = Bump(active, p, -1)
     /\ IF active[p] = 0 /\ pirq_valid_irq(reg[p])
        THEN isa' = Bump(isa, reg[p], -1) /\ ioapic' = Bump(ioapic, IoapicIrq[d], -1) /\ Done(d, t)
        ELSE Step(d, t, "pin-") /\ UNCHANGED <<isa, ioapic, held>>
     /\ UNCHANGED <<lintr, blocked, reg, wanted>>

pci_irq_deassert(d, t) ==
  LET p == PirqPin[d]
  IN /\ at[d][t] = "deassert"
     /\ active' = Bump(active, p, -1)
     /\ IF active[p] = 1 /\ pirq_valid_irq(reg[p])
        THEN isa' = Bump(isa, reg[p], -1) /\ ioapic' = Bump(ioapic, IoapicIrq[d], -1) /\ Done(d, t)
        ELSE Step(d, t, "pin-") /\ UNCHANGED <<isa, ioapic, held>>
     /\ UNCHANGED <<lintr, blocked, reg, wanted>>

DrivePin(d, t) ==
  /\ at[d][t] \in {"pin+", "pin-"}
  /\ ioapic' = Bump(ioapic, IoapicIrq[d], IF at[d][t] = "pin+" THEN 1 ELSE -1)
  /\ Done(d, t)
  /\ UNCHANGED <<lintr, blocked, reg, active, isa, wanted>>

pirq_write(p, val) ==
  LET on == active[p] # 0
      off == IF on /\ pirq_valid_irq(reg[p]) THEN Bump(isa, reg[p], -1) ELSE isa
  IN /\ reg[p] # val
     /\ reg' = [reg EXCEPT ![p] = val]
     /\ isa' = IF on /\ pirq_valid_irq(val) THEN Bump(off, val, 1) ELSE off
     /\ UNCHANGED <<lintr, held, blocked, active, ioapic, at, wanted>>

IntxNext ==
  \/ \E d \in Devs : \/ pci_lintr_assert(d) \/ pci_lintr_deassert(d)
                     \/ CfgWrite(d) \/ pci_lintr_update(d)
                     \/ \E t \in Threads : \/ pci_irq_assert(d, t) \/ pci_irq_deassert(d, t)
                                           \/ DrivePin(d, t)
  \/ \E p \in Pirqs, val \in PirqRegs : pirq_write(p, val)

IntxSpec == IntxInit /\ [][IntxNext]_intxVars

-----------------------------------------------------------------------------
\* Whenever no thread of a function is inside the interrupt code, its line is
\* idle exactly when the device does not want it, asserted when INTx is
\* permitted and pending when it is not, however the two threads interleaved.
LineState ==
  \A d \in Devs :
    at[d]["dev"] = "idle" /\ at[d]["cfg"] = "idle" =>
      lintr[d] = (IF ~ wanted[d] THEN "IDLE" ELSE IF pci_lintr_permitted(d) THEN "ASSERTED" ELSE "PENDING")

Asserted(S) == Cardinality({d \in S : lintr[d] = "ASSERTED"})

\* Whenever nobody is inside the interrupt code, the controllers see what the
\* lines say: every IOAPIC pin and every ISA irq is asserted as often as there
\* are asserted lines, active PIRQ pins, behind it, across any rerouting.
ControllersFollow ==
  (\A d \in Devs, t \in Threads : at[d][t] \in {"idle", "update"}) =>
    /\ \A p \in Pirqs : active[p] = Asserted({d \in Devs : PirqPin[d] = p})
    /\ \A i \in Pins : ioapic[i] = Asserted({d \in Devs : IoapicIrq[d] = i})
    /\ \A q \in IrqNos : isa[q] = Cardinality({p \in Pirqs : active[p] > 0 /\ reg[p] = q})

IntxSound == LineState /\ ControllersFollow
=============================================================================
