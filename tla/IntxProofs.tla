----------------------------- MODULE IntxProofs -----------------------------
(***************************************************************************)
(* Proofs about Intx, for any devices, router and pins: the counts of the  *)
(* router, the IOAPIC and the ISA lines are those of the lines that drive  *)
(* them, up to the one call that the holder of a line's lock is about to   *)
(* make.  IntxSound is what is left of that between calls.                 *)
(***************************************************************************)
EXTENDS Intx, FiniteSetTheorems, TLAPS

-----------------------------------------------------------------------------
(* Legacy interrupts.                                                      *)

InCode == {"assert", "deassert", "pin+", "pin-"}

IntxTypes ==
  /\ lintr \in [Devs -> {"IDLE", "ASSERTED", "PENDING"}]
  /\ held \in [Devs -> {"none", "dev", "cfg"}]
  /\ blocked \in [Devs -> SUBSET {"msi", "intxdis"}]
  /\ wanted \in [Devs -> BOOLEAN]
  /\ reg \in [Pirqs -> PirqRegs] /\ active \in [Pirqs -> Int]
  /\ ioapic \in [Pins -> Int] /\ isa \in [IrqNos -> Int]
  /\ at \in [Devs -> [Threads -> InCode \cup {"idle", "update"}]]

\* The holder of the lock of a line is the thread inside the interrupt code, and
\* it does what the state of the line says.  The state lags what pci_lintr_permitted
\* reads only until the update that is due.
LineInv(d) ==
  /\ \A t \in Threads : held[d] = t <=> at[d][t] \in InCode
  /\ at[d]["dev"] # "update"
  /\ wanted[d] <=> lintr[d] # "IDLE"
  /\ at[d]["cfg"] # "update" => /\ lintr[d] = "ASSERTED" => blocked[d] = {}
                                /\ lintr[d] = "PENDING" => blocked[d] # {}
  /\ \A t \in Threads : /\ at[d][t] \in {"assert", "pin+"} => lintr[d] = "ASSERTED"
                        /\ at[d][t] \in {"deassert", "pin-"} => lintr[d] # "ASSERTED"

\* The router has counted the line; the IOAPIC has.
Routed(d) == \/ lintr[d] = "ASSERTED" /\ \A t \in Threads : at[d][t] # "assert"
             \/ \E t \in Threads : at[d][t] = "deassert"
Driven(d) == \/ lintr[d] = "ASSERTED" /\ \A t \in Threads : at[d][t] \notin {"assert", "pin+"}
             \/ \E t \in Threads : at[d][t] \in {"deassert", "pin-"}

RoutedOn(p) == {d \in Devs : PirqPin[d] = p /\ Routed(d)}
DrivenOn(i) == {d \in Devs : IoapicIrq[d] = i /\ Driven(d)}
Firing(q) == {p \in Pirqs : active[p] > 0 /\ reg[p] = q}

ActiveInv == \A p \in Pirqs : active[p] = Cardinality(RoutedOn(p))
IoapicInv == \A i \in Pins : ioapic[i] = Cardinality(DrivenOn(i))
IsaInv == \A q \in IrqNos : isa[q] = Cardinality(Firing(q))

IntxInv == IntxTypes /\ (\A d \in Devs : LineInv(d)) /\ ActiveInv /\ IoapicInv /\ IsaInv

\* A set that gains or loses an element.
LEMMA OneMore ==
  ASSUME NEW S, NEW x, IsFiniteSet(S), x \notin S
  PROVE  Cardinality(S \cup {x}) = Cardinality(S) + 1
  BY FS_AddElement

\* A set that loses an element.
LEMMA OneLess ==
  ASSUME NEW S, NEW x, IsFiniteSet(S), x \in S
  PROVE  Cardinality(S \ {x}) = Cardinality(S) - 1
  BY FS_RemoveElement

\* The sets counted are finite.
LEMMA IntxFinite ==
  /\ \A p : IsFiniteSet(RoutedOn(p)) /\ IsFiniteSet(DrivenOn(p)) /\ IsFiniteSet(Firing(p))
  /\ \A p : Cardinality(RoutedOn(p)) \in Nat /\ Cardinality(DrivenOn(p)) \in Nat
<1> DEFINE f == [d \in Devs |-> PirqPin[d]]
<1>1. f \in Surjection(Devs, Pirqs)
  BY DEF Surjection, Pirqs
<1>2. IsFiniteSet(Pirqs)
  BY <1>1, IntxAssumption, FS_Surjection
<1>3. ASSUME NEW p PROVE IsFiniteSet(RoutedOn(p)) /\ IsFiniteSet(DrivenOn(p)) /\ IsFiniteSet(Firing(p))
  <2>1. RoutedOn(p) \in SUBSET Devs /\ DrivenOn(p) \in SUBSET Devs /\ Firing(p) \in SUBSET Pirqs
    BY DEF RoutedOn, DrivenOn, Firing
  <2> QED BY <1>2, <2>1, IntxAssumption, FS_Subset
<1> QED BY <1>3, FS_CardinalityType

\* The pins of a function.
LEMMA IntxPins == \A d \in Devs : PirqPin[d] \in Pirqs /\ IoapicIrq[d] \in Pins
  BY DEF Pirqs, Pins

-----------------------------------------------------------------------------

Positions == InCode \cup {"idle", "update"}

\* A thread moves to another position.
LEMMA StepType ==
  ASSUME at \in [Devs -> [Threads -> Positions]], NEW d \in Devs, NEW t \in Threads, NEW pc \in Positions,
         Step(d, t, pc)
  PROVE  at' \in [Devs -> [Threads -> Positions]]
  BY DEF Step

\* A count changes by one.
LEMMA BumpType ==
  ASSUME NEW S, NEW f \in [S -> Int], NEW i \in S, NEW n \in Int
  PROVE  Bump(f, i, n) \in [S -> Int]
  BY DEF Bump

\* The variables keep their types.
LEMMA IntxTypesStep ==
  ASSUME IntxInv, [IntxNext]_intxVars
  PROVE  IntxTypes'
<1> USE DEF IntxTypes
<1>0. IntxTypes
  BY DEF IntxInv
<1>a. /\ at \in [Devs -> [Threads -> Positions]]
      /\ {"idle", "update", "assert", "deassert", "pin+", "pin-"} = Positions /\ {"dev", "cfg"} = Threads
  BY <1>0 DEF Positions, InCode, Threads
<1>1. ASSUME NEW d \in Devs, pci_lintr_assert(d) PROVE IntxTypes'
  <2>1. at' \in [Devs -> [Threads -> Positions]]
    BY <1>a, <1>1, StepType DEF pci_lintr_assert
  <2>2. lintr' \in [Devs -> {"IDLE", "ASSERTED", "PENDING"}] /\ held' \in [Devs -> {"none", "dev", "cfg"}]
    BY <1>0, <1>a, <1>1, Zenon DEF pci_lintr_assert, Take, Done
  <2> QED BY <1>0, <1>1, <2>1, <2>2 DEF pci_lintr_assert, Positions
<1>2. ASSUME NEW d \in Devs, pci_lintr_deassert(d) PROVE IntxTypes'
  <2>1. at' \in [Devs -> [Threads -> Positions]]
    BY <1>a, <1>2, StepType DEF pci_lintr_deassert
  <2>2. lintr' \in [Devs -> {"IDLE", "ASSERTED", "PENDING"}] /\ held' \in [Devs -> {"none", "dev", "cfg"}]
    BY <1>0, <1>a, <1>2 DEF pci_lintr_deassert, Take, Done
  <2> QED BY <1>0, <1>2, <2>1, <2>2 DEF pci_lintr_deassert, Positions
<1>3. ASSUME NEW d \in Devs, CfgWrite(d) PROVE IntxTypes'
  BY <1>0, <1>3 DEF CfgWrite, Step, Threads
<1>4. ASSUME NEW d \in Devs, pci_lintr_update(d) PROVE IntxTypes'
  <2>1. at' \in [Devs -> [Threads -> Positions]]
    BY <1>a, <1>4, StepType DEF pci_lintr_update
  <2>2. lintr' \in [Devs -> {"IDLE", "ASSERTED", "PENDING"}] /\ held' \in [Devs -> {"none", "dev", "cfg"}]
    BY <1>0, <1>a, <1>4, Zenon DEF pci_lintr_update, Take, Done
  <2> QED BY <1>0, <1>4, <2>1, <2>2 DEF pci_lintr_update, Positions
<1>5. ASSUME NEW d \in Devs, NEW t \in Threads, pci_irq_assert(d, t) PROVE IntxTypes'
  <2>1. at' \in [Devs -> [Threads -> Positions]]
    BY <1>a, <1>5, StepType DEF pci_irq_assert, Done
  <2>2. held' \in [Devs -> {"none", "dev", "cfg"}]
    BY <1>0, <1>5, Zenon DEF pci_irq_assert, Done
  <2>3. PirqPin[d] \in Pirqs /\ IoapicIrq[d] \in Pins
    BY IntxPins
  <2>4. active' = Bump(active, PirqPin[d], 1)
    BY <1>5, Zenon DEF pci_irq_assert
  <2>5. active' \in [Pirqs -> Int]
    BY <1>0, <2>3, <2>4 DEF Bump
  <2>6. ASSUME active[PirqPin[d]] = 0 /\ pirq_valid_irq(reg[PirqPin[d]])
        PROVE  isa' \in [IrqNos -> Int] /\ ioapic' \in [Pins -> Int]
    <3>1. isa' = Bump(isa, reg[PirqPin[d]], 1) /\ ioapic' = Bump(ioapic, IoapicIrq[d], 1)
      BY <1>5, <2>6, Zenon DEF pci_irq_assert
    <3>2. reg[PirqPin[d]] \in IrqNos
      BY <1>0, <2>3, <2>6 DEF pirq_valid_irq, IrqNos
    <3> QED BY <1>0, <2>3, <3>1, <3>2 DEF Bump
  <2>7. ASSUME ~ (active[PirqPin[d]] = 0 /\ pirq_valid_irq(reg[PirqPin[d]]))
        PROVE  isa' = isa /\ ioapic' = ioapic
    BY <1>0, <1>5, <2>7, Zenon DEF pci_irq_assert
  <2>8. isa' \in [IrqNos -> Int] /\ ioapic' \in [Pins -> Int]
    BY <1>0, <2>6, <2>7
  <2> QED BY <1>0, <1>5, <2>1, <2>2, <2>5, <2>8 DEF pci_irq_assert, Positions
<1>6. ASSUME NEW d \in Devs, NEW t \in Threads, pci_irq_deassert(d, t) PROVE IntxTypes'
  <2>1. at' \in [Devs -> [Threads -> Positions]]
    BY <1>a, <1>6, StepType DEF pci_irq_deassert, Done
  <2>2. held' \in [Devs -> {"none", "dev", "cfg"}]
    BY <1>0, <1>6, Zenon DEF pci_irq_deassert, Done
  <2>3. PirqPin[d] \in Pirqs /\ IoapicIrq[d] \in Pins
    BY IntxPins
  <2>4. active' = Bump(active, PirqPin[d], -1)
    BY <1>6, Zenon DEF pci_irq_deassert
  <2>5. active' \in [Pirqs -> Int]
    BY <1>0, <2>3, <2>4 DEF Bump
  <2>6. ASSUME active[PirqPin[d]] = 1 /\ pirq_valid_irq(reg[PirqPin[d]])
        PROVE  isa' \in [IrqNos -> Int] /\ ioapic' \in [Pins -> Int]
    <3>1. isa' = Bump(isa, reg[PirqPin[d]], -1) /\ ioapic' = Bump(ioapic, IoapicIrq[d], -1)
      BY <1>6, <2>6, Zenon DEF pci_irq_deassert
    <3>2. reg[PirqPin[d]] \in IrqNos
      BY <1>0, <2>3, <2>6 DEF pirq_valid_irq, IrqNos
    <3> QED BY <1>0, <2>3, <3>1, <3>2 DEF Bump
  <2>7. ASSUME ~ (active[PirqPin[d]] = 1 /\ pirq_valid_irq(reg[PirqPin[d]]))
        PROVE  isa' = isa /\ ioapic' = ioapic
    BY <1>0, <1>6, <2>7, Zenon DEF pci_irq_deassert
  <2>8. isa' \in [IrqNos -> Int] /\ ioapic' \in [Pins -> Int]
    BY <1>0, <2>6, <2>7
  <2> QED BY <1>0, <1>6, <2>1, <2>2, <2>5, <2>8 DEF pci_irq_deassert, Positions
<1>7. ASSUME NEW d \in Devs, NEW t \in Threads, DrivePin(d, t) PROVE IntxTypes'
  BY <1>0, <1>7, IntxPins DEF DrivePin, Step, Done, Bump, Threads
<1>8. ASSUME NEW p \in Pirqs, NEW val \in PirqRegs, pirq_write(p, val) PROVE IntxTypes'
  BY <1>0, <1>8 DEF pirq_write, Bump, pirq_valid_irq, IrqNos
<1>9. CASE UNCHANGED intxVars
  BY <1>0, <1>9 DEF intxVars
<1> QED BY <1>1, <1>2, <1>3, <1>4, <1>5, <1>6, <1>7, <1>8, <1>9 DEF IntxNext

\* However the threads of a function interleave, the line keeps to its lock.
LEMMA LineStep ==
  ASSUME IntxInv, [IntxNext]_intxVars, NEW e \in Devs
  PROVE  LineInv(e)'
<1> USE DEF Threads, InCode
<1>0. IntxTypes /\ LineInv(e) /\ \A d \in Devs : LineInv(d)
  BY DEF IntxInv
<1>1. ASSUME NEW d \in Devs, pci_lintr_assert(d) PROVE LineInv(e)'
  BY <1>0, <1>1 DEF IntxTypes, LineInv, pci_lintr_assert, pci_lintr_permitted, Take, Step
<1>2. ASSUME NEW d \in Devs, pci_lintr_deassert(d) PROVE LineInv(e)'
  BY <1>0, <1>2 DEF IntxTypes, LineInv, pci_lintr_deassert, Take, Step
<1>3. ASSUME NEW d \in Devs, CfgWrite(d) PROVE LineInv(e)'
  BY <1>0, <1>3 DEF IntxTypes, LineInv, CfgWrite, Step
<1>4. ASSUME NEW d \in Devs, pci_lintr_update(d) PROVE LineInv(e)'
  BY <1>0, <1>4 DEF IntxTypes, LineInv, pci_lintr_update, pci_lintr_permitted, Take, Step
<1>5. ASSUME NEW d \in Devs, NEW t \in Threads, pci_irq_assert(d, t) PROVE LineInv(e)'
  BY <1>0, <1>5 DEF IntxTypes, LineInv, pci_irq_assert, Step, Done
<1>6. ASSUME NEW d \in Devs, NEW t \in Threads, pci_irq_deassert(d, t) PROVE LineInv(e)'
  BY <1>0, <1>6 DEF IntxTypes, LineInv, pci_irq_deassert, Step, Done
<1>7. ASSUME NEW d \in Devs, NEW t \in Threads, DrivePin(d, t) PROVE LineInv(e)'
  BY <1>0, <1>7 DEF IntxTypes, LineInv, DrivePin, Step, Done
<1>8. ASSUME NEW p \in Pirqs, NEW val \in PirqRegs, pirq_write(p, val) PROVE LineInv(e)'
  BY <1>0, <1>8 DEF LineInv, pirq_write
<1>9. CASE UNCHANGED intxVars
  BY <1>0, <1>9 DEF LineInv, intxVars
<1> QED BY <1>1, <1>2, <1>3, <1>4, <1>5, <1>6, <1>7, <1>8, <1>9 DEF IntxNext

-----------------------------------------------------------------------------

\* The counts of the router and of the IOAPIC follow a line that changes.
LEMMA CountsFollow ==
  ASSUME IntxInv, NEW d \in Devs
  PROVE  /\ (\A e \in Devs : Routed(e)' <=> Routed(e)) /\ active' = active => ActiveInv'
         /\ (\A e \in Devs : Driven(e)' <=> Driven(e)) /\ ioapic' = ioapic => IoapicInv'
         /\ /\ ~ Routed(d) /\ Routed(d)' /\ \A e \in Devs \ {d} : Routed(e)' <=> Routed(e)
            /\ active' = Bump(active, PirqPin[d], 1)
            => ActiveInv'
         /\ /\ ~ Driven(d) /\ Driven(d)' /\ \A e \in Devs \ {d} : Driven(e)' <=> Driven(e)
            /\ ioapic' = Bump(ioapic, IoapicIrq[d], 1)
            => IoapicInv'
         /\ /\ Routed(d) /\ ~ Routed(d)' /\ \A e \in Devs \ {d} : Routed(e)' <=> Routed(e)
            /\ active' = Bump(active, PirqPin[d], -1)
            => ActiveInv'
         /\ /\ Driven(d) /\ ~ Driven(d)' /\ \A e \in Devs \ {d} : Driven(e)' <=> Driven(e)
            /\ ioapic' = Bump(ioapic, IoapicIrq[d], -1)
            => IoapicInv'
<1> DEFINE p == PirqPin[d]
           i == IoapicIrq[d]
<1>0. /\ active \in [Pirqs -> Int] /\ ioapic \in [Pins -> Int] /\ p \in Pirqs /\ i \in Pins
      /\ ActiveInv /\ IoapicInv
  BY IntxPins DEF IntxInv, IntxTypes
<1>1. ASSUME \A e \in Devs : Routed(e)' <=> Routed(e), active' = active
      PROVE  ActiveInv'
  <2>1. \A q : RoutedOn(q)' = RoutedOn(q)
    BY <1>1 DEF RoutedOn
  <2> QED BY <1>0, <1>1, <2>1 DEF ActiveInv
<1>2. ASSUME \A e \in Devs : Driven(e)' <=> Driven(e), ioapic' = ioapic
      PROVE  IoapicInv'
  <2>1. \A q : DrivenOn(q)' = DrivenOn(q)
    BY <1>2 DEF DrivenOn
  <2> QED BY <1>0, <1>2, <2>1 DEF IoapicInv
<1>3. ASSUME ~ Routed(d), Routed(d)', \A e \in Devs \ {d} : Routed(e)' <=> Routed(e),
             active' = Bump(active, p, 1)
      PROVE  ActiveInv'
  <2>1. RoutedOn(p)' = RoutedOn(p) \cup {d} /\ d \notin RoutedOn(p)
    BY <1>3 DEF RoutedOn
  <2>2. \A q \in Pirqs \ {p} : RoutedOn(q)' = RoutedOn(q)
    BY <1>3 DEF RoutedOn
  <2>3. Cardinality(RoutedOn(p)') = Cardinality(RoutedOn(p)) + 1
    BY <2>1, OneMore, IntxFinite
  <2>4. active'[p] = active[p] + 1 /\ \A q \in Pirqs \ {p} : active'[q] = active[q]
    BY <1>0, <1>3 DEF Bump
  <2> QED BY <1>0, <2>2, <2>3, <2>4 DEF ActiveInv
<1>4. ASSUME ~ Driven(d), Driven(d)', \A e \in Devs \ {d} : Driven(e)' <=> Driven(e),
             ioapic' = Bump(ioapic, i, 1)
      PROVE  IoapicInv'
  <2>1. DrivenOn(i)' = DrivenOn(i) \cup {d} /\ d \notin DrivenOn(i)
    BY <1>4 DEF DrivenOn
  <2>2. \A q \in Pins \ {i} : DrivenOn(q)' = DrivenOn(q)
    BY <1>4 DEF DrivenOn
  <2>3. Cardinality(DrivenOn(i)') = Cardinality(DrivenOn(i)) + 1
    BY <2>1, OneMore, IntxFinite
  <2>4. ioapic'[i] = ioapic[i] + 1 /\ \A q \in Pins \ {i} : ioapic'[q] = ioapic[q]
    BY <1>0, <1>4 DEF Bump
  <2> QED BY <1>0, <2>2, <2>3, <2>4 DEF IoapicInv
<1>5. ASSUME Routed(d), ~ Routed(d)', \A e \in Devs \ {d} : Routed(e)' <=> Routed(e),
             active' = Bump(active, p, -1)
      PROVE  ActiveInv'
  <2>1. RoutedOn(p)' = RoutedOn(p) \ {d} /\ d \in RoutedOn(p)
    BY <1>5 DEF RoutedOn
  <2>2. \A q \in Pirqs \ {p} : RoutedOn(q)' = RoutedOn(q)
    BY <1>5 DEF RoutedOn
  <2>3. Cardinality(RoutedOn(p)') = Cardinality(RoutedOn(p)) - 1
    BY <2>1, OneLess, IntxFinite
  <2>4. active'[p] = active[p] - 1 /\ \A q \in Pirqs \ {p} : active'[q] = active[q]
    BY <1>0, <1>5 DEF Bump
  <2> QED BY <1>0, <2>2, <2>3, <2>4 DEF ActiveInv
<1>6. ASSUME Driven(d), ~ Driven(d)', \A e \in Devs \ {d} : Driven(e)' <=> Driven(e),
             ioapic' = Bump(ioapic, i, -1)
      PROVE  IoapicInv'
  <2>1. DrivenOn(i)' = DrivenOn(i) \ {d} /\ d \in DrivenOn(i)
    BY <1>6 DEF DrivenOn
  <2>2. \A q \in Pins \ {i} : DrivenOn(q)' = DrivenOn(q)
    BY <1>6 DEF DrivenOn
  <2>3. Cardinality(DrivenOn(i)') = Cardinality(DrivenOn(i)) - 1
    BY <2>1, OneLess, IntxFinite
  <2>4. ioapic'[i] = ioapic[i] - 1 /\ \A q \in Pins \ {i} : ioapic'[q] = ioapic[q]
    BY <1>0, <1>6 DEF Bump
  <2> QED BY <1>0, <2>2, <2>3, <2>4 DEF IoapicInv
<1> QED BY <1>1, <1>2, <1>3, <1>4, <1>5, <1>6, Zenon

\* The ISA irqs follow the PIRQ pins.
LEMMA IsaFollows ==
  ASSUME IntxInv, NEW p \in Pirqs, reg' = reg
  PROVE  /\ (\A q \in Pirqs : active'[q] > 0 <=> active[q] > 0) /\ isa' = isa => IsaInv'
         /\ /\ \A q \in Pirqs \ {p} : active'[q] = active[q]
            /\ reg[p] = 0 /\ isa' = isa
            => IsaInv'
         /\ /\ \A q \in Pirqs \ {p} : active'[q] = active[q]
            /\ reg[p] \in IrqNos /\ ~ active[p] > 0 /\ active'[p] > 0 /\ isa' = Bump(isa, reg[p], 1)
            => IsaInv'
         /\ /\ \A q \in Pirqs \ {p} : active'[q] = active[q]
            /\ reg[p] \in IrqNos /\ active[p] > 0 /\ ~ active'[p] > 0 /\ isa' = Bump(isa, reg[p], -1)
            => IsaInv'
<1> DEFINE r == reg[p]
<1>0. isa \in [IrqNos -> Int] /\ IsaInv
  BY DEF IntxInv, IntxTypes
<1>1. ASSUME \A q \in Pirqs : active'[q] > 0 <=> active[q] > 0, isa' = isa
      PROVE  IsaInv'
  <2>1. \A q : Firing(q)' = Firing(q)
    BY <1>1 DEF Firing
  <2> QED BY <1>0, <1>1, <2>1 DEF IsaInv
<1>2. ASSUME \A q \in Pirqs \ {p} : active'[q] = active[q], reg[p] = 0, isa' = isa
      PROVE  IsaInv'
  <2>1. \A q \in IrqNos : Firing(q)' = Firing(q)
    BY <1>2 DEF Firing, IrqNos
  <2> QED BY <1>0, <1>2, <2>1 DEF IsaInv
<1>3. ASSUME \A q \in Pirqs \ {p} : active'[q] = active[q], r \in IrqNos,
             ~ active[p] > 0, active'[p] > 0, isa' = Bump(isa, r, 1)
      PROVE  IsaInv'
  <2>1. Firing(r)' = Firing(r) \cup {p} /\ p \notin Firing(r)
    BY <1>3 DEF Firing
  <2>2. \A q \in IrqNos \ {r} : Firing(q)' = Firing(q)
    BY <1>3 DEF Firing
  <2>3. Cardinality(Firing(r)') = Cardinality(Firing(r)) + 1
    BY <2>1, OneMore, IntxFinite
  <2>4. isa'[r] = isa[r] + 1 /\ \A q \in IrqNos \ {r} : isa'[q] = isa[q]
    BY <1>0, <1>3 DEF Bump
  <2> QED BY <1>0, <1>3, <2>2, <2>3, <2>4 DEF IsaInv
<1>4. ASSUME \A q \in Pirqs \ {p} : active'[q] = active[q], r \in IrqNos,
             active[p] > 0, ~ active'[p] > 0, isa' = Bump(isa, r, -1)
      PROVE  IsaInv'
  <2>1. Firing(r)' = Firing(r) \ {p} /\ p \in Firing(r)
    BY <1>4 DEF Firing
  <2>2. \A q \in IrqNos \ {r} : Firing(q)' = Firing(q)
    BY <1>4 DEF Firing
  <2>3. Cardinality(Firing(r)') = Cardinality(Firing(r)) - 1
    BY <2>1, OneLess, IntxFinite
  <2>4. isa'[r] = isa[r] - 1 /\ \A q \in IrqNos \ {r} : isa'[q] = isa[q]
    BY <1>0, <1>4 DEF Bump
  <2> QED BY <1>0, <1>4, <2>2, <2>3, <2>4 DEF IsaInv
<1> QED BY <1>1, <1>2, <1>3, <1>4, Zenon

\* pirq_write moves an active pin from its old irq to the new one.
LEMMA RerouteStep ==
  ASSUME IntxInv, NEW p \in Pirqs, NEW val \in PirqRegs, pirq_write(p, val)
  PROVE  ActiveInv' /\ IoapicInv' /\ IsaInv'
<1> DEFINE r == reg[p]
           on == active[p] # 0
           off == IF on /\ r # 0 THEN Bump(isa, r, -1) ELSE isa
<1>0. /\ isa \in [IrqNos -> Int] /\ reg \in [Pirqs -> PirqRegs] /\ active \in [Pirqs -> Int]
      /\ ActiveInv /\ IoapicInv /\ IsaInv
  BY DEF IntxInv, IntxTypes
<1>1. /\ r # val /\ reg' = [reg EXCEPT ![p] = val]
      /\ isa' = IF on /\ val # 0 THEN Bump(off, val, 1) ELSE off
      /\ UNCHANGED <<lintr, active, ioapic, at>>
  BY Zenon DEF pirq_write, pirq_valid_irq
<1>2. ActiveInv' /\ IoapicInv'
  <2>1. \A q : RoutedOn(q)' = RoutedOn(q) /\ DrivenOn(q)' = DrivenOn(q)
    BY <1>1 DEF RoutedOn, DrivenOn, Routed, Driven
  <2> QED BY <1>0, <1>1, <2>1 DEF ActiveInv, IoapicInv
<1>3. on <=> active[p] > 0
  BY <1>0, IntxFinite DEF ActiveInv
<1>4. /\ reg'[p] = val /\ \A q \in Pirqs \ {p} : reg'[q] = reg[q]
      /\ r \in PirqRegs
  BY <1>0, <1>1
<1>5. \A q \in IrqNos : off[q] = isa[q] - IF on /\ r = q THEN 1 ELSE 0
  BY <1>0, <1>4 DEF Bump, IrqNos
<1>6. off \in [IrqNos -> Int]
  BY <1>0, <1>4 DEF Bump, IrqNos
<1>7. \A q \in IrqNos : isa'[q] = (isa[q] - IF on /\ r = q THEN 1 ELSE 0) + IF on /\ val = q THEN 1 ELSE 0
  <2> HIDE DEF off, on, r
  <2> QED BY <1>0, <1>1, <1>5, <1>6 DEF Bump, IrqNos
<1>8. ASSUME NEW q \in IrqNos PROVE isa'[q] = Cardinality(Firing(q)')
  <2>1. IsFiniteSet(Firing(q)) /\ isa[q] = Cardinality(Firing(q)) /\ isa[q] \in Int
    BY <1>0, IntxFinite DEF IsaInv
  <2>2. CASE on /\ r = q
    <3>1. Firing(q)' = Firing(q) \ {p} /\ p \in Firing(q)
      BY <1>1, <1>3, <1>4, <2>2 DEF Firing
    <3>2. Cardinality(Firing(q)') = Cardinality(Firing(q)) - 1
      BY <2>1, <3>1, OneLess
    <3> QED BY <1>1, <1>7, <2>1, <2>2, <3>2
  <2>3. CASE on /\ val = q
    <3>1. Firing(q)' = Firing(q) \cup {p} /\ p \notin Firing(q)
      BY <1>1, <1>3, <1>4, <2>3 DEF Firing
    <3>2. Cardinality(Firing(q)') = Cardinality(Firing(q)) + 1
      BY <2>1, <3>1, OneMore
    <3> QED BY <1>1, <1>7, <2>1, <2>3, <3>2
  <2>4. CASE ~ on \/ (r # q /\ val # q)
    <3>1. Firing(q)' = Firing(q)
      BY <1>1, <1>3, <1>4, <2>4 DEF Firing
    <3> QED BY <1>7, <2>1, <2>4, <3>1
  <2> QED BY <2>2, <2>3, <2>4
<1> QED BY <1>2, <1>8 DEF IsaInv

\* The counts of router, IOAPIC and ISA irqs stay exact.
LEMMA CountsStep ==
  ASSUME IntxInv, [IntxNext]_intxVars
  PROVE  ActiveInv' /\ IoapicInv' /\ IsaInv'
<1>0. IntxTypes /\ (\A d \in Devs : LineInv(d)) /\ ActiveInv /\ IoapicInv /\ IsaInv
  BY DEF IntxInv
<1>1. ASSUME NEW d \in Devs,
             pci_lintr_assert(d) \/ pci_lintr_deassert(d) \/ CfgWrite(d) \/ pci_lintr_update(d)
      PROVE  ActiveInv' /\ IoapicInv' /\ IsaInv'
  <2>1. UNCHANGED <<reg, active, ioapic, isa>>
    BY <1>1, Zenon DEF pci_lintr_assert, pci_lintr_deassert, CfgWrite, pci_lintr_update
  <2>3. \A e \in Devs : (Routed(e)' <=> Routed(e)) /\ (Driven(e)' <=> Driven(e))
    <3> SUFFICES ASSUME NEW e \in Devs PROVE (Routed(e)' <=> Routed(e)) /\ (Driven(e)' <=> Driven(e))
      OBVIOUS
    <3> USE DEF IntxTypes, LineInv, InCode, Threads, Routed, Driven, Step, Take
    <3>1. CASE pci_lintr_assert(d)
      BY <1>0, <3>1 DEF pci_lintr_assert
    <3>2. CASE pci_lintr_deassert(d)
      BY <1>0, <3>2 DEF pci_lintr_deassert
    <3>3. CASE CfgWrite(d)
      BY <1>0, <3>3 DEF CfgWrite
    <3>4. CASE pci_lintr_update(d)
      BY <1>0, <3>4 DEF pci_lintr_update
    <3> QED BY <1>1, <3>1, <3>2, <3>3, <3>4
  <2> QED BY <2>1, <2>3, CountsFollow, IsaFollows, IntxPins
<1>2. ASSUME NEW d \in Devs, NEW t \in Threads, pci_irq_assert(d, t)
      PROVE  ActiveInv' /\ IoapicInv' /\ IsaInv'
  <2> DEFINE p == PirqPin[d]
             both == active[p] = 0 /\ reg[p] # 0
  <2>0. p \in Pirqs /\ active[p] \in Nat /\ reg[p] \in PirqRegs
    BY <1>0, IntxPins, IntxFinite DEF ActiveInv, IntxTypes
  <2>1. /\ active' = Bump(active, p, 1) /\ reg' = reg
        /\ both => isa' = Bump(isa, reg[p], 1) /\ ioapic' = Bump(ioapic, IoapicIrq[d], 1)
        /\ ~ both => isa' = isa /\ ioapic' = ioapic
    BY <1>2, Zenon DEF pci_irq_assert, pirq_valid_irq
  <2>2. active'[p] = active[p] + 1 /\ \A q \in Pirqs \ {p} : active'[q] = active[q]
    BY <1>0, <2>0, <2>1 DEF Bump, IntxTypes
  <2>3. ActiveInv'
    <3>1. ~ Routed(d) /\ Routed(d)' /\ \A e \in Devs \ {d} : Routed(e)' <=> Routed(e)
      BY <1>0, <1>2 DEF IntxTypes, LineInv, InCode, Threads, Routed, Step, Done, pci_irq_assert
    <3> QED BY <2>1, <3>1, CountsFollow
  <2>4. IoapicInv'
    <3>1. CASE both
      <4>1. ~ Driven(d) /\ Driven(d)' /\ \A e \in Devs \ {d} : Driven(e)' <=> Driven(e)
        BY <1>0, <1>2, <3>1 DEF IntxTypes, LineInv, InCode, Threads, Driven, Step, Done, pci_irq_assert, pirq_valid_irq
      <4> QED BY <2>1, <3>1, <4>1, CountsFollow
    <3>2. CASE ~ both
      <4>1. \A e \in Devs : Driven(e)' <=> Driven(e)
        BY <1>0, <1>2, <3>2 DEF IntxTypes, LineInv, InCode, Threads, Driven, Step, Done, pci_irq_assert, pirq_valid_irq
      <4> QED BY <2>1, <3>2, <4>1, CountsFollow
    <3> QED BY <3>1, <3>2
  <2>5. IsaInv'
    <3>1. CASE both
      <4>1. reg[p] \in IrqNos /\ ~ active[p] > 0 /\ active'[p] > 0
        BY <2>0, <2>2, <3>1 DEF IrqNos
      <4> QED BY <2>0, <2>1, <2>2, <3>1, <4>1, IsaFollows
    <3>2. CASE reg[p] = 0
      BY <2>0, <2>1, <2>2, <3>2, IsaFollows
    <3>3. CASE active[p] # 0
      <4>1. \A q \in Pirqs : active'[q] > 0 <=> active[q] > 0
        BY <2>0, <2>2, <3>3
      <4> QED BY <2>0, <2>1, <3>3, <4>1, IsaFollows
    <3> QED BY <3>1, <3>2, <3>3
  <2> QED BY <2>3, <2>4, <2>5
<1>3. ASSUME NEW d \in Devs, NEW t \in Threads, pci_irq_deassert(d, t)
      PROVE  ActiveInv' /\ IoapicInv' /\ IsaInv'
  <2> DEFINE p == PirqPin[d]
             both == active[p] = 1 /\ reg[p] # 0
  <2>a. Routed(d) /\ ~ Routed(d)' /\ \A e \in Devs \ {d} : Routed(e)' <=> Routed(e)
    BY <1>0, <1>3 DEF IntxTypes, LineInv, InCode, Threads, Routed, Step, Done, pci_irq_deassert
  <2>0. p \in Pirqs /\ active[p] \in Nat /\ active[p] > 0 /\ reg[p] \in PirqRegs
    <3>1. d \in RoutedOn(p)
      BY <2>a DEF RoutedOn
    <3>2. Cardinality(RoutedOn(p)) # 0
      BY <3>1, IntxFinite, FS_EmptySet
    <3> QED BY <1>0, <3>2, IntxPins, IntxFinite DEF ActiveInv, IntxTypes
  <2>1. /\ active' = Bump(active, p, -1) /\ reg' = reg
        /\ both => isa' = Bump(isa, reg[p], -1) /\ ioapic' = Bump(ioapic, IoapicIrq[d], -1)
        /\ ~ both => isa' = isa /\ ioapic' = ioapic
    BY <1>3, Zenon DEF pci_irq_deassert, pirq_valid_irq
  <2>2. active'[p] = active[p] - 1 /\ \A q \in Pirqs \ {p} : active'[q] = active[q]
    BY <1>0, <2>0, <2>1 DEF Bump, IntxTypes
  <2>3. ActiveInv'
    BY <2>1, <2>a, CountsFollow
  <2>4. IoapicInv'
    <3>1. CASE both
      <4>1. Driven(d) /\ ~ Driven(d)' /\ \A e \in Devs \ {d} : Driven(e)' <=> Driven(e)
        BY <1>0, <1>3, <3>1 DEF IntxTypes, LineInv, InCode, Threads, Driven, Step, Done, pci_irq_deassert, pirq_valid_irq
      <4> QED BY <2>1, <3>1, <4>1, CountsFollow
    <3>2. CASE ~ both
      <4>1. \A e \in Devs : Driven(e)' <=> Driven(e)
        BY <1>0, <1>3, <3>2 DEF IntxTypes, LineInv, InCode, Threads, Driven, Step, Done, pci_irq_deassert, pirq_valid_irq
      <4> QED BY <2>1, <3>2, <4>1, CountsFollow
    <3> QED BY <3>1, <3>2
  <2>5. IsaInv'
    <3>1. CASE both
      <4>1. reg[p] \in IrqNos /\ active[p] > 0 /\ ~ active'[p] > 0
        BY <2>0, <2>2, <3>1 DEF IrqNos
      <4> QED BY <2>0, <2>1, <2>2, <3>1, <4>1, IsaFollows
    <3>2. CASE reg[p] = 0
      BY <2>0, <2>1, <2>2, <3>2, IsaFollows
    <3>3. CASE active[p] # 1
      <4>1. \A q \in Pirqs : active'[q] > 0 <=> active[q] > 0
        BY <2>0, <2>2, <3>3
      <4> QED BY <2>0, <2>1, <3>3, <4>1, IsaFollows
    <3> QED BY <3>1, <3>2, <3>3
  <2> QED BY <2>3, <2>4, <2>5
<1>4. ASSUME NEW d \in Devs, NEW t \in Threads, DrivePin(d, t)
      PROVE  ActiveInv' /\ IoapicInv' /\ IsaInv'
  <2>1. UNCHANGED <<reg, active, isa>>
    BY <1>4 DEF DrivePin
  <2>2. \A e \in Devs : Routed(e)' <=> Routed(e)
    BY <1>0, <1>4 DEF IntxTypes, LineInv, InCode, Threads, Routed, Step, Done, DrivePin
  <2>3. CASE at[d][t] = "pin+"
    <3>1. ~ Driven(d) /\ Driven(d)' /\ \A e \in Devs \ {d} : Driven(e)' <=> Driven(e)
      BY <1>0, <1>4, <2>3 DEF IntxTypes, LineInv, InCode, Threads, Driven, Step, Done, DrivePin
    <3>2. ioapic' = Bump(ioapic, IoapicIrq[d], 1)
      BY <1>4, <2>3 DEF DrivePin
    <3> QED BY <2>1, <2>2, <3>1, <3>2, CountsFollow, IsaFollows, IntxPins
  <2>4. CASE at[d][t] = "pin-"
    <3>1. Driven(d) /\ ~ Driven(d)' /\ \A e \in Devs \ {d} : Driven(e)' <=> Driven(e)
      BY <1>0, <1>4, <2>4 DEF IntxTypes, LineInv, InCode, Threads, Driven, Step, Done, DrivePin
    <3>2. ioapic' = Bump(ioapic, IoapicIrq[d], -1)
      BY <1>4, <2>4 DEF DrivePin
    <3> QED BY <2>1, <2>2, <3>1, <3>2, CountsFollow, IsaFollows, IntxPins, Zenon
  <2> QED BY <1>4, <2>3, <2>4 DEF DrivePin
<1>5. ASSUME NEW p \in Pirqs, NEW val \in PirqRegs, pirq_write(p, val)
      PROVE  ActiveInv' /\ IoapicInv' /\ IsaInv'
  BY <1>5, RerouteStep
<1>6. CASE UNCHANGED intxVars
  BY <1>0, <1>6 DEF intxVars, ActiveInv, IoapicInv, IsaInv, RoutedOn, DrivenOn, Routed, Driven, Firing
<1> QED BY <1>1, <1>2, <1>3, <1>4, <1>5, <1>6 DEF IntxNext

\* The invariant holds at the start.
LEMMA IntxInitInv == IntxInit => IntxInv
<1> SUFFICES ASSUME IntxInit PROVE IntxInv
  OBVIOUS
<1>1. IntxTypes
  BY DEF IntxInit, IntxTypes, Threads
<1>2. \A d \in Devs : LineInv(d)
  BY DEF IntxInit, LineInv, InCode, Threads
<1>3. \A d \in Devs : ~ Routed(d) /\ ~ Driven(d)
  BY DEF IntxInit, Routed, Driven, Threads
<1>4. \A q : RoutedOn(q) = {} /\ DrivenOn(q) = {} /\ Firing(q) = {}
  BY <1>3 DEF RoutedOn, DrivenOn, Firing, IntxInit
<1>5. ActiveInv /\ IoapicInv /\ IsaInv
  BY <1>4, FS_EmptySet, Zenon DEF ActiveInv, IoapicInv, IsaInv, IntxInit
<1> QED BY <1>1, <1>2, <1>5 DEF IntxInv

\* For any functions on any pins, whatever the device threads, the writes of the
\* command register and of the MSI capabilities and the reroutings interleave to:
\* a line at rest is in the state that the device and pci_lintr_permitted say, and
\* router, IOAPIC and ISA irqs count exactly the asserted lines behind them.
THEOREM IntxCorrect == IntxSpec => []IntxSound
<1>1. IntxInv /\ [IntxNext]_intxVars => IntxInv'
  BY IntxTypesStep, LineStep, CountsStep DEF IntxInv
<1>2. IntxInv => IntxSound
  <2> SUFFICES ASSUME IntxInv PROVE IntxSound
    OBVIOUS
  <2>1. LineState
    BY DEF IntxInv, IntxTypes, LineInv, LineState, pci_lintr_permitted
  <2>2. ASSUME \A d \in Devs, t \in Threads : at[d][t] \in {"idle", "update"}
        PROVE  /\ \A p \in Pirqs : active[p] = Asserted({d \in Devs : PirqPin[d] = p})
               /\ \A i \in Pins : ioapic[i] = Asserted({d \in Devs : IoapicIrq[d] = i})
    <3>1. \A d \in Devs : (Routed(d) <=> lintr[d] = "ASSERTED") /\ (Driven(d) <=> lintr[d] = "ASSERTED")
      BY <2>2 DEF Routed, Driven, Threads
    <3>2. \A p : {d \in {d \in Devs : PirqPin[d] = p} : lintr[d] = "ASSERTED"} = RoutedOn(p)
      BY <3>1 DEF RoutedOn
    <3>3. \A i : {d \in {d \in Devs : IoapicIrq[d] = i} : lintr[d] = "ASSERTED"} = DrivenOn(i)
      BY <3>1 DEF DrivenOn
    <3> QED BY <3>2, <3>3, Zenon DEF IntxInv, ActiveInv, IoapicInv, Asserted
  <2>3. ControllersFollow
    BY <2>2 DEF IntxInv, IsaInv, Firing, ControllersFollow
  <2> QED BY <2>1, <2>3 DEF IntxSound
<1> QED BY <1>1, <1>2, IntxInitInv, PTL DEF IntxSpec
=============================================================================
