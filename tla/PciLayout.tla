----------------------------- MODULE PciLayout ------------------------------
(***************************************************************************)
(* What init_pci decides before the guest runs: the address of every BAR   *)
(* (pci_emul_alloc_pbar), the windows of the buses, the capability list of *)
(* a function (pci_emul_add_capability) and the routing of INTx pins to    *)
(* IOAPIC pins and through the PIRQ router to ISA interrupts.              *)
(***************************************************************************)
EXTENDS Naturals, FiniteSets, Sequences, FiniteSetsExt, SequencesExt

CONSTANTS
  Base,        \* Base[space]: where allocation in an address space starts
  Limit,       \* Limit[space]: PCI_EMUL_IOLIMIT, MEMLIMIT32, MEMLIMIT64
  Slop,        \* Slop[space]: BUSIO_ROUNDUP, BUSMEM_ROUNDUP
  BarSizes,    \* sizes the device models ask for
  BigBar,      \* a 64 bit BAR above this size goes above 4GB (32MB)
  CapLens,     \* lengths of the capabilities
  NBuses, NPirqs, Irqs, PciPins,
  MaxBars, MaxCaps, MaxDevs    \* bounds on the number of calls

Spaces == {"io", "mem32", "mem64"}
CAP_START_OFFSET == 64
PCI_REGMAX == 255

VARIABLES
  layout    \* everything init_pci computes

layoutVars == layout

roundup2(x, y) == ((x + y - 1) \div y) * y
Pow2 == {2^k : k \in 0 .. 12}
RoundPow2(n) == Min({p \in Pow2 : p >= n})

-----------------------------------------------------------------------------
\* Addresses.

pci_emul_alloc_resource(base, limit, size) ==
  LET b == roundup2(base, size)
  IN [ok |-> b + size <= limit, addr |-> b, base |-> b + size]

SpaceOf(type, size) ==
  CASE type = "io" -> "io"
    [] type = "mem64" /\ size > BigBar -> "mem64"
    [] OTHER -> "mem32"

BarSize(type, want) == Max({RoundPow2(want), IF type = "io" THEN 4 ELSE 16})

pci_emul_alloc_pbar(type, want) ==
  LET size == BarSize(type, want)
      sp   == SpaceOf(type, size)
      r    == pci_emul_alloc_resource(layout.base[sp], Limit[sp], size)
  IN /\ Len(layout.bars) < MaxBars
     /\ layout' = IF ~ r.ok THEN layout
                  ELSE [layout EXCEPT
                          !.base[sp] = r.base,
                          !.bars = Append(@, [bus |-> layout.bus, space |-> sp, size |-> size,
                                              addr |-> r.addr])]

\* The end of a bus: some slop, and the next bus starts behind it.
BusWindow ==
  LET end == [sp \in Spaces |-> roundup2(layout.base[sp] + Slop[sp], Slop[sp])]
  IN /\ layout.bus < NBuses
     /\ layout' = [layout EXCEPT
                     !.bus = @ + 1, !.base = end,
                     !.window = Append(@, [lo |-> layout.start, hi |-> end]),
                     !.start = end]

-----------------------------------------------------------------------------
\* Capabilities: cfg[off] is the header [id, next] at off.

pci_emul_add_capability(caplen) ==
  LET reallen == roundup2(caplen, 4)
      none    == layout.caps = <<>>
      capoff  == IF none THEN CAP_START_OFFSET ELSE layout.capend + 1
  IN layout' = IF capoff + reallen > PCI_REGMAX + 1 THEN layout
               ELSE [layout EXCEPT
                       !.caps = Append(@, [off |-> capoff, len |-> reallen]),
                       !.next = [o \in DOMAIN @ \cup {capoff} |->
                                   IF o = capoff THEN 0
                                   ELSE IF ~ none /\ o = layout.prevcap THEN capoff ELSE @[o]],
                       !.prevcap = capoff, !.capend = capoff + reallen - 1]

RECURSIVE CapOf(_, _)
CapOf(offset, capoff) ==
  LET n == layout.next[capoff]
  IN IF n = 0 \/ (offset >= capoff /\ offset < n) THEN capoff ELSE CapOf(offset, n)

\* The capability a configuration write to offset goes to.
pci_emul_capwrite(offset) == CapOf(offset, CAP_START_OFFSET)

pci_emul_iscap(offset) ==
  layout.caps # <<>> /\ offset >= CAP_START_OFFSET /\ offset <= layout.capend

-----------------------------------------------------------------------------
\* Interrupts.  counts[irq] = Disabled: the interrupt is reserved.

Disabled == 255
IRQ_PERMITTED(irq) == irq \in 3 .. 15 \ {8, 13}

pci_irq_reserve(irq) ==
  /\ layout.cold /\ layout.counts[irq] \in {0, Disabled}
  /\ layout' = [layout EXCEPT !.counts[irq] = Disabled]

pci_irq_use(irq) ==
  /\ layout.cold /\ layout.counts[irq] \in 0 .. 1
  /\ layout' = [layout EXCEPT !.counts[irq] = @ + 1]


\* The first of the least used.
LeastUsed(f, S) == Min({i \in S : \A j \in S : f[i] <= f[j]})

pci_lintr_request ==
  LET pin == LeastUsed(layout.intpins, 1 .. 4)
  IN /\ layout.cold /\ Len(layout.devs) < MaxDevs
     /\ layout' = [layout EXCEPT !.intpins[pin] = @ + 1, !.devs = Append(@, pin)]

pirq_alloc_pin(l) ==
  LET pin  == LeastUsed(l.use, 1 .. NPirqs)
      open == {q \in Irqs : l.counts[q] # Disabled}
      irq  == LeastUsed(l.counts, open)
  IN [l EXCEPT !.cold = FALSE, !.use[pin] = @ + 1,
               !.reg = IF @[pin] # 0 THEN @ ELSE [@ EXCEPT ![pin] = irq],
               !.counts = IF l.reg[pin] # 0 THEN @ ELSE [@ EXCEPT ![irq] = @ + 1],
               !.lastpirq = pin]

ioapic_pci_alloc_irq(l) ==
  [l EXCEPT !.lastpin = @ + 1, !.lastirq = 16 + (l.lastpin % PciPins)]

\* Each intpin in use gets an IOAPIC pin and a PIRQ pin, once.
pci_lintr_route ==
  \E i \in DOMAIN layout.devs :
    LET pin == layout.devs[i]
        l   == pirq_alloc_pin(ioapic_pci_alloc_irq(layout))
    IN /\ layout.route[pin] = <<>>
       /\ \E q \in Irqs : layout.counts[q] # Disabled
       /\ layout' = [l EXCEPT !.route[pin] = <<l.lastirq, l.lastpirq>>]

LayoutInit ==
  layout = [base |-> Base, start |-> Base, bus |-> 1, bars |-> <<>>, window |-> <<>>,
            caps |-> <<>>, next |-> <<>>, prevcap |-> 0, capend |-> 0,
            cold |-> TRUE, intpins |-> [p \in 1 .. 4 |-> 0], devs |-> <<>>,
            use |-> [p \in 1 .. NPirqs |-> 0], reg |-> [p \in 1 .. NPirqs |-> 0],
            counts |-> [q \in Irqs |-> IF IRQ_PERMITTED(q) THEN 0 ELSE Disabled],
            lastpin |-> 0, lastirq |-> 0, lastpirq |-> 0, route |-> [p \in 1 .. 4 |-> <<>>]]

\* The three parts do not depend on each other.
Fresh(part) ==
  /\ part # "bars" => layout.bars = <<>> /\ layout.bus = 1
  /\ part # "caps" => layout.caps = <<>>
  /\ part # "irqs" => layout.cold /\ layout.devs = <<>>

LayoutNext ==
  \/ /\ Fresh("bars")
     /\ \/ \E type \in {"io", "mem32", "mem64"}, want \in BarSizes : pci_emul_alloc_pbar(type, want)
        \/ BusWindow
  \/ Fresh("caps") /\ Len(layout.caps) < MaxCaps /\ \E n \in CapLens : pci_emul_add_capability(n)
  \/ /\ Fresh("irqs")
     /\ \/ \E q \in Irqs : pci_irq_reserve(q) \/ pci_irq_use(q)
        \/ pci_lintr_request
        \/ pci_lintr_route

-----------------------------------------------------------------------------
Overlap(a, b) == a.addr < b.addr + b.size /\ b.addr < a.addr + a.size

\* Whatever the devices ask for, in whatever order, BARs are naturally aligned,
\* do not overlap, stay below the limit of their space and inside the window
\* of their bus that the DSDT declares.
BarsLaidOut ==
  \A i \in DOMAIN layout.bars :
    LET b == layout.bars[i]
    IN /\ b.addr % b.size = 0 /\ b.addr + b.size <= Limit[b.space]
       /\ \A j \in DOMAIN layout.bars \ {i} :
            layout.bars[j].space = b.space => ~ Overlap(b, layout.bars[j])
       /\ b.bus <= Len(layout.window) =>
            /\ layout.window[b.bus].lo[b.space] <= b.addr
            /\ b.addr + b.size <= layout.window[b.bus].hi[b.space]

\* Every byte of the capability region belongs to exactly the capability that
\* pci_emul_capwrite finds for it.
CapsFound ==
  \A o \in CAP_START_OFFSET .. PCI_REGMAX :
    pci_emul_iscap(o) =>
      \E i \in DOMAIN layout.caps :
        /\ layout.caps[i].off = pci_emul_capwrite(o)
        /\ o \in layout.caps[i].off .. layout.caps[i].off + layout.caps[i].len - 1

\* INTx pins and PIRQ pins are shared evenly, and a routed PIRQ pin drives a
\* permitted interrupt that was not reserved for an ISA device.
IrqsRouted ==
  /\ \A p, q \in 1 .. 4 : layout.intpins[p] <= layout.intpins[q] + 1
  /\ \A p, q \in 1 .. NPirqs : layout.use[p] <= layout.use[q] + 1
  /\ \A p \in 1 .. NPirqs :
       /\ (layout.reg[p] # 0) <=> (layout.use[p] > 0)
       /\ layout.reg[p] # 0 => IRQ_PERMITTED(layout.reg[p]) /\ layout.counts[layout.reg[p]] # Disabled

LayoutSound == BarsLaidOut /\ CapsFound /\ IrqsRouted
=============================================================================
