SPECIFICATION Spec
CONSTANTS
  NCPU = 3
  MaxRendezvous = 1
  MaxEvents = 0
  EventKinds = {"nmi", "intr"}
  MaxPauses = 0
  Exits = {"USER", "IOAPIC"}
  NoVcpu = NoVcpu
INVARIANTS
  RendezvousAsserted
