SPECIFICATION FairSpec
CONSTANTS
  NCPU = 2
  MaxRendezvous = 1
  MaxEvents = 1
  EventKinds = {"nmi"}
  MaxPauses = 0
  Exits = {"HLT", "USER", "IOAPIC"}
  NoVcpu = NoVcpu
PROPERTIES
  
  NmiWakes
