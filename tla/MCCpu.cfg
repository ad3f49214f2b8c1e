SPECIFICATION CpuSpec
CONSTANTS
  CpuParts = {"run", "inject", "task", "regs", "walk", "decode", "emulate", "string"}
  NCPU = 2
  MaxRendezvous = 1
  MaxEvents = 0
  EventKinds = {"nmi", "intr"}
  MaxPauses = 2
  Exits = {"BOGUS", "HLT", "HALT", "KERNEL", "USER", "IOAPIC"}
  NoVcpu = NoVcpu
  InstrExits = {"PAGING", "HLT", "PAUSE", "INOUT", "INOUT_STR", "INST_EMUL", "MONITOR", "MSR", "TASK_SWITCH"}
  Elements = 3
  Batch = 2
  MaxRaised = 2
  Tasks = {"A", "B", "C"}
  FirstTask = "A"
  Cr0Values <- MCCr0Values
  Cr4Values = {{}, {"VMXE"}, {"OSXSAVE"}, {"PAE", "VMXE"}, {"PAE", "OSXSAVE"}}
  EferBits = {"LME", "LMA", "NXE"}
  XcrAllowed = {"X87", "SSE", "AVX", "OPMASK", "ZMM_HI256", "HI16_ZMM"}
  XcrValues <- MCXcrValues
  MaxEdits = 1
  Tables <- MCTables
  Instructions <- MCInstructions
  INST_SIZE = 15
  RegValues = {0, 90, 165, 255}
  DevValues = {0, 1, 54, 137, 255}
  Immediates <- MCImmediates
  Counts = {0, 2, 19}
  Starts = {0, 14, 35}
  ElementSizes = {1, 4}
  Segments <- MCSegments
INVARIANTS
   BarriersHold PauseSound
  RipExact EventsSound StringsExact TaskChain   
 
CHECK_DEADLOCK FALSE
