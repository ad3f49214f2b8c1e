SPECIFICATION DevicesSpec
CONSTANTS
  Parts = {"ahci", "layout", "mmio", "intx", "host", "fwctl", "hypercog"}
  NSlots = 2
  IOV_MAX = 2
  Sect = 2
  Menus <- MCMenus
  WildReset = FALSE
  Base <- MCBase
  Limit <- MCLimit
  Slop <- MCSlop
  BarSizes = {1, 20, 128}
  BigBar = 64
  CapLens = {12, 14, 60}
  NBuses = 2
  NPirqs = 3
  Irqs = {3, 8, 9}
  PciPins = 8
  MaxBars = 3
  MaxCaps = 5
  MaxDevs = 5
  MmioVcpus = {1, 2}
  MemBars = {"m1", "m2"}
  IoBars = {"i1"}
  Addrs = {1, 2, 3, 4}
  Devs <- MCDevs
  PirqPin <- MCPirq
  IoapicIrq <- MCPin
  MaskDevs = {1, 3}
  PirqRegs = {0, 5}
  Events = {"tty", "term"}
  MEVENT_MAX = 5
  FIFOSZ = 2
  Iers = {{}, {"ERXRDY"}, {"ERXRDY", "ETXRDY", "ERLS", "EMSC"}}
  MaxInput = 3
  GuestUses = {{"DATA", "IER", "FCR", "IIR"}, {"DATA", "IER", "MCR", "IIR", "LSR", "MSR"}, {"DATA", "LCR", "FCR", "MCR"}, {"DATA", "SMI", "PM1EVT"}, {"SMI", "PM1CNT"}}
  PmCpus = {"c0"}
  PmCareful = TRUE
  FGET_STRSZ = 8
  Modulus = 65536
  ReqSizes = {12, 16, 20, 24}
  Ops = {1, 3, 4}
  Oid <- MCOid
  CtlLen = 6
  NameWords = {"hw.n", "cpu", "x"}
  Vcpus = {0, 1, 10}
  Keys = {1, 12}
  Capacity = 7
  MaxHandle = 9
INVARIANTS
  AhciSound  IntxSound HostSound 
  SpaceSound 
CHECK_DEADLOCK FALSE
