SPECIFICATION PlatformSpec
CONSTANTS
  Units = {"apic", "pic", "hpet", "rtc", "pit", "timer"}
  Cpus = {0, 1}
  Pins = {0}
  PerPrio = 2
  MaxVector = 5
  Width = 2
  MaxAcnt = 1
  PinVecs = {2}
  MsgVecs = {4}
  Tprs = {2}
  TprCpus = {1}
  Ldr = 1
  Model = "cluster"
  Modes <- MCModes
  Dests = {1}
  Triggers = {TRUE}
  Careful = TRUE
  NPins = 4
  ModeChips = {1}
  Irqs <- MCIrqs
  LevelIrqs <- MCLevel
  Bases <- MCBases
  Styles = {{"rotate"}, {"aeoi", "rotate", "sfn", "poll"}, {"smm"}}
  PicCareful = TRUE
  Timers = {0}
  CounterSpan = 4
  Routes = {0, 1, 2, 3}
  AllowedRoutes = {1, 2}
  CompWrites = {0, 2}
  HpetGuestConfigs <- MCHpetConfigs
  MaxSec = 2
  RegBs = {{}, {"HALT", "U"}, {"P", "A"}, {"A", "U"}}
  Radix = 2
  PitLoads = {0, 1, 2, 3}
  Divisors = {1, 2}
  Counts = {0, 2}
INVARIANTS IsrStackSound LevelServed ExtIntNotLost TimersServed
 
CHECK_DEADLOCK FALSE
