SPECIFICATION Spec
CONSTANTS
  IdxMod = 4
  NoTag = 99
  MaxFrames = 1
  Msix = TRUE
  QSize = 2
  Vcpus = {c1, c2}
  Tags = {0, 1}
  FlushAlone = TRUE
  Devices = {"blk", "9p", "net"}
SYMMETRY Symm
INVARIANTS ChainsSound NoLostNotification 
CHECK_DEADLOCK TRUE
