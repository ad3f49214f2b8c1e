SPECIFICATION FairSpec
CONSTANTS
  IdxMod = 4
  NoTag = 99
  MaxFrames = 1
  Msix = TRUE
  QSize = 1
  Vcpus = {c1}
  Tags = {0, 1}
  FlushAlone = TRUE
  Devices = {"blk", "9p", "net"}
PROPERTIES RequestsServed
CHECK_DEADLOCK TRUE
