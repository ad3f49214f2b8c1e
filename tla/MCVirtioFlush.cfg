SPECIFICATION Spec
CONSTANTS
  IdxMod = 4
  NoTag = 99
  MaxFrames = 1
  Msix = TRUE
  QSize = 2
  Vcpus = {c1, c2}
  Tags = {0, 1, 2}
  FlushAlone = FALSE
  Devices = {"9p"}
INVARIANT ChainsAccounted
CHECK_DEADLOCK TRUE
