\* The single i/o thread of BLOCKIF_NUMTHR, three requests for a queue limit of one.
SPECIFICATION FairSpec
CONSTANTS
  Elems = {e1, e2}
  Workers = {w1}
  Reqs = {r1, r2, r3}
  QueueSz = 1
  Offsets = {0, 1}
  Lens = {1}
  OFF_MAX = 9
  None = None
INVARIANTS
  BlockIfSound
  CallbackExactlyOnce
  NoSpuriousE2BIG
PROPERTIES
  EBUSYMeansStopped
  CallsReturn
