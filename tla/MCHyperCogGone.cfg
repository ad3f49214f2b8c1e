SPECIFICATION Spec
CONSTANTS
  Vcpus = {0, 1, 10}
  Keys = {1}
  Capacity = 8
  MaxHandle = 9
INVARIANTS
  DestroyedInactive
