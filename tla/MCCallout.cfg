SPECIFICATION FairSpec
CONSTANTS
  Callouts = {c1, c2}
  Callers = {u1, u2}
  Delays = {1, 2}
  MaxTime = 3
  None = None
INVARIANTS QueueSound
PROPERTIES FiresOnlyArmed DueServed
