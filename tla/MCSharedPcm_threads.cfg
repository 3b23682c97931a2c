CONSTANTS
  Threads = {t1, t2}
  Total = 3
  Round = 2
  Unset = Unset
  Multi = TRUE
SPECIFICATION Spec
INVARIANT OwnSamples
CHECK_DEADLOCK FALSE
