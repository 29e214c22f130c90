\* A pair that is stopped and armed again, nothing failing.
SPECIFICATION Spec
CONSTANTS
  Gateways = {"interactive_brokers"}
  MaxBuffer = 2
  WarmupBars = 1
  MaxBucket = 2
  MaxTicks = 4
  MaxStarts = 1
  Faults = {}
INVARIANT DecidedAtOnce
CHECK_DEADLOCK FALSE
