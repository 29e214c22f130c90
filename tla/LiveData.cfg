\* Either gateway, everything that may go wrong but a row that cannot be read again.
SPECIFICATION Spec
CONSTANTS
  Gateways = {"metatrader5", "interactive_brokers"}
  MaxBuffer = 2
  WarmupBars = 1
  MaxBucket = 2
  MaxTicks = 4
  MaxStarts = 2
  Faults = {"late", "lostWrite", "outage", "restart"}
INVARIANTS TypeOK CandlesHoldTheirTicks BufferInOrder OneDecisionPerCandle
PROPERTY DecisionsAreLicensed
CHECK_DEADLOCK FALSE
