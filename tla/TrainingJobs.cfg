\* Pooled trainings on three assets, with every fault, under fairness.
SPECIFICATION FairSpec
CONSTANTS
  eurusd = eurusd
  gbpusd = gbpusd
  usdjpy = usdjpy
  All = All
  Symbols = {eurusd, gbpusd, usdjpy}
  Pooled = TRUE
  MaxRuns = 2
  NFolds = 1
  Faults = {"training", "lostWrite", "crash", "stuckFiles"}
INVARIANTS TypeOK RowHasJob VerdictEarned ServedWasKept NoOrphanFiles
PROPERTIES ModelKept RunsEnd
CHECK_DEADLOCK FALSE
