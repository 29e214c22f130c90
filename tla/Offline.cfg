CONSTANTS
  NumSymbols = 3
  NumYears = 2
  DaysPerYear = 3
  Retries = 1
  Coverages <- SomeCoverages
  Dates <- SomeDates
  MaxScripts = 2
  MaxFaults = 2
  Horizon = 2
  MinPerFold = 1
  FoldCounts = {2}
  MaxJobs = 1
SPECIFICATION Spec
INVARIANTS NoHoles NothingFromTheFuture LabelsAreWhole TestedOnce
CHECK_DEADLOCK FALSE
