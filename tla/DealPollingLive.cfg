\* One gateway object, outages and reconnections, under fairness.
SPECIFICATION FairSpec
CONSTANTS
  MaxDeals = 2
  MaxNow = 2
  MaxGateways = 1
  Faults = {"outage", "disconnect", "lostWrite"}
PROPERTIES DealsJournalled
CHECK_DEADLOCK FALSE
