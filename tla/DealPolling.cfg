\* Every fault but overlapping requests, two gateway objects.
SPECIFICATION Spec
CONSTANTS
  MaxDeals = 2
  MaxNow = 1
  MaxGateways = 2
  Faults = {"outage", "disconnect", "select", "restart", "lostWrite"}
INVARIANTS OncePerGateway PollerAtWork
CHECK_DEADLOCK FALSE
