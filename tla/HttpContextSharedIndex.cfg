SPECIFICATION Spec
CONSTANTS
  MaxBody = 2
  Policies = {"fail"}
  Faults = {}
  RuleStatuses = {0}
  HostStopsOnReply = TRUE
INVARIANT ResponseBodyInspected
CHECK_DEADLOCK FALSE
