SPECIFICATION Spec
CONSTANTS
  MaxBody = 2
  Policies = {"fail"}
  Faults = {"replace"}
  RuleStatuses = {0}
  HostStopsOnReply = TRUE
PROPERTY InterruptedStreamForwardsNothing
CHECK_DEADLOCK FALSE
