SPECIFICATION Spec
CONSTANTS
  MaxBody = 1
  Policies = {"allow"}
  Faults = {}
  RuleStatuses = {0}
  HostStopsOnReply = TRUE
INVARIANT AllowedStreamSurvives
CHECK_DEADLOCK FALSE
