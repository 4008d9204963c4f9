SPECIFICATION Spec
CONSTANTS
  MaxBody = 3
  Policies = {"fail", "allow"}
  Faults = {"send"}
  RuleStatuses = {0}
  HostStopsOnReply = FALSE
INVARIANTS PhasesInOrder NeverInterruptedTwice BodyPhasesEvaluatedOnce ClosedTransactionIsComplete
PROPERTY InterruptedStreamForwardsNothing
CHECK_DEADLOCK FALSE
