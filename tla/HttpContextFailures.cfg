SPECIFICATION Spec
CONSTANTS
  MaxBody = 3
  Policies = {"fail", "allow"}
  Faults <- EngineFaults
  RuleStatuses = {0}
  HostStopsOnReply = TRUE
INVARIANTS TypeOK PhasesPrecedeForwarding RequestBodyInspectedUnlessEarly ResponseBodyInspectedUnlessInherited MaskKeepsLength BufferIsWholeBodyUnlessAllowed EndedBodyIsReleasedOrAnswered InterruptionReplyIsFinal NilLoggerOnlyWhenAllowed
CONSTRAINT AllowedBodies
CHECK_DEADLOCK FALSE
