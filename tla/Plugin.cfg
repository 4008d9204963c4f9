SPECIFICATION PluginSpec
CONSTANTS
  MaxVersion = 4
  Broken = {2}
  MaxFaults = 3
  ReloadIntervals = {0, 1, 7, 66}
  Second = 1
  cacheTimeout = 2
  UintModulus = 64
  MaxContexts = 2
INVARIANTS PluginTypeOK OneCallAtATime UUIDIsOfActiveWAF RulesFollowCreation RulesStayFresh
PROPERTIES RulesNeverGoBack ImplementsRegister
