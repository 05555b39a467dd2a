SPECIFICATION FairSpec
CONSTANTS
  ApiOps = {"read", "write"}
  AppOps = {"read", "authenticate", "marker"}
  MaxCalls = 3
  MaxBundleSize = 2
  MaxSendAttempts = 2
  KillSwitchThreshold = 2
  ServerResults = {"ok", "error", "session"}
  Faults = {"networkFailure", "outOfSync"}
  Controls = {"caching", "reset", "shutdown"}
INVARIANTS CommsInStep NoStrandedCalls KillSwitchInStep
PROPERTIES BlockedMeansFrozen ImplementsCallLifecycle EveryCallIsSettled
CHECK_DEADLOCK FALSE
