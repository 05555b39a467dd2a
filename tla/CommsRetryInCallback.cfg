SPECIFICATION Spec
CONSTANTS
  ApiOps = {"read", "write"}
  AppOps = {"read", "authenticate"}
  MaxCalls = 3
  MaxBundleSize = 2
  MaxSendAttempts = 2
  KillSwitchThreshold = 2
  ServerResults = {"ok", "error", "session"}
  Faults = {"networkFailure", "outOfSync"}
  Controls = {"caching", "retryInCallback"}
INVARIANTS RetryKeepsPacketAlive
CHECK_DEADLOCK FALSE
