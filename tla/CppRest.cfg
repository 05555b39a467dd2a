SPECIFICATION FairSpec
CONSTANTS
  Ops = {"read", "authenticate", "resetPassword", "marker"}
  MaxCalls = 3
  MaxSessions = 2
  MaxPackets = 3
  MaxBundleSize = 3
  MaxSendAttempts = 2
  Answers = {"ok", "error", "session", "stale", "garbled", "busy", "refused", "exception"}
INVARIANTS EngineInStep CallsKept
PROPERTIES ResetIsFinal EveryCallAnswered
CHECK_DEADLOCK FALSE
