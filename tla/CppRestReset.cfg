\* An app that makes a call and resets; no heartbeat wakes the queue thread.
SPECIFICATION FairSpec
CONSTANTS
  Ops = {"read"}
  MaxCalls = 1
  MaxSessions = 1
  MaxPackets = 2
  MaxBundleSize = 2
  MaxSendAttempts = 2
  Answers = {"ok", "error"}
PROPERTY ResetReturns
CHECK_DEADLOCK FALSE
