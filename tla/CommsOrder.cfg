SPECIFICATION Spec
CONSTANTS
  ApiOps = {"read", "write"}
  AppOps = {"read", "authenticate", "resetEmailPassword", "logout", "marker"}
  MaxCalls = 4
  MaxBundleSize = 2
  MaxSendAttempts = 2
  KillSwitchThreshold = 3
  ServerResults = {"ok", "error"}
  Faults = {"networkFailure"}
  Controls = {"reset"}
INVARIANTS PipelineInOrder RepliesReachTheirCall PacketsWellMade SessionGuardsTraffic LoopsAgree
CHECK_DEADLOCK FALSE
