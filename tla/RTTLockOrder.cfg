\* A patient app disables while a heartbeat is due.
SPECIFICATION Spec
CONSTANTS
  MaxEnables = 1
  MaxNews = 2
  Disciplines <- OnlyPatient
INVARIANT
  LocksNeverCross
CHECK_DEADLOCK FALSE
