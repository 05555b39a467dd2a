SPECIFICATION FairUploadsSpec
CONSTANTS
  Ids = {u1, u2}
  MaxStarts = 2
  Outcomes = {"ok", "refused"}
INVARIANTS UploadsInStep
PROPERTIES EveryUploadEnds
CHECK_DEADLOCK FALSE
