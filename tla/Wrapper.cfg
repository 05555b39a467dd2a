SPECIFICATION FairSpec
CONSTANTS
  Credentials = {email, google}
  NoCredential = none
  AllowSwitch = {TRUE, FALSE}
  AppCalls = {"attach", "logout", "reset", "restart"}
  Overlaps = {}
  MaxRequests = 3
  MaxAppCalls = 2
  MaxAnonymous = 3
  MaxProfiles = 3
  MaxBundleSize = 2
INVARIANTS RequestsInStep StoredIdsMatch SessionIsTheOneTold
PROPERTIES DeletesOnlyAnonymous EveryRequestTold
CHECK_DEADLOCK FALSE
