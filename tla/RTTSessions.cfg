\* A patient app in two sessions, a hasty one, and one that disables in its event callback too.
SPECIFICATION FairSpec
CONSTANTS
  MaxEnables = 2
  MaxNews = 2
  Disciplines <- TheDisciplines
INVARIANTS ThreadsInStep SocketOutlivesItsUsers NothingOutlivesDisable
PROPERTY
  DisableReturns
CHECK_DEADLOCK FALSE
