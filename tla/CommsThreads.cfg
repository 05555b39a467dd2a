SPECIFICATION FairSpec
CONSTANTS
  Main = main
  Workers = {w1, w2}
  Disciplines <- SafeDisciplines
  Failures = {"retry", "block", "noThread"}
  MaxOps = 4
  MaxLoaders = 5
INVARIANTS ThreadsInStep NobodyUsesWhatIsFreed
PROPERTIES CallsReturn AnswerComes
CHECK_DEADLOCK FALSE
