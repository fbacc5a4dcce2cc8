SPECIFICATION Spec
CONSTANTS
  Runs <- MCRuns
  r1 = r1
  r2 = r2
  Launches <- MCLaunches
  Polls = 1
INVARIANTS
  HarnessInv
  StoppedOnExit
  UnderfundedIsRefused
  UnansweredHadAnswer
PROPERTIES
  EveryRunEnds
CHECK_DEADLOCK FALSE
