SPECIFICATION Spec
CONSTANTS
  KeypairBalances <- MCKeypairBalances
  Budget = 3
INVARIANTS
  ReportNeverPanics
CHECK_DEADLOCK FALSE
