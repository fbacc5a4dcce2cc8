SPECIFICATION Spec
CONSTANTS
  KeypairBalances <- MCKeypairBalances
  Budget = 3
INVARIANTS
  FailedTxIsInABlock
CHECK_DEADLOCK FALSE
