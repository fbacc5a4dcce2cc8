SPECIFICATION Spec
CONSTANTS
  KeypairBalances <- MCKeypairBalances
  Budget = 3
INVARIANTS
  LifecycleInv
  ShownLevelsClimb
  ExactAfterFinality
  PreflightKeepsFailuresOffChain
PROPERTIES
  EndsUnlessAirdropLost
CHECK_DEADLOCK FALSE
