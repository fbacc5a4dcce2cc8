SPECIFICATION Spec
CONSTANTS
  Params <- MCParams
  Accounts <- MCAccounts
INVARIANTS
  InspectorInv
  ChecksDecideOverhead
  ExemptAsTheClusterSays
CHECK_DEADLOCK FALSE
