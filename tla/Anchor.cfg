SPECIFICATION Spec
CONSTANTS
  alice = alice
  bob = bob
  CounterPda = CounterPda
  System = System
  Program = Program
  Other = Other
  Keys <- MCKeys
  Pdas <- MCPdas
  Lens <- MCLens
  RentMin <- MCRentMin
  Data <- MCData
  ZeroData <- MCZeroData
  ForeignData <- MCForeignData
  Funding <- MCFunding
  FeePerSignature = 1
  Amounts = {1, 3}
  MaxIxs = 2
  MAX_COUNT = 3
INVARIANTS
  AnchorInv
  SingleFundedCounter
  InitializableUntilOwned
PROPERTIES
  FirstOwnerForGood
  RefinesGlobalCounterSpec
CHECK_DEADLOCK FALSE
