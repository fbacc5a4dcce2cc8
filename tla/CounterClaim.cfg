SPECIFICATION Spec
CONSTANTS
  alice = alice
  bob = bob
  alicePda = alicePda
  aliceOther = aliceOther
  bobPda = bobPda
  System = System
  Program = Program
  Other = Other
  OnCurve = OnCurve
  Keys <- MCKeys
  Pdas <- MCPdas
  Bumps <- MCBumps
  Derive <- MCDerive
  Lens <- MCLens
  RentMin <- MCRentMin
  Data <- MCData
  ZeroData <- MCZeroData
  ForeignData <- MCForeignData
  Funding <- MCFundingBoth
  FeePerSignature = 1
  Amounts = {1, 2}
  MaxIxs = 2
  MaxU64 = 2
INVARIANTS
  OnlyAuthorityCheckRefuses
CHECK_DEADLOCK FALSE
