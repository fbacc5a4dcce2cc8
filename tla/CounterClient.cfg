SPECIFICATION ClientSpec
CONSTANTS
  Alice = Alice
  Bob = Bob
  Carol = Carol
  Dave = Dave
  alicePda = alicePda
  bobPda = bobPda
  carolPda = carolPda
  davePda = davePda
  System = System
  Program = Program
  Other = Other
  OnCurve = OnCurve
  Keys <- MCKeys
  Pdas <- MCPdas
  Bumps <- MCBumps
  Derive <- MCDerive
  Lens <- MCLens
  RentMin <- MCRentMin
  Data <- MCData
  ZeroData <- MCZeroData
  ForeignData <- MCForeignData
  Funding <- MCFunding
  FeePerSignature = 1
  Amounts = {1, 2}
  MaxIxs = 2
  MaxU64 = 60
  Airdrop = 6
  BadBy = 10
  OthersBy = {1, 60}
INVARIANTS
  ClientInv
  ScriptReportsHold
  FailsOnlyOnPrefundedAddress
PROPERTIES
  EndsUnlessAirdropLost
CHECK_DEADLOCK FALSE
