SPECIFICATION SplSpec
CONSTANTS
  Alice = Alice
  Bob = Bob
  Carol = Carol
  Dave = Dave
  mint = mint
  Wallets <- MCWallets
  NewKeys <- MCNewKeys
  Others <- MCOthers
  Ata <- MCAta
  MaxU64 = 2000000000
INVARIANTS
  SplInv
  AuthorityIsAlice
  ReportAsPromised
  ShownAccountsAreRight
  FailsOnlyOnForeignAta
CHECK_DEADLOCK FALSE
