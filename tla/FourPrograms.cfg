SPECIFICATION FourSpec
CONSTANTS
  Payer = Payer
  Recipient = Recipient
  Eve = Eve
  blank = blank
  splMint = splMint
  mint22 = mint22
  Wallets <- MCWallets
  NewKeys <- MCNewKeys
  Others <- MCOthers
  Ata <- MCAta
  MaxU64 = 2000000000
INVARIANTS
  FourInv
  MintsAreAsAsked
  ReportIsExplained
  FailsOnlyOnForeignAta
CHECK_DEADLOCK FALSE
