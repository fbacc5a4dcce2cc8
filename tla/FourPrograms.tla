---------------------------- MODULE FourPrograms ----------------------------
(***************************************************************************)
(* The client of exercise 03 (03-four-programs): a blank System account,   *)
(* an SPL Token mint with an associated token account, and a Token-2022    *)
(* mint that withholds a fee from a transfer.                              *)
(***************************************************************************)
EXTENDS TokenClient

CONSTANTS
  Payer, Recipient,
  blank,     \* the keys main makes: of the System account,
  splMint,   \* `mint` in main, the SPL Token mint,
  mint22     \* and the Token-2022 mint

ASSUME FourKeysAssumption ==
  /\ {Payer, Recipient} \subseteq Wallets \ Others /\ Payer # Recipient
  /\ {blank, splMint, mint22} \subseteq NewKeys
  /\ blank # splMint /\ splMint # mint22 /\ mint22 # blank

MINT_2022_WITH_FEE_LEN == 165 + 1 + 2 + 2 + 108

SysTransfer(from, to, lamports) ==
  [op |-> "transfer", signers |-> {from}, to |-> to, lamports |-> lamports]

\* Mutant: the basis points are packed twice.
InitializeTransferFeeConfigIx_LowCap(m, basis_points, maximum_fee) ==
  [op |-> "initFee", signers |-> {}, mint |-> m,
   fee |-> [bps |-> basis_points, max |-> basis_points]]

InitializeTransferFeeConfigIx(m, basis_points, maximum_fee) ==
  [op |-> "initFee", signers |-> {}, mint |-> m,
   fee |-> [bps |-> basis_points, max |-> maximum_fee]]

TokenAmount(what, ata) == Read(what, ata, AmountBytes)

-----------------------------------------------------------------------------
(* The script of main from its section 1 on; the payer is every authority.  The
   airdrop before it, with its loop without a limit (main.rs 216-217, as in 04
   and 05), is left out, so the payer's funds are not counted. *)

New(key, space, owner) ==
  SysCreateAccount(Payer, key, MinimumBalance(space), space, owner)

SystemProgram ==
  << Send(Payer, <<New(blank, 0, "System")>>, {blank}),
     Send(Payer, <<SysTransfer(Payer, blank, 1000000)>>, {}),
     ReadLamports("blank", blank) >>

SplToken ==
  << Send(Payer, <<New(splMint, MINT_LEN, "Token"),
                   InitializeMint2Ix("Token", splMint, Payer)>>, {splMint}) >>

AssociatedTokenAccount ==
  LET ata == DeriveAta(Payer, splMint, "Token")
  IN  << Send(Payer, <<CreateAtaIx(Payer, Payer, splMint, "Token")>>, {}),
         Send(Payer, <<MintToIx("Token", splMint, ata, Payer, 1000000)>>, {}),
         TokenAmount("ata", ata) >>

\* Mutant: the account is created in one transaction, initialized in the next.
CreateMint22_Split ==
  << Send(Payer, <<New(mint22, MINT_2022_WITH_FEE_LEN, "Token2022")>>, {mint22}),
     Send(Payer, <<InitializeTransferFeeConfigIx(mint22, 500, MaxU64),
                   InitializeMint2Ix("Token2022", mint22, Payer)>>, {}) >>

\* Mutant: the extension is initialized after the mint.
CreateMint22_FeeLast ==
  << Send(Payer, <<New(mint22, MINT_2022_WITH_FEE_LEN, "Token2022"),
                   InitializeMint2Ix("Token2022", mint22, Payer),
                   InitializeTransferFeeConfigIx(mint22, 500, MaxU64)>>, {mint22}) >>

CreateMint22 ==
  << Send(Payer, <<New(mint22, MINT_2022_WITH_FEE_LEN, "Token2022"),
                   InitializeTransferFeeConfigIx(mint22, 500, MaxU64),
                   InitializeMint2Ix("Token2022", mint22, Payer)>>, {mint22}) >>

Source == DeriveAta(Payer, mint22, "Token2022")
Dest   == DeriveAta(Recipient, mint22, "Token2022")

TransferWithFee ==
  << Send(Payer, <<CreateAtaIx(Payer, Payer, mint22, "Token2022"),
                   CreateAtaIx(Payer, Recipient, mint22, "Token2022")>>, {}),
     Send(Payer, <<MintToIx("Token2022", mint22, Source, Payer, 1000000)>>, {}),
     Send(Payer, <<TransferCheckedIx("Token2022", Source, mint22, Dest, Payer, 100000)>>, {}),
     TokenAmount("sender", Source),
     TokenAmount("receiver", Dest) >>

FourScript ==
  SystemProgram \o SplToken \o AssociatedTokenAccount \o CreateMint22 \o TransferWithFee

FourInit == ClientInit /\ todo = FourScript

FourSpec == FourInit /\ [][Next]_vars

-----------------------------------------------------------------------------
(* Properties *)

\* Neither initialization asks for a signature (main.rs 127, 175), so creating
\* the account and both of them must be one transaction, extension first, or
\* somebody else becomes the authority or sets another fee (main.rs 269-274).
MintsAreAsAsked ==
  \A m \in {splMint, mint22} : IsA(ledger, "mint", m) =>
    /\ ledger.accts[m].data.authority = Payer
    /\ ledger.accts[m].data.fee =
         IF m = mint22 THEN [bps |-> 500, max |-> MaxU64] ELSE NoFee

\* What main prints and explains (main.rs 231, 263, 290-292): the receiver is
\* short exactly the 5% although sender and receiver are read in two calls and
\* others may harvest the withheld fee; only lamports can be more, a gift.
ReportIsExplained ==
  Done =>
    /\ report["blank"] >= MinimumBalance(0) + 1000000
    /\ report["ata"].amount = 1000000
    /\ report["sender"].amount = 900000
    /\ report["sender"].amount + report["receiver"].amount
         = ledger.accts[mint22].data.supply - 5000

\* The inductive invariant.  The ledger as main believes it when the first n
\* calls of its script have been made.
Fee22 == [bps |-> 500, max |-> MaxU64]

FourHeld(m, n) == [w \in Wallets |->
  IF m = splMint
  THEN IF w = Payer /\ n >= 6 THEN 1000000 ELSE 0
  ELSE CASE w = Payer     -> IF n < 10 THEN 0 ELSE IF n < 11 THEN 1000000 ELSE 900000
         [] w = Recipient -> IF n < 11 THEN 0 ELSE 95000
         [] OTHER         -> 0]

FourRow(m, n) ==
  IF m = splMint
  THEN Row("Token", [Mint(Payer, DECIMALS, NoFee) EXCEPT
                       !.supply = IF n < 6 THEN 0 ELSE 1000000], FourHeld(m, n), 0)
  ELSE Row("Token2022", [Mint(Payer, DECIMALS, Fee22) EXCEPT
                           !.supply = IF n < 10 THEN 0 ELSE 1000000],
           FourHeld(m, n), IF n < 11 THEN 0 ELSE 5000)

FourView(n) ==
  [plain |-> IF n < 1 THEN {} ELSE {blank},
   floor |-> IF n < 2 THEN MinimumBalance(0) ELSE MinimumBalance(0) + 1000000,
   mints |-> [m \in (IF n < 4 THEN {} ELSE {splMint}) \cup (IF n < 8 THEN {} ELSE {mint22})
                |-> FourRow(m, n)],
   open  |-> (IF n < 5 THEN {} ELSE {<<Payer, splMint>>})
               \cup (IF n < 9 THEN {} ELSE {<<Payer, mint22>>, <<Recipient, mint22>>})]

FourMade == Len(FourScript) - Len(todo)

\* What main has printed.
FourShown(n) ==
  /\ n >= 3  => /\ "blank" \in DOMAIN report /\ report["blank"] \in Nat
                /\ report["blank"] >= MinimumBalance(0) + 1000000
  /\ n >= 7  => Shown("ata", [amount |-> 1000000])
  /\ n >= 12 => Shown("sender", [amount |-> 900000])
  /\ n >= 13 => Shown("receiver", [amount |-> 95000])

FourInv ==
  /\ FourMade \in 0 .. Len(FourScript)
  /\ todo = SubSeq(FourScript, FourMade + 1, Len(FourScript))
  /\ outcome \in {"running", "failed", "rpc_error"}
  /\ \/ Fits(ledger, FourView(FourMade))
     \/ outcome = "rpc_error" /\ Fits(ledger, FourView(FourMade + 1))
  /\ FourShown(FourMade)
  /\ FailsOnlyOnForeignAta

=============================================================================
