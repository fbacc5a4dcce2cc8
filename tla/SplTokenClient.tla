--------------------------- MODULE SplTokenClient ---------------------------
(***************************************************************************)
(* The client of exercise 06 (06-spl-token): creates a mint, mints to      *)
(* Alice, shows that a transfer to a missing account fails, pays for Bob's *)
(* account and transfers to it, and at last reads supply and balances in   *)
(* three calls.  It decodes the mint and the token accounts on the way.    *)
(***************************************************************************)
EXTENDS TokenClient

CONSTANTS Alice, Bob, mint

ASSUME SplKeysAssumption ==
  /\ {Alice, Bob} \subseteq Wallets \ Others /\ Alice # Bob
  /\ mint \in NewKeys

AtaOf(wallet) == DeriveAta(wallet, mint, "Token")

-----------------------------------------------------------------------------
(* The decoders: the bytes each printed field is cut from. *)

\* Mutant: the authority's optional value is given a tag of one byte.
ShowMint_ShortTag(what) ==
  Read(what, mint, [mint_authority |-> <<0, 33>>, supply |-> <<33, 41>>,
                    decimals |-> <<41, 42>>, is_initialized |-> <<42, 43>>,
                    freeze_authority |-> <<43, 76>>])

ShowMint(what) ==
  Read(what, mint, [mint_authority |-> <<0, 36>>, supply |-> <<36, 44>>,
                    decimals |-> <<44, 45>>, is_initialized |-> <<45, 46>>,
                    freeze_authority |-> <<46, 82>>])

\* Mutant: optional values are given the tag of one byte they have in
\* instruction data.
ShowTokenAccount_ShortTag(what, key) ==
  Read(what, key, [mint |-> <<0, 32>>, owner |-> <<32, 64>>, amount |-> <<64, 72>>,
                   delegate |-> <<72, 105>>, state |-> <<105, 106>>,
                   is_native |-> <<106, 115>>, delegated_amount |-> <<115, 123>>,
                   close_authority |-> <<123, 156>>])

ShowTokenAccount(what, key) ==
  Read(what, key, [mint |-> <<0, 32>>, owner |-> <<32, 64>>, amount |-> <<64, 72>>,
                   delegate |-> <<72, 108>>, state |-> <<108, 109>>,
                   is_native |-> <<109, 121>>, delegated_amount |-> <<121, 129>>,
                   close_authority |-> <<129, 165>>])

-----------------------------------------------------------------------------
(* The instructions of main and its transactions: the payer is Alice. *)

NewMint       == SysCreateAccount(Alice, mint, MinimumBalance(MINT_LEN), MINT_LEN, "Token")
InitMint      == InitializeMint2Ix("Token", mint, Alice)
OpenAta(wallet) == CreateAtaIx(Alice, wallet, mint, "Token")
Issue(amount) == MintToIx("Token", mint, AtaOf(Alice), Alice, amount)
Pay(amount)   == TransferCheckedIx("Token", AtaOf(Alice), mint, AtaOf(Bob), Alice, amount)

Sent(ixs, extra) == Send(Alice, ixs, extra)

-----------------------------------------------------------------------------
(* The script of main from its section 2 on.  What comes before is left out:
   the airdrop with its loop, which has no limit (main.rs 164-165, as in 04 and
   05), so Alice's funds are not counted; and section 1, which prints her
   wallet. *)

\* Mutant: the account is created in one transaction, initialized in the next.
CreateMint_Split ==
  << Sent(<<NewMint>>, {mint}), Sent(<<InitMint>>, {}), ShowMint("new_mint") >>

CreateMint == << Sent(<<NewMint, InitMint>>, {mint}), ShowMint("new_mint") >>

FundAlice ==
  << Sent(<<OpenAta(Alice)>>, {}),    ShowTokenAccount("new_account", AtaOf(Alice)),
     Sent(<<Issue(1000000000)>>, {}), ShowMint("minted"),
     ShowTokenAccount("funded", AtaOf(Alice)) >>

TooEarly == << Simulate("too_early", Pay(1)) >>

\* Mutant: the transfer comes before the account it needs.
PayBob_TransferFirst ==
  << Sent(<<Pay(250000000), OpenAta(Bob)>>, {}) >>

PayBob ==
  << Sent(<<OpenAta(Bob), Pay(250000000)>>, {}),
     ShowTokenAccount("sender", AtaOf(Alice)), ShowTokenAccount("receiver", AtaOf(Bob)) >>

Invariant == << Read("mint", mint, [supply |-> <<36, 44>>]),
                Read("alice", AtaOf(Alice), AmountBytes),
                Read("bob", AtaOf(Bob), AmountBytes) >>

SplScript == CreateMint \o FundAlice \o TooEarly \o PayBob \o Invariant

SplInit == ClientInit /\ todo = SplScript

SplSpec == SplInit /\ [][Next]_vars

-----------------------------------------------------------------------------
(* Properties *)

\* Initializing a mint asks for no signature, so only doing it in the
\* transaction that creates the account keeps the authority Alice's
\* (main.rs 180-183).
AuthorityIsAlice == IsA(ledger, "mint", mint) => ledger.accts[mint].data.authority = Alice

\* A run that reaches its end has shown what README 06:53-62 promises: the
\* transfer of section 5 came before Bob's account existed and was refused for
\* that, and the numbers of section 7 add up, with the transfer in them,
\* although they are read in three calls with others' transactions in between.
ReportAsPromised ==
  Done => /\ report["too_early"] = "InvalidAccountData"
          /\ report["mint"].supply = report["alice"].amount + report["bob"].amount
          /\ report["alice"].amount = 750000000

\* What the transactions before a report made of the account it decodes.
MintReports    == {"new_mint", "minted"}
AccountReports == {"new_account", "funded", "sender", "receiver"}

MintAsMade(what) ==
  [mint_authority |-> Alice, supply |-> IF what = "minted" THEN 1000000000 ELSE 0,
   decimals |-> DECIMALS, is_initialized |-> TRUE, freeze_authority |-> "none"]

AccountAsMade(what) ==
  [mint |-> mint, owner |-> IF what = "receiver" THEN Bob ELSE Alice,
   amount |-> CASE what = "new_account" -> 0          [] what = "funded"   -> 1000000000
                [] what = "sender"      -> 750000000  [] what = "receiver" -> 250000000,
   delegate |-> "none", state |-> "Initialized", is_native |-> "none",
   delegated_amount |-> "none", close_authority |-> "none"]

\* Every account main decodes, the mint twice and a token account four times,
\* shows under each field's name what the transactions before it made of it,
\* whatever others did: no field is cut from bytes of its neighbours
\* (main.rs 9-11, 61-89).
ShownAccountsAreRight ==
  /\ \A what \in DOMAIN report \cap MintReports    : report[what] = MintAsMade(what)
  /\ \A what \in DOMAIN report \cap AccountReports : report[what] = AccountAsMade(what)

\* The inductive invariant.  The ledger as main believes it when the first n
\* calls of its script have been made.
SplHeld(n) == [w \in Wallets |->
  CASE w = Alice -> IF n < 5 THEN 0 ELSE IF n < 9 THEN 1000000000 ELSE 750000000
    [] w = Bob   -> IF n < 9 THEN 0 ELSE 250000000
    [] OTHER     -> 0]

SplMint(n) ==
  [Mint(Alice, DECIMALS, NoFee) EXCEPT !.supply = IF n < 5 THEN 0 ELSE 1000000000]

SplView(n) ==
  [plain |-> {}, floor |-> 0,
   mints |-> [m \in (IF n < 1 THEN {} ELSE {mint}) |-> Row("Token", SplMint(n), SplHeld(n), 0)],
   open  |-> (IF n < 3 THEN {} ELSE {<<Alice, mint>>})
               \cup (IF n < 9 THEN {} ELSE {<<Bob, mint>>})]

SplMade == Len(SplScript) - Len(todo)

\* What main has printed and still counts on.
SplShown(n) ==
  /\ ShownAccountsAreRight
  /\ n >= 8  => \/ Shown("too_early", "InvalidAccountData")
                \/ n = 8 /\ Exists(ledger, AtaOf(Bob))
  /\ n >= 12 => Shown("mint", [supply |-> 1000000000])
  /\ n >= 13 => Shown("alice", [amount |-> 750000000])
  /\ n >= 14 => Shown("bob", [amount |-> 250000000])

SplInv ==
  /\ SplMade \in 0 .. Len(SplScript)
  /\ todo = SubSeq(SplScript, SplMade + 1, Len(SplScript))
  /\ outcome \in {"running", "failed", "rpc_error"}
  /\ \/ Fits(ledger, SplView(SplMade))
     \/ outcome = "rpc_error" /\ Fits(ledger, SplView(SplMade + 1))
  /\ SplShown(SplMade)
  /\ FailsOnlyOnForeignAta

=============================================================================
