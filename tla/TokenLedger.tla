---------------------------- MODULE TokenLedger ----------------------------
(***************************************************************************)
(* The System, SPL Token, Token-2022 and Associated Token Account programs *)
(* as the clients of exercises 03 and 06 use them.  None of it is code of  *)
(* the repository.  An instruction is an operator from a ledger to a       *)
(* ledger; the first error stays and the transaction is dropped.  The      *)
(* clients' payer is funded far above what it spends, so lamports are kept *)
(* only for the accounts that receive them.                                *)
(***************************************************************************)
EXTENDS Integers, Sequences

CONSTANTS
  Wallets,   \* the System-owned accounts with a key
  NewKeys,   \* the other keys a client makes, to create accounts at
  Ata,       \* wallet -> key -> token program -> associated token address
  MaxU64     \* bound: the largest u64

TokenPrograms == {"Token", "Token2022"}

AtaSeeds == Wallets \X NewKeys \X TokenPrograms

\* Associated addresses are off the curve, so no key has one.
ASSUME AtaAssumption ==
  \A s, t \in AtaSeeds :
    /\ Ata[s[1]][s[2]][s[3]] \notin NewKeys
    /\ Ata[s[1]][s[2]][s[3]] = Ata[t[1]][t[2]][t[3]] => s = t

\* What the clients mint fits.
ASSUME SupplyAssumption == MaxU64 \in Nat /\ MaxU64 >= 1000000000

NoFee == [bps |-> 0, max |-> 0]

Raw(fee) == [kind |-> "raw", fee |-> fee]

\* Rent-exempt: two years at 3480 lamports for a byte and a year.
MinimumBalance(space) == (128 + space) * 6960

Mint(authority, decimals, fee) ==
  [kind |-> "mint", authority |-> authority, decimals |-> decimals,
   is_initialized |-> TRUE, supply |-> 0, fee |-> fee]

TokenAccount(mint, owner) ==
  [kind |-> "account", mint |-> mint, owner |-> owner, amount |-> 0,
   state |-> "Initialized", withheld |-> 0]

EmptyLedger == [accts |-> [a \in {} |-> a], err |-> "none"]

With(f, x, v) == [y \in DOMAIN f \cup {x} |-> IF y = x THEN v ELSE f[y]]

Exists(l, a)     == a \in DOMAIN l.accts
IsA(l, kind, a)  == Exists(l, a) /\ l.accts[a].data.kind = kind
Of(l, a, p)      == l.accts[a].program = p
Failed(l, e)     == [accts |-> l.accts, err |-> e]

Stored(l, a, p, space, lamports, d) ==
  [accts |-> With(l.accts, a, [program |-> p, space |-> space,
                               lamports |-> lamports, data |-> d]),
   err   |-> l.err]

Rewritten(l, a, d) ==
  LET x == l.accts[a] IN Stored(l, a, x.program, x.space, x.lamports, d)

CreateAccount(l, ix) ==
  IF Exists(l, ix.new) THEN Failed(l, "AccountAlreadyInUse")
  ELSE IF ix.lamports < MinimumBalance(ix.space) THEN Failed(l, "InsufficientFundsForRent")
  ELSE Stored(l, ix.new, ix.owner, ix.space, ix.lamports, Raw(NoFee))

SolTransfer(l, ix) ==
  LET x == l.accts[ix.to]
  IN  Stored(l, ix.to, x.program, x.space, x.lamports + ix.lamports, x.data)

\* A mint has exactly the bytes its extensions need.
MintSpace(fee) == IF fee = NoFee THEN 82 ELSE 278

\* Asks for no signature, as the next one: whoever comes first decides.
InitializeTransferFeeConfig(l, ix) ==
  IF ~(IsA(l, "raw", ix.mint) /\ Of(l, ix.mint, "Token2022"))
     \/ l.accts[ix.mint].space < MintSpace(ix.fee)
     \/ l.accts[ix.mint].data.fee # NoFee
  THEN Failed(l, "InvalidAccountData")
  ELSE Rewritten(l, ix.mint, Raw(ix.fee))

InitializeMint2(l, ix) ==
  IF ~(IsA(l, "raw", ix.mint) /\ Of(l, ix.mint, ix.program))
     \/ l.accts[ix.mint].space # MintSpace(l.accts[ix.mint].data.fee)
  THEN Failed(l, "InvalidAccountData")
  ELSE Rewritten(l, ix.mint,
                 Mint(ix.authority, ix.decimals, l.accts[ix.mint].data.fee))

\* Anybody may pay for anybody's account.  Tag 0 refuses an address that is
\* in use; tag 1 (CreateIdempotent) accepts it.
CreateAta(l, ix) ==
  IF ix.ata # Ata[ix.wallet][ix.mint][ix.program] THEN Failed(l, "InvalidSeeds")
  ELSE IF Exists(l, ix.ata)  THEN IF ix.tag = 1 THEN l ELSE Failed(l, "IllegalOwner")
  ELSE IF ~(IsA(l, "mint", ix.mint) /\ Of(l, ix.mint, ix.program))
                             THEN Failed(l, "InvalidMint")
  ELSE Stored(l, ix.ata, ix.program, 165, MinimumBalance(165), TokenAccount(ix.mint, ix.wallet))

IsAccountOf(l, a, mint) == IsA(l, "account", a) /\ l.accts[a].data.mint = mint

MintTo(l, ix) ==
  IF ~(IsA(l, "mint", ix.mint) /\ IsAccountOf(l, ix.dest, ix.mint))
     \/ ~Of(l, ix.mint, ix.program)                     THEN Failed(l, "InvalidAccountData")
  ELSE LET m == l.accts[ix.mint].data
       IN  IF m.authority # ix.authority                THEN Failed(l, "OwnerMismatch")
           ELSE IF m.supply + ix.amount > MaxU64        THEN Failed(l, "Overflow")
           ELSE Rewritten(Rewritten(l, ix.mint, [m EXCEPT !.supply = @ + ix.amount]),
                          ix.dest, [l.accts[ix.dest].data EXCEPT !.amount = @ + ix.amount])

\* Basis points of the amount, rounded up, capped.
FeeOf(fee, amount) ==
  LET f == (amount * fee.bps + 9999) \div 10000
  IN  IF fee.bps = 0 THEN 0 ELSE IF f > fee.max THEN fee.max ELSE f

\* The fee is withheld in the receiver's account.
TransferChecked(l, ix) ==
  IF ~(IsAccountOf(l, ix.src, ix.mint) /\ IsAccountOf(l, ix.dst, ix.mint))
     \/ ~Of(l, ix.mint, ix.program)                     THEN Failed(l, "InvalidAccountData")
  ELSE LET m == l.accts[ix.mint].data
           s == l.accts[ix.src].data
           d == l.accts[ix.dst].data
           f == FeeOf(m.fee, ix.amount)
           c == [d EXCEPT !.amount = @ + ix.amount - f]
       IN  IF s.amount < ix.amount                      THEN Failed(l, "InsufficientFunds")
           ELSE IF m.decimals # ix.decimals             THEN Failed(l, "MintDecimalsMismatch")
           ELSE IF s.owner # ix.authority               THEN Failed(l, "OwnerMismatch")
           ELSE IF ix.src = ix.dst                      THEN l
           ELSE Rewritten(Rewritten(l, ix.src, [s EXCEPT !.amount = @ - ix.amount]),
                          ix.dst, [c EXCEPT !.withheld = @ + f])

\* Withheld fees can be taken out of an account by anybody; the mint keeps
\* them, which nothing here looks at.
HarvestWithheld(l, ix) ==
  IF ~(IsA(l, "account", ix.from) /\ Of(l, ix.from, "Token2022"))
  THEN Failed(l, "InvalidAccountData")
  ELSE Rewritten(l, ix.from, [l.accts[ix.from].data EXCEPT !.withheld = 0])

Execute(l, ix) ==
  IF l.err # "none" THEN l
  ELSE CASE ix.op = "createAccount"   -> CreateAccount(l, ix)
         [] ix.op = "transfer"        -> SolTransfer(l, ix)
         [] ix.op = "initFee"         -> InitializeTransferFeeConfig(l, ix)
         [] ix.op = "initializeMint2" -> InitializeMint2(l, ix)
         [] ix.op = "createAta"       -> CreateAta(l, ix)
         [] ix.op = "mintTo"          -> MintTo(l, ix)
         [] ix.op = "transferChecked" -> TransferChecked(l, ix)
         [] ix.op = "harvest"         -> HarvestWithheld(l, ix)

\* A transaction is all or nothing; simulateTransaction computes the same.
\* Bound: none of the clients' has more than three instructions.
RunTransaction(l, ixs) ==
  LET one == Execute(l, ixs[1])
      two == IF Len(ixs) < 2 THEN one ELSE Execute(one, ixs[2])
  IN  IF Len(ixs) < 3 THEN two ELSE Execute(two, ixs[3])

-----------------------------------------------------------------------------
(* The layouts of the programs' accounts: the fields in order, with their
   widths; an optional value takes a tag of four bytes. *)

MintLayout == << <<"authority", 36>>, <<"supply", 8>>, <<"decimals", 1>>,
                 <<"is_initialized", 1>>, <<"freeze_authority", 36>> >>

AccountLayout == << <<"mint", 32>>, <<"owner", 32>>, <<"amount", 8>>,
                    <<"delegate", 36>>, <<"state", 1>>, <<"is_native", 12>>,
                    <<"delegated_amount", 8>>, <<"close_authority", 36>> >>

\* Where each field begins, and the last one ends.
Offsets(layout) ==
  LET off[i \in 1 .. Len(layout) + 1] ==
        IF i = 1 THEN 0 ELSE off[i - 1] + layout[i - 1][2]
  IN  off

\* What the bytes from .. to - 1 of an account hold.
BytesOf(d, from, to) ==
  LET layout == IF d.kind = "mint" THEN MintLayout ELSE AccountLayout
      hit(i) == Offsets(layout)[i] = from /\ Offsets(layout)[i + 1] = to
  IN  IF \E i \in DOMAIN layout : hit(i)
      THEN LET name == layout[CHOOSE i \in DOMAIN layout : hit(i)][1]
           IN  IF name \in DOMAIN d THEN d[name] ELSE "none"
      ELSE "garbage"

=============================================================================
