--------------------------- MODULE SolanaRuntime ---------------------------
(***************************************************************************)
(* The part of the Solana runtime that an on-chain program of this         *)
(* repository relies on.  None of it is code of the repository: it is      *)
(* modelled from how 05-counter-pda and 07-anchor-hello-solana use it.     *)
(*                                                                         *)
(* A transaction runs alone on the accounts it writes (the scheduler       *)
(* locks them), one instruction after the other, on a working copy of the  *)
(* bank.  The copy becomes the bank when every instruction succeeded and   *)
(* every account is rent-exempt; otherwise it is dropped, and only the fee *)
(* taken at the start stays.  simulateTransaction runs the same            *)
(* instructions and always drops the copy.  The instructions of a message  *)
(* are chosen one at a time, which gives the same executions as choosing   *)
(* the whole message first.                                                *)
(***************************************************************************)
EXTENDS Integers, FiniteSets

CONSTANTS
  Keys,             \* ed25519 public keys: the addresses that can sign
  Pdas,             \* addresses off the curve: nobody holds their key
  System,           \* the System Program, whose id is the all-zero key
  Program,          \* the program under study
  Other,            \* any other program
  Lens,             \* the data lengths accounts can have
  RentMin,          \* data length -> rent-exempt minimum
  Data,             \* what account data can decode to
  ZeroData,         \* freshly allocated (zero-filled) data
  FeePerSignature,
  Funding,          \* lamports of every key in the genesis bank
  ForeignData,      \* bound: the data other programs write
  Amounts,          \* lamports one system instruction moves
  MaxIxs            \* bound: instructions in a transaction

Addresses == Keys \cup Pdas
Owners    == {System, Program, Other}

ASSUME KeysAssumption ==
  /\ IsFiniteSet(Keys)
  /\ Keys \cap Pdas = {}
  /\ {System, Program, Other} \cap Addresses = {}

ASSUME OwnersDiffer == System # Program /\ System # Other /\ Program # Other

ASSUME RentAssumption ==
  /\ Lens \subseteq Nat /\ 0 \in Lens
  /\ RentMin \in [Lens -> Nat \ {0}]

ASSUME DataAssumption == ZeroData \in Data /\ ForeignData \subseteq Data

ASSUME FundsAssumption ==
  /\ FeePerSignature \in Nat
  /\ Amounts \subseteq Nat
  /\ MaxIxs \in Nat
  /\ Funding \in [Keys -> Nat]
  /\ \A k \in Keys : Funding[k] = 0 \/ Funding[k] >= RentMin[0]

Account == [lamports : Nat, owner : Owners, len : Lens, data : Data]

\* An address nothing was ever stored at reads as this account.
Absent == [lamports |-> 0, owner |-> System, len |-> 0, data |-> ZeroData]

WithLamports(acct, n) == [lamports |-> n, owner |-> acct.owner,
                          len |-> acct.len, data |-> acct.data]

WithData(acct, d) == [lamports |-> acct.lamports, owner |-> acct.owner,
                      len |-> acct.len, data |-> d]

VARIABLES
  bank,      \* the committed accounts
  working,   \* the accounts as the running transaction sees them
  tx         \* the running transaction

rtVars == <<bank, working, tx>>

Idle == [status |-> "idle", mode |-> "send", signers |-> {}, ixs |-> 0]

TxRecord == [status  : {"idle", "running"},
             mode    : {"send", "simulate"},
             signers : SUBSET Keys,
             ixs     : 0 .. MaxIxs]

\* Type correctness; between transactions the working copy is the bank, and
\* somebody signed the one that runs.
TypeOK ==
  /\ bank    \in [Addresses -> Account]
  /\ working \in [Addresses -> Account]
  /\ tx      \in TxRecord
  /\ tx.status = "idle" => tx = Idle /\ working = bank
  /\ tx.status = "running" => tx.signers # {}

RuntimeInit ==
  /\ bank = [a \in Addresses |->
               IF a \in Keys THEN WithLamports(Absent, Funding[a])
                             ELSE Absent]
  /\ working = bank
  /\ tx = Idle

-----------------------------------------------------------------------------
(* Helpers on accounts. *)

\* AccountInfo::is_signer: the flag is set by the account's position in the
\* message, and the runtime verified a signature for every such position.
IsSigner(a) == a \in tx.signers

RentExempt(acct) == acct.lamports = 0 \/ acct.lamports >= RentMin[acct.len]

\* An account left without lamports disappears when the transaction commits.
Purged(accts) == [a \in Addresses |->
                    IF accts[a].lamports = 0 THEN Absent ELSE accts[a]]

\* The system program's transfer: the source signs, belongs to the system
\* program, carries no data and has the lamports.
CanTransfer(from, n) ==
  /\ IsSigner(from)
  /\ working[from].owner = System
  /\ working[from].len = 0
  /\ working[from].lamports >= n

Transferred(accts, from, to, n) ==
  [accts EXCEPT ![from] = WithLamports(@, @.lamports - n),
                ![to]   = WithLamports(@, @.lamports + n)]

\* create_account refuses a destination that holds lamports or data or has
\* an owner.
InUse(a) == \/ working[a].lamports > 0
            \/ working[a].len # 0
            \/ working[a].owner # System

\* What create_account answers when `to` has signed (for a PDA: the calling
\* program presented its seeds to invoke_signed).
CreateAccountError(from, to, n) ==
  IF InUse(to)                 THEN "AccountAlreadyInUse"
  ELSE IF ~CanTransfer(from, n) THEN "ResultWithNegativeLamports"
  ELSE "Ok"

AccountCreated(from, to, n, space, owner, d) ==
  [working EXCEPT ![from] = WithLamports(@, @.lamports - n),
                  ![to]   = [lamports |-> n, owner |-> owner,
                             len |-> space, data |-> d]]

-----------------------------------------------------------------------------
(* Transactions. *)

CanRunInstruction == tx.status = "running" /\ tx.ixs < MaxIxs

InstructionDone == tx' = [tx EXCEPT !.ixs = @ + 1]

RollBack == working' = bank /\ tx' = Idle /\ UNCHANGED bank

\* A transaction is admitted when its fee payer can pay for every signature
\* and stays rent-exempt (or empty).  A simulation takes the fee from the
\* working copy only.
BeginTransaction(payer, S, mode) ==
  LET fee  == FeePerSignature * Cardinality(S)
      paid == [bank EXCEPT ![payer] = WithLamports(@, @.lamports - fee)]
  IN  /\ tx.status = "idle"
      /\ payer \in S
      /\ bank[payer].owner = System /\ bank[payer].len = 0
      /\ bank[payer].lamports > 0 /\ bank[payer].lamports >= fee
      /\ RentExempt(paid[payer])
      /\ working' = Purged(paid)
      /\ bank' = IF mode = "send" THEN Purged(paid) ELSE bank
      /\ tx' = [status |-> "running", mode |-> mode, signers |-> S, ixs |-> 0]

SystemTransfer(from, to, n) ==
  /\ CanRunInstruction
  /\ from # to
  /\ CanTransfer(from, n)
  /\ working' = Transferred(working, from, to, n)
  /\ InstructionDone
  /\ UNCHANGED bank

SystemCreateAccount(from, to, n, space, owner) ==
  /\ CanRunInstruction
  /\ IsSigner(to) /\ from # to
  /\ CreateAccountError(from, to, n) = "Ok"
  /\ working' = AccountCreated(from, to, n, space, owner, ZeroData)
  /\ InstructionDone
  /\ UNCHANGED bank

\* Any other program writes what it likes into an account it owns.
ForeignWrite(a, d) ==
  /\ CanRunInstruction
  /\ working[a].owner = Other
  /\ working[a].len # 0
  /\ working' = [working EXCEPT ![a] = WithData(@, d)]
  /\ InstructionDone
  /\ UNCHANGED bank

CommitTransaction ==
  /\ tx.status = "running" /\ tx.mode = "send"
  /\ \A a \in Addresses : RentExempt(working[a])
  /\ bank' = Purged(working)
  /\ working' = Purged(working)
  /\ tx' = Idle

\* An account would be left below its rent-exempt minimum.
RentViolation ==
  /\ tx.status = "running" /\ tx.mode = "send"
  /\ \E a \in Addresses : ~RentExempt(working[a])
  /\ RollBack

\* An instruction of another program fails, or the compute budget is spent.
OtherFailure == CanRunInstruction /\ RollBack

EndSimulation ==
  /\ tx.status = "running" /\ tx.mode = "simulate"
  /\ RollBack

RuntimeNext ==
  \/ \E S \in SUBSET Keys, mode \in {"send", "simulate"} :
       \E payer \in S : BeginTransaction(payer, S, mode)
  \/ \E from \in Keys, to \in Addresses, n \in Amounts :
       SystemTransfer(from, to, n)
  \/ \E from \in Keys, to \in Keys, n \in Amounts, space \in Lens,
        owner \in Owners : SystemCreateAccount(from, to, n, space, owner)
  \/ \E a \in Keys, d \in ForeignData : ForeignWrite(a, d)
  \/ CommitTransaction
  \/ RentViolation
  \/ OtherFailure
  \/ EndSimulation

=============================================================================
