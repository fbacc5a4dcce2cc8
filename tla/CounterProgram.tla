--------------------------- MODULE CounterProgram ---------------------------
(***************************************************************************)
(* The on-chain program of exercise 05 (05-counter-pda/program): one       *)
(* counter per user, stored in an account at a program-derived address.    *)
(* Initialize and Increment are the program's two handlers; every early    *)
(* return of theirs is an error code, in the order the code tests them.    *)
(* All other steps are the runtime's (SolanaRuntime).                      *)
(***************************************************************************)
EXTENDS SolanaRuntime

CONSTANTS
  Bumps,     \* bound: the bump bytes considered, a subset of 0..255
  Derive,    \* key -> bump -> hash of the seeds, an address or OnCurve
  OnCurve,   \* the seeds hash to a point on the curve: no address
  MaxU64     \* bound: the largest u64 (2^64 - 1 in the program)

COUNTER_LEN == 41

\* find_program_address tries the bumps from 255 down and returns the first
\* that lands off the curve.
IsCanonical(user, b) ==
  /\ b \in Bumps
  /\ Derive[user][b] # OnCurve
  /\ \A c \in Bumps : Derive[user][c] # OnCurve => c <= b

\* Mutant: counts up from the lowest bump.
CanonicalBump_Lowest(user) ==
  CHOOSE b \in Bumps : /\ Derive[user][b] # OnCurve
                       /\ \A c \in Bumps : Derive[user][c] # OnCurve => b <= c

CanonicalBump(user) == CHOOSE b \in Bumps : IsCanonical(user, b)

FindProgramAddress(user) == Derive[user][CanonicalBump(user)]

\* The layout of the account: count, authority, bump.  The all-zero key is
\* the id of the System Program.
CounterData == [count     : 0 .. MaxU64,
                authority : Keys \cup {System},
                bump      : Bumps]

\* Mutant: the bump is never stored.
NewCounter_NoBump(user) == [count |-> 0, authority |-> user, bump |-> 0]

\* What initialize writes over the fresh account.
NewCounter(user) ==
  [count |-> 0, authority |-> user, bump |-> CanonicalBump(user)]

ASSUME BumpsAssumption == Bumps \subseteq 0 .. 255 /\ 0 \in Bumps

ASSUME DeriveType ==
  /\ Derive \in [Keys -> [Bumps -> Pdas \cup {OnCurve}]]
  /\ OnCurve \notin Addresses

\* find_program_address always finds a bump.
ASSUME CanonicalExists == \A k \in Keys : \E b \in Bumps : IsCanonical(k, b)

\* No two seed sets hash to one address.
ASSUME NoCollisions ==
  \A k, l \in Keys, b, c \in Bumps :
    Derive[k][b] = Derive[l][c] /\ Derive[k][b] # OnCurve => k = l /\ b = c

ASSUME LayoutAssumption ==
  /\ MaxU64 \in Nat
  /\ COUNTER_LEN \in Lens
  /\ Data = CounterData
  /\ ZeroData = [count |-> 0, authority |-> System, bump |-> 0]

\* Mutant: naming a user is enough.
Unsigned_Never(user) == user \notin Keys

\* Both handlers begin with the signature check.
Unsigned(user) == ~IsSigner(user)

-----------------------------------------------------------------------------
(* initialize *)

\* Mutant: the negation is lost.
DataIsEmpty_Inverted(a) == working[a].len # 0

DataIsEmpty(a) == working[a].len = 0

\* Mutant: rent for an account without data.
InitialLamports_Empty == RentMin[0]

InitialLamports == RentMin[COUNTER_LEN]

InitializeError(user, counter, system) ==
  IF Unsigned(user)                           THEN "MissingRequiredSignature"
  ELSE IF system # System                     THEN "IncorrectProgramId"
  ELSE IF FindProgramAddress(user) # counter  THEN "InvalidSeeds"
  ELSE IF ~DataIsEmpty(counter)               THEN "AccountAlreadyInitialized"
  ELSE CreateAccountError(user, counter, InitialLamports)

\* The System Program creates the account in an inner call, then the handler
\* writes count, authority and bump.
Initialize(user, counter, system) ==
  /\ CanRunInstruction
  /\ InitializeError(user, counter, system) = "Ok"
  /\ working' =
       AccountCreated(user, counter, InitialLamports, COUNTER_LEN, Program,
                      NewCounter(user))
  /\ InstructionDone
  /\ UNCHANGED bank

-----------------------------------------------------------------------------
(* increment *)

OwnedByProgram(counter) == working[counter].owner = Program

\* Mutant: the authority check is deleted.
StoredAuthorityIs_Skipped(user, counter) == TRUE

StoredAuthorityIs(user, counter) == working[counter].data.authority = user

\* Mutant: the address is not derived again.
IsPdaOf_Skipped(user, counter) == TRUE

\* create_program_address with the stored bump.  It fails with the same code
\* when the seeds hash to the curve.
IsPdaOf(user, counter) == Derive[user][working[counter].data.bump] = counter

Overflows(counter, by) == working[counter].data.count + by > MaxU64

IncrementError(user, counter, by) ==
  IF Unsigned(user)                             THEN "MissingRequiredSignature"
  ELSE IF ~OwnedByProgram(counter)              THEN "IllegalOwner"
  ELSE IF working[counter].len # COUNTER_LEN    THEN "InvalidAccountData"
  ELSE IF ~StoredAuthorityIs(user, counter)     THEN "InvalidAccountOwner"
  ELSE IF ~IsPdaOf(user, counter)               THEN "InvalidSeeds"
  ELSE IF Overflows(counter, by)                THEN "ArithmeticOverflow"
  ELSE "Ok"

CountSetTo(counter, n) ==
  [working EXCEPT ![counter] =
     WithData(@, [count     |-> n,
                  authority |-> @.data.authority,
                  bump      |-> @.data.bump])]

\* Mutant: stores `by` in place of the sum.
Increment_Overwrites(user, counter, by) ==
  /\ CanRunInstruction
  /\ IncrementError(user, counter, by) = "Ok"
  /\ working' = CountSetTo(counter, by)
  /\ InstructionDone
  /\ UNCHANGED bank

Increment(user, counter, by) ==
  /\ CanRunInstruction
  /\ IncrementError(user, counter, by) = "Ok"
  /\ working' = CountSetTo(counter, working[counter].data.count + by)
  /\ InstructionDone
  /\ UNCHANGED bank

-----------------------------------------------------------------------------
(* process_instruction *)

\* Instruction data that does not decode: empty, an unknown tag, or tag 1
\* without eight more bytes.  Too few accounts fail in next_account_info.
MalformedInstruction == CanRunInstruction /\ RollBack

FailedInitialize ==
  /\ CanRunInstruction
  /\ ~ \A user, counter \in Addresses, system \in {System, Other} :
         InitializeError(user, counter, system) = "Ok"
  /\ RollBack

FailedIncrement ==
  /\ CanRunInstruction
  /\ ~ \A user, counter \in Addresses, by \in 0 .. MaxU64 :
         IncrementError(user, counter, by) = "Ok"
  /\ RollBack

ProcessInstruction ==
  \/ \E user, counter \in Addresses, system \in {System, Other} :
       Initialize(user, counter, system)
  \/ \E user, counter \in Addresses, by \in 0 .. MaxU64 :
       Increment(user, counter, by)
  \/ MalformedInstruction
  \/ FailedInitialize
  \/ FailedIncrement

Init == RuntimeInit

Next == ProcessInstruction \/ RuntimeNext

Spec == Init /\ [][Next]_rtVars

-----------------------------------------------------------------------------
(* Properties *)

Live(accts, p) == accts[p].owner = Program

\* Every non-zero account the program owns is the counter of the key stored
\* in it, at the address find_program_address gives for that key, with the
\* bump that reproduces the address (lib.rs 63-70, 93-96, 129-136).  An
\* account somebody created for the program at an ordinary key stays zero.
CounterIntegrity ==
  \A accts \in {bank, working}, a \in Addresses :
    Live(accts, a) =>
      \/ a \in Keys /\ accts[a].data = ZeroData
      \/ /\ accts[a].len = COUNTER_LEN
         /\ accts[a].data.authority \in Keys
         /\ IsCanonical(accts[a].data.authority, accts[a].data.bump)
         /\ Derive[accts[a].data.authority][accts[a].data.bump] = a

\* The lamports initialize moves keep the counter rent-exempt, so its
\* transaction is never turned down at the end for rent (lib.rs 76-85).
LiveCounterRentExempt ==
  \A p \in Pdas : Live(working, p) =>
    working[p].lamports >= RentMin[working[p].len]

\* Whoever signs with somebody else's counter is told InvalidAccountOwner
\* (README 05:52, client main.rs 130-139): no earlier check gives another
\* answer first, and no sum is computed.
OthersGetInvalidAccountOwner ==
  \A u \in tx.signers, v \in Keys, by \in 0 .. MaxU64 :
    u # v /\ Live(working, FindProgramAddress(v)) =>
      IncrementError(u, FindProgramAddress(v), by) = "InvalidAccountOwner"

\* The authority of a counter can always add to it while the sum fits: the
\* bump initialize stored is the one increment needs to find the address.
OwnerCanIncrement ==
  \A u \in tx.signers, by \in 0 .. MaxU64 :
    LET p == FindProgramAddress(u)
    IN  Live(working, p) /\ working[p].data.count + by <= MaxU64
          => IncrementError(u, p, by) = "Ok"

\* initialize succeeds exactly on an address nothing was ever sent to.  A PDA
\* that holds lamports and no data passes data_is_empty and is turned down by
\* create_account (lib.rs 71-91); one with a counter by data_is_empty.
InitializeExactlyWhenAbsent ==
  \A u \in tx.signers :
    LET p == FindProgramAddress(u)
    IN  InitializeError(u, p, System) = "Ok"
          <=> working[p] = Absent /\ CanTransfer(u, InitialLamports)

\* No look-alike account reaches the addition, the owner check (lib.rs
\* 109-114) left aside: an account that passes the length, authority and
\* address checks is one the program owns.  The comment there says otherwise:
\* see OnlyOwnerCheckRefuses.
OwnerCheckImplied ==
  \A u \in tx.signers, a \in Addresses :
    /\ working[a].len = COUNTER_LEN
    /\ StoredAuthorityIs(u, a)
    /\ IsPdaOf(u, a)
    => OwnedByProgram(a)

\* A committed counter changes only by a transaction its authority signed and
\* sent (lib.rs 106, 123-128).
OwnCounterOnly ==
  [][\A p \in Pdas :
       Live(bank, p) /\ bank'[p].data # bank[p].data =>
         /\ bank[p].data.authority \in tx.signers
         /\ tx.mode = "send"]_rtVars

\* A committed counter is never closed, opened again, handed over or lowered,
\* and never loses lamports: no sequence of transactions resets it.
CounterPermanent ==
  [][\A p \in Pdas : Live(bank, p) =>
       /\ Live(bank', p)
       /\ bank'[p].data.authority = bank[p].data.authority
       /\ bank'[p].data.bump      = bank[p].data.bump
       /\ bank'[p].data.count    >= bank[p].data.count
       /\ bank'[p].lamports      >= bank[p].lamports]_rtVars

\* The inductive invariant behind all of these.  A PDA is untouched but for
\* lamports sent to it, or it is the rent-exempt counter of the key it was
\* derived from; an account of the program at an ordinary key is zero; and
\* the running transaction has only done to a counter what its authority,
\* who signed, may do.
PdaOK(acct, p) ==
  \/ /\ acct.owner = System
     /\ acct.len = 0
     /\ acct.data = ZeroData
  \/ /\ acct.owner = Program
     /\ acct.len = COUNTER_LEN
     /\ acct.lamports >= RentMin[COUNTER_LEN]
     /\ acct.data.authority \in Keys
     /\ IsCanonical(acct.data.authority, acct.data.bump)
     /\ Derive[acct.data.authority][acct.data.bump] = p

KeyOK(acct) == acct.owner = Program => acct.data = ZeroData

Shape(accts) == /\ \A p \in Pdas : PdaOK(accts[p], p)
                /\ \A k \in Keys : KeyOK(accts[k])

Follows(acct, next, S) ==
  /\ next.owner = Program
  /\ next.lamports       >= acct.lamports
  /\ next.data.authority  = acct.data.authority
  /\ next.data.bump       = acct.data.bump
  /\ next.data.count     >= acct.data.count
  /\ next.data # acct.data => acct.data.authority \in S

Later(old, new, S) ==
  \A p \in Pdas : Live(old, p) => Follows(old[p], new[p], S)

CounterInv ==
  /\ TypeOK
  /\ Shape(bank)
  /\ Shape(working)
  /\ Later(bank, working, tx.signers)

\* The claim of README 05:63-65 and client main.rs 143-145: only the
\* authority check stands between a signer and somebody else's counter, so
\* that without it the increment goes through.  The program's next check
\* derives the address from the signer's own key and fails too.
OnlyAuthorityCheckRefuses ==
  \A u \in tx.signers, v \in Keys :
    u # v /\ Live(working, FindProgramAddress(v))
      => IsPdaOf(u, FindProgramAddress(v))

\* The claim of lib.rs 109-110 and README 05:73-75: without the owner check
\* the program would write to a look-alike account of some other program, so
\* that an exact copy of the signer's counter passes the checks after it.  The
\* address check refuses every one of them.
OnlyOwnerCheckRefuses ==
  \A u \in tx.signers, a \in Addresses :
    /\ working[a].owner = Other
    /\ working[a].len = COUNTER_LEN
    /\ StoredAuthorityIs(u, a)
    /\ working[a].data.bump = CanonicalBump(u)
    => IsPdaOf(u, a)

-----------------------------------------------------------------------------
(* The program implements CounterSpec. *)

CountOf(accts) ==
  [u \in Keys |-> IF Live(accts, FindProgramAddress(u))
                  THEN accts[FindProgramAddress(u)].data.count
                  ELSE -1]

Abs == INSTANCE CounterSpec
         WITH Users     <- Keys,
              MaxCount  <- MaxU64,
              committed <- CountOf(bank),
              tentative <- CountOf(working),
              signers   <- tx.signers

\* With accounts, fees and rent hidden, transactions of the program are
\* transactions on the abstract counters.
RefinesCounterSpec == Abs!Spec

=============================================================================
