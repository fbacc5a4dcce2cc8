---------------------------- MODULE AnchorCounter ----------------------------
(***************************************************************************)
(* The on-chain program of exercise 07 (07-anchor-hello-solana): a single  *)
(* counter for the whole program, at the address derived from one seed.    *)
(* The account constraints in #[derive(Accounts)] run before the handler   *)
(* and are part of it here, in the order the framework tests them; what    *)
(* `init`, `Signer`, `Account` and `seeds` do is the Anchor framework's.   *)
(***************************************************************************)
EXTENDS SolanaRuntime

CONSTANTS
  CounterPda,   \* find_program_address of [COUNTER_SEED]
  MAX_COUNT     \* 10 in the program

HELLO_WORLD_LAMPORTS == 1

\* 8 bytes of discriminator, a u64 and a key.
SPACE == 48

\* state.rs: what an account that carries the Counter discriminator decodes
\* to.  Accounts of other types, fresh ones included, have tag "none".
CounterData == [tag       : {"none", "Counter"},
                count     : 0 .. MAX_COUNT,
                authority : Keys \cup {System}]

ASSUME AnchorAssumption ==
  /\ CounterPda \in Pdas
  /\ MAX_COUNT \in Nat
  /\ SPACE \in Lens
  /\ Data = CounterData
  /\ ZeroData = [tag |-> "none", count |-> 0, authority |-> System]

-----------------------------------------------------------------------------
(* initialize *)

\* The first assignments of handle_initialize.
NewCounter(payer) == [tag |-> "Counter", count |-> 0, authority |-> payer]

\* `init` tops an account that already holds lamports up to the rent-exempt
\* minimum, then allocates and assigns it; on an empty one it calls
\* create_account.
Shortfall(a) == IF working[a].lamports < RentMin[SPACE]
                THEN RentMin[SPACE] - working[a].lamports
                ELSE 0

\* allocate and assign refuse an account with data or an owner.
Allocatable(a) == working[a].len = 0 /\ working[a].owner = System

\* Mutant: only an account without lamports is created (a plain
\* create_account, as in exercise 05).
InitializeError_NoPrefund(payer, counter, system) ==
  IF ~IsSigner(payer)             THEN "AccountNotSigner"
  ELSE IF system # System         THEN "InvalidProgramId"
  ELSE IF counter # CounterPda    THEN "ConstraintSeeds"
  ELSE IF InUse(counter)          THEN "AccountAlreadyInUse"
  ELSE IF ~CanTransfer(payer, Shortfall(counter) + HELLO_WORLD_LAMPORTS)
                                  THEN "InsufficientFunds"
  ELSE "Ok"

InitializeError(payer, counter, system) ==
  IF ~IsSigner(payer)             THEN "AccountNotSigner"
  ELSE IF system # System         THEN "InvalidProgramId"
  ELSE IF counter # CounterPda    THEN "ConstraintSeeds"
  ELSE IF ~Allocatable(counter)   THEN "AccountAlreadyInUse"
  ELSE IF ~CanTransfer(payer, Shortfall(counter) + HELLO_WORLD_LAMPORTS)
                                  THEN "InsufficientFunds"
  ELSE "Ok"

\* Mutant: the transfer of the greeting is dropped.
Initialize_NoGreeting(payer, counter, system) ==
  /\ CanRunInstruction
  /\ InitializeError(payer, counter, system) = "Ok"
  /\ LET rent == Shortfall(counter)
     IN  working' =
           [working EXCEPT
              ![payer]   = WithLamports(@, @.lamports - rent),
              ![counter] = [lamports |-> @.lamports + rent, owner |-> Program,
                            len |-> SPACE, data |-> NewCounter(payer)]]
  /\ InstructionDone
  /\ UNCHANGED bank

\* `init` creates the account, the handler fills it in and sends it one more
\* lamport, and the framework stores it.
Initialize(payer, counter, system) ==
  /\ CanRunInstruction
  /\ InitializeError(payer, counter, system) = "Ok"
  /\ LET cost == Shortfall(counter) + HELLO_WORLD_LAMPORTS
     IN  working' =
           [working EXCEPT
              ![payer]   = WithLamports(@, @.lamports - cost),
              ![counter] = [lamports |-> @.lamports + cost, owner |-> Program,
                            len |-> SPACE, data |-> NewCounter(payer)]]
  /\ InstructionDone
  /\ UNCHANGED bank

-----------------------------------------------------------------------------
(* increment *)

\* Account<'info, Counter>: the owner and the discriminator.
IsCounterAccount(a) ==
  working[a].owner = Program /\ working[a].data.tag = "Counter"

\* Mutant: anybody may sign.
Authorized_Anyone(counter, authority) == TRUE

Authorized(counter, authority) ==
  working[counter].data.authority = authority

\* Mutant: one count too many.
BelowMaximum_OffByOne(counter) == working[counter].data.count <= MAX_COUNT

BelowMaximum(counter) == working[counter].data.count < MAX_COUNT

AtCounterPda(counter) == counter = CounterPda

IncrementError(counter, authority) ==
  IF ~IsCounterAccount(counter)              THEN "NotACounterAccount"
  ELSE IF ~IsSigner(authority)               THEN "AccountNotSigner"
  ELSE IF ~AtCounterPda(counter)             THEN "ConstraintSeeds"
  ELSE IF ~Authorized(counter, authority)    THEN "Unauthorized"
  ELSE IF ~BelowMaximum(counter)             THEN "CounterOverflow"
  ELSE "Ok"

CountSetTo(counter, n) ==
  [working EXCEPT ![counter] =
     WithData(@, [tag |-> @.data.tag, count |-> n,
                  authority |-> @.data.authority])]

\* Mutant: the authority is stored anew with every count.
Increment_TakesOver(counter, authority) ==
  /\ CanRunInstruction
  /\ IncrementError(counter, authority) = "Ok"
  /\ \E k \in Keys :
       working' = [working EXCEPT ![counter] =
                     WithData(@, [tag |-> "Counter", count |-> @.data.count + 1,
                                  authority |-> k])]
  /\ InstructionDone
  /\ UNCHANGED bank

Increment(counter, authority) ==
  /\ CanRunInstruction
  /\ IncrementError(counter, authority) = "Ok"
  /\ working' = CountSetTo(counter, working[counter].data.count + 1)
  /\ InstructionDone
  /\ UNCHANGED bank

-----------------------------------------------------------------------------
(* The generated dispatch: an unknown instruction fails. *)

UnknownInstruction == CanRunInstruction /\ RollBack

FailedInitialize ==
  /\ CanRunInstruction
  /\ ~ \A payer, counter \in Addresses, system \in {System, Other} :
         InitializeError(payer, counter, system) = "Ok"
  /\ RollBack

FailedIncrement ==
  /\ CanRunInstruction
  /\ ~ \A counter, authority \in Addresses :
         IncrementError(counter, authority) = "Ok"
  /\ RollBack

ProgramInstruction ==
  \/ \E payer, counter \in Addresses, system \in {System, Other} :
       Initialize(payer, counter, system)
  \/ \E counter, authority \in Addresses : Increment(counter, authority)
  \/ UnknownInstruction
  \/ FailedInitialize
  \/ FailedIncrement

Init == RuntimeInit

Next == ProgramInstruction \/ RuntimeNext

Spec == Init /\ [][Next]_rtVars

-----------------------------------------------------------------------------
(* Properties *)

Live(accts, a) == accts[a].owner = Program

\* The only counter of the program is the one at CounterPda, and it was paid
\* for: rent for its 48 bytes and the greeting's lamport, however many
\* lamports the address held before (initialize.rs 9-15, 24-29).
SingleFundedCounter ==
  /\ \A a \in Addresses : IsCounterAccount(a) => a = CounterPda
  /\ Live(working, CounterPda) =>
       /\ IsCounterAccount(CounterPda)
       /\ working[CounterPda].data.authority \in Keys
       /\ working[CounterPda].lamports
            >= RentMin[SPACE] + HELLO_WORLD_LAMPORTS

\* Until somebody owns the counter, whoever signs and can pay the difference
\* can initialize it: lamports that reached the address earlier do not lock
\* it, unlike exercise 05's create_account.
InitializableUntilOwned ==
  \A u \in tx.signers :
    /\ ~Live(working, CounterPda)
    /\ CanTransfer(u, RentMin[SPACE] + HELLO_WORLD_LAMPORTS)
    => InitializeError(u, CounterPda, System) = "Ok"

CounterOf(accts) ==
  IF Live(accts, CounterPda)
  THEN [owner |-> accts[CounterPda].data.authority,
        count |-> accts[CounterPda].data.count]
  ELSE [owner |-> System, count |-> 0]

\* The account at CounterPda is still to be initialized, or it is the counter
\* of a key and holds what `init` and the greeting paid.
CounterOK(acct) ==
  \/ acct.owner = System /\ acct.len = 0
  \/ /\ acct.owner = Program /\ acct.data.tag = "Counter"
     /\ acct.data.authority \in Keys
     /\ acct.lamports >= RentMin[SPACE] + HELLO_WORLD_LAMPORTS

Shape(accts) ==
  /\ CounterOK(accts[CounterPda])
  /\ \A a \in Addresses \ {CounterPda} :
       accts[a].owner = Program => accts[a].data.tag = "none"

\* What may become of the counter `old` in a transaction signed by S.
Later(old, new, S) ==
  old.owner # System =>
    /\ new.owner = old.owner
    /\ new.count >= old.count
    /\ new.count # old.count => old.owner \in S

\* The inductive invariant: the committed accounts and the running
\* transaction's copy have the shape of one counter, and the copy is what the
\* signers may have made of the committed one.
AnchorInv ==
  /\ TypeOK
  /\ Shape(bank) /\ Shape(working)
  /\ Later(CounterOf(bank), CounterOf(working), tx.signers)

\* The first owner stays the owner, the counter never goes down, and nobody
\* else's transaction moves it (increment.rs 13-23, README 07:63-65).
FirstOwnerForGood ==
  [][Live(bank, CounterPda) =>
       LET before == bank[CounterPda].data
           after  == bank'[CounterPda].data
       IN  /\ Live(bank', CounterPda)
           /\ after.authority = before.authority
           /\ after.count >= before.count
           /\ after.count # before.count => before.authority \in tx.signers
    ]_rtVars

Abs == INSTANCE GlobalCounterSpec
         WITH Users     <- Keys,
              Nobody    <- System,
              Limit     <- MAX_COUNT,
              committed <- CounterOf(bank),
              tentative <- CounterOf(working),
              signers   <- tx.signers

\* With accounts, rent and fees hidden, the program is the single counter of
\* GlobalCounterSpec.
RefinesGlobalCounterSpec == Abs!Spec

=============================================================================
