# Bootcamp Solana: TLA+ models, checks and proofs

The repository holds seven exercises: two on-chain counter programs (05 and 07),
four RPC clients (03, 04, 05, 06) and scripts that drive the command line tools (01, 02,
`run.sh`). This directory models the two programs, the four clients, the scripts, and
the parts of Solana they rely on. TLC checks the models on small instances; TLAPS
proves, for every instance, the safety properties of the two programs, of the four clients,
of the scripts and of the inspector. Liveness is model-checked only.

Paths below are relative to the repository; line numbers are those of the modelled
commit. `PROJECT.json` maps every definition to its lines.

## 1. The system

| part | state | operations | talks to |
|---|---|---|---|
| 05 program (`05-counter-pda/program/src/lib.rs`) | one 41-byte account per user (count, authority, bump) at a program-derived address (PDA) | `initialize`, `increment` | the System Program by an inner call; the runtime |
| 05 client (`05-counter-pda/client/src/main.rs`) | position in a fixed script | airdrop, send, simulate, read | the 05 program, by transactions |
| 07 program (`07-anchor-hello-solana/programs/hello_solana`) | one 48-byte account for the whole program | `initialize`, `increment`, with Anchor's account constraints | the System Program; the runtime |
| 04 client (`04-transaction-lifecycle/src/main.rs`) | two transactions, what `watch` printed, two balance readings | fund, build, submit, watch, report | a cluster, by RPC |
| 06 client (`06-spl-token/src/main.rs`) | position in a fixed script, what it printed | create mint, create accounts, mint, transfer, read and decode | SPL Token and Associated Token Account programs |
| 03 client (`03-four-programs/src/main.rs`) | position in a fixed script, what it printed | as 06, plus System transfers and Token-2022 with a transfer fee | four programs |
| 01 script, `run.sh` | a validator process, a ledger directory, a keypair file (01) | start, poll, run, tear down | the validator that holds the port |
| 02 inspector | none | reads and cross-checks rent | a cluster |

Nothing here runs threads of its own. The concurrency is that of the chain: between
any two transactions of a user, transactions of others run; between any two RPC calls of
a client, the cluster moves on. The scripts are processes on one machine that share a port.

What is hard, and what makes each part correct:

* **05 program.** Any signer passes any accounts in any order, in transactions with several
  instructions, with transfers, other programs' writes and failures in between. A live
  counter must stay at the canonical address of its user, be moved by that user's
  signature only, never be reset, closed, lowered or drained, and be usable by its owner.
* **07 program.** The same for the single counter, which is a race: whoever
  initializes first owns it. Lamports sent to its address earlier must not lock it.
* **05, 06 and 03 clients.** They read results in separate calls while others act; what they
  print must still hold, and what can make them fail must be known. 06 and 03 create and
  initialize a mint in one transaction because initializing asks for no signature; 03's
  fee extension must come before the mint, in an account sized for both. 06 cuts fields out of
  accounts whose optional values have longer tags than in instructions.
* **04 client.** Forks, expired blockhashes, dropped transactions, a watch that
  times out, balances read at another commitment level than the one watched.
* **01, run.sh.** A readiness poll whose result `run.sh` does not look at; a validator left over
  by `--keep`, or of another run, that answers in place of the run's own; a trap that may run before the
  validator's PID is stored, and that a second signal ends half-way.
* **02.** Five reads of a changing cluster, compared as if they were one snapshot; an integer cut
  out of a product with a fractional threshold.

`PROJECT.json` lists these hazards at their lines with the properties that cover them.

## 2. Modules

**`SolanaRuntime`** is external to the repository: accounts (`lamports`, `owner`, `len`,
`data`), the System Program's `transfer` and `create_account`, rent, fees, signatures, and
transactions. `bank` is the committed state, `working` the copy a running transaction sees,
`tx` that transaction (`status`, `mode`, `signers`, number of instructions run).
`BeginTransaction` charges the fee, instructions change `working`, `CommitTransaction`
makes it the bank, `RentViolation`, `OtherFailure` and every failing instruction drop it,
and `EndSimulation` always does. Instructions are chosen one at a time, which gives the same
executions as choosing the whole message first. Another program may write anything
of `ForeignData` into accounts it owns.

**`CounterProgram`** (05) extends it. `InitializeError` and `IncrementError` are the early
returns in the order of the code (lib.rs 50-91, 102-140); `Initialize` and `Increment` are
the handlers' effect when the error is "Ok"; a handler that returns an error ends the
transaction (`FailedInitialize`, `FailedIncrement`, `MalformedInstruction`).
`Derive[key][bump]` is the hash of the seeds: an address, or `OnCurve`. The data of an
account is the record it decodes to; zero-filled data decodes to count 0, authority the
all-zero key (the System Program's id) and bump 0. **`CounterSpec`** is what the
program promises: a counter per user, absent or a number, changed by whole transactions
their owners signed. `CounterProgram!Abs` is the refinement mapping.
**`CounterProgramProofs`** holds the proofs.
A component's inductive invariant is stated in its own module, where TLC checks it too; its proofs
are in the module named after it with `Proofs` at the end.

**`CounterClient`** (05 client) extends `CounterProgram`: `Script` is `main`, one step per
`fund`, `send` or simulation, and the last read. Its transactions run instruction by instruction in the
runtime; others' transactions and simulations run between them (`OthersRun`): transfers to anybody, accounts created
at their own keys, another program's writes into those, and the program's own instructions with any amount of
`OthersBy`. `CountAt` says which count each instruction of the script
leaves, and `ClientInv` that the bank and the running transaction agree with it.

**`AnchorCounter`** (07) extends `SolanaRuntime`. Anchor's constraints are part of the
action, in the order the framework tests them. `Shortfall` is how `init` treats an
address that already holds lamports. **`GlobalCounterSpec`** is its abstract specification:
one counter, with a first owner and a limit.

**`TxLifecycle`** (04): `pc` is the call `main` makes next, for the transaction `cur`
("good", the transfer; "bad", the one that exceeds its compute units). The cluster
may process, abandon, confirm, finalize or let expire any transaction between two calls.
One `WatchPoll` or `WatchPollNothing` is one round of `watch`.

**`MessageHeader`** (04) is `dissect`: the flags of an account from its position and three
counts, against the order of a message. It has no state; **`TxLifecycleProofs`** proves it.

**`TokenLedger`** is external: the System, SPL Token, Token-2022 and Associated Token Account
programs as operators from a ledger to a ledger, with the fields of their accounts and the bytes
each lies at. `ledger.accts` maps an address to its program, length, lamports and
contents. **`TokenClient`** is what the two token clients share: `todo`, the calls main has
yet to make (a transaction, the simulation, a read of some bytes of one account), one action per
way a call can end, and what everybody else may do in between: any one instruction on the
client's accounts for which they have the signatures. Its instructions carry the token program as 03's do;
06 passes SPL Token. **`SplTokenClient`** (06) and **`FourPrograms`** (03) extend it with their
`main` as `SplScript` and `FourScript`. A field that is not cut from exactly the bytes of one field
reads "garbage". **`TokenClientProofs`** holds what does not depend on a script,
**`TokenScriptsProofs`** the theorems about both.

**`ValidatorHarness`** (01, `run.sh`): `Runs` are executions of scripts; `script` says of which.
`pc` goes through the start of the validator (`Fork`), the assignment of its PID (`StorePid`), readiness poll, work,
trap and wait; `pid[r]` says whether the PID is stored and whether the trap has used it. `validator[r]` is the process run `r`
started; only one can hold the port, and whoever holds it answers everybody. `funded` are the
validators on whose ledger the account of 01's keypair exists: the keypair file stays from run
to run, `--reset` empties the ledger. Validators may die at any moment. A script may be interrupted anywhere: the trap
runs (`Interrupted`), or ends where it stands when it was running already (`TrapInterrupted`); or it is killed, without a trap.

**`AccountInspector`** (02): one step per command, one for the cross-checks; the cluster may
change the account or the rent parameters between any two. `paramsAt` is a history variable. The threshold
is a fraction, the quotient of cross-check 2 an equation between integers.

`MC*` modules give the constants for TLC.

## 3. Runs

| run | question | properties |
|---|---|---|
| `CounterBoth` | Can two funded users, another program, prefunding, failures and simulations break a counter? When exactly does `initialize` work; is the owner check implied by the others? | `CounterInv`, `CounterIntegrity`, `OthersGetInvalidAccountOwner`, `OwnerCanIncrement`, `InitializeExactlyWhenAbsent`, `OwnerCheckImplied`, `OwnCounterOnly`, `CounterPermanent`, `RefinesCounterSpec` |
| `OwnerClaim` | Would the program write to another program's look-alike account without its owner check, as its comment says? Violated. | `OnlyOwnerCheckRefuses` |
| `CounterClaim` | Is the authority check the only one that keeps Alice off Bob's counter, as the README says? Violated. | `OnlyAuthorityCheckRefuses` |
| `CounterClient` | Do the numbers the client prints hold while others act, when does it fail, does it end? | `ClientInv`, `ScriptReportsHold`, `FailsOnlyOnPrefundedAddress`, `EndsUnlessAirdropLost` |
| `Anchor` | Is the single counter owned for good, paid for, bounded, and not lockable? | `AnchorInv`, `SingleFundedCounter`, `InitializableUntilOwned`, `FirstOwnerForGood`, `RefinesGlobalCounterSpec` |
| `TxLifecycle` | Is what the client prints in order and exact, does preflight hold, does it end? | `LifecycleInv`, `ShownLevelsClimb`, `ExactAfterFinality`, `PreflightKeepsFailuresOffChain`, `EndsUnlessAirdropLost` |
| `TxReport` | Can the fee report always be computed? Violated. | `ReportNeverPanics` |
| `TxClaim` | Is the failed transaction always in a block at the end? Violated. | `FailedTxIsInABlock` |
| `SplToken` | Can others slip into the mint's creation, unbalance the report, or make the client fail; are accounts decoded right? | `SplInv`, `AuthorityIsAlice`, `ReportAsPromised`, `ShownAccountsAreRight`, `FailsOnlyOnForeignAta` |
| `FourPrograms` | The same for two mints; is the withheld fee explained right? | `FourInv`, `MintsAreAsAsked`, `ReportIsExplained`, `FailsOnlyOnForeignAta` |
| `Harness` | What does a run leave behind, whose validator does it talk to, does it end? | `HarnessInv`, `StoppedOnExit`, `UnderfundedIsRefused`, `UnansweredHadAnswer`, `EveryRunEnds` |
| `Inspector` | When can the cross-checks be believed? | `InspectorInv`, `ChecksDecideOverhead`, `ExemptAsTheClusterSays` |

`CounterInv`, `ClientInv`, `AnchorInv`, `LifecycleInv`, `SplInv`, `FourInv`, `HarnessInv` and `InspectorInv` are the
inductive invariants of the proofs, checked here on the small instances. Each has the type invariant of its module as
a conjunct, but for `SplInv` and `FourInv`, which imply `TokenClient!TypeOK` (`SplTypeOK`, `FourTypeOK`).

What the violations show:

* `OnlyAuthorityCheckRefuses`: 05's README (63-65) and client (143-145) say that without
  the authority check Alice increments Bob's counter. lib.rs 130-136 derives the address from
  the signer's own key, so `increment` answers `InvalidSeeds` instead. The program is
  better defended than the text says.
* `OnlyOwnerCheckRefuses`: the comment at lib.rs 109-110 and 05's README (73-75) say that without the owner check
  the program "would happily write" to "a look-alike account owned by some other program". TLC builds one, an
  exact copy of the signer's counter written by another program into an account of its own, and the address
  check (lib.rs 130-136) refuses it: only this program can own data at a PDA. `OwnerCheckImplied`, checked
  in `CounterBoth` and proved (`NoLookAlike`), says so of every account; the owner check is a second line of defence.
* `ReportNeverPanics`: `watch` gives up after its time budget and returns `Ok`; if the
  transfer is not confirmed by then, `before - after - 100_000_000` (main.rs 194) goes below
  zero, and the debug build that `run.sh` starts panics.
* `FailedTxIsInABlock`: main.rs 228-229 states without a condition that the second transaction is in
  a block and was charged; it may never have landed.

The clients also fail in ways the properties name and others can bring about: 05's client when
somebody sent lamports to a counter's address before it was initialized (that address
can then never be initialized: `InitializeExactlyWhenAbsent`), and 06's and 03's clients when
somebody created one of the token accounts first (`FailsOnlyOnForeignAta`).

The conditions in the properties of the scripts are behaviours the model has, and each contradicts what a script
says of itself. 01's header (5-6) says that it "tears everything down on exit", and line 2 of the `run.sh`
much the same. Not when a signal comes after the validator is started and before `VALIDATOR_PID=$!` (01 lines 53-54,
`run.sh` 11-12): the trap finds an empty PID and skips the kill. Nor when a second signal ends the trap
before its kill; and one in its wait leaves a validator that is still shutting down. `StoppedOnExit` lists these three windows and
`--keep`; every other way out leaves none. The header also says that it "spins up its own validator" (5). It does when no other validator holds the port: a run that finds
one loses its own and works on the other's ledger, where the airdrop announced as "expect the
tx to be rejected" (85) may be accepted (`UnderfundedIsRefused` names exactly this case), and with
`--keep` it reports its dead process as left running. 02's checks decide the overhead only when the rent
parameters stay the same between the commands (the account may change) and a byte costs a whole, positive
number of lamports (`WholeRate`), as it does on every cluster of its README. Otherwise they can say
MISMATCH, or agree, for another reason; nothing is claimed of those cases.

### Bounds

* Two users, or the client's two and two outsiders; Alice has two bumps off the curve, so the
  canonical one matters; Bob's bump 255 is on the curve, so the search goes down.
* `MaxIxs = 2` instructions per transaction: enough for an instruction before or after
  the one of interest, and for create-and-use in one transaction. `MaxU64 = 2`
  (60 for the client) stands for 2^64 - 1, so overflow happens.
* Rent 1 for an empty account and 2 or 3 for one with data, a fee of 1 per
  signature, funds of 4 (05), 8 and 2 (07) and 5 (Carol): users can create, go broke, be purged,
  and prefund. Lengths 0, 8 (too short) and 41 in 05, 0 and 48 in 07.
* `ForeignData`: exact copies of a counter with the right and with the wrong bump (05), a copy of Bob's (the client), or of
  the discriminator (07).
* `CounterClient`: others add 1 or all of a u64 (`OthersBy = {1, 60}`), sums that fit and sums that overflow; Carol has
  funds, Dave is the key she makes accounts at. Amounts of 1 and 2: a prefunded PDA above and below the rent.
* `MAX_COUNT = 3` in place of 10. `Budget = 3` polls for 90 s: giving up before
  and after every level occurs. `BadBy = 10` for 1,000,000; `Airdrop = 6`.
* `SplToken` and `FourPrograms` use the real amounts, with `MaxU64` 2,000,000,000; two outsiders
  and one. An associated token address is the triple of its seeds. An account is given at most
  one foreign lamport. A transaction has at most three instructions, as many as the longest of
  either `main`, so that `RunTransaction` spells them out. Others act by single instructions, one
  transaction each; a longer transaction of theirs that succeeds is a sequence of these.
* `Harness`: two runs, of nine of the pairs of scripts; one poll for 60, answered or not: what follows a
  missed poll is either another one or the end of the loop. (The proofs are for any number.) Two runs are enough for every
  overlap the properties speak of: one run that started the validator and one that uses it.
* `Inspector`: rates that are whole, half and zero, one cluster with another overhead, and balances at
  and one below the minimums; any number of changes.

`CHECK_DEADLOCK FALSE`: the systems do stop. A client that has ended takes no step; once no key can
pay a fee, no transaction begins.

### Fairness

`TxLifecycle`: `WF_vars(ClientStep)`: the client is one sequential
process that keeps running, and each of its calls returns. Nothing is assumed of the cluster, which
may drop everything. `EndsUnlessAirdropLost` says that `main` then ends, but for the
loop on the airdrop (main.rs 146), which spins for as long as the airdrop is not confirmed.

`CounterClient`: `WF_vars(CallReturns)`: a transaction sent runs or its blockhash expires, so
`send_and_confirm_transaction` returns, and so does a simulation. No airdrop is assumed to arrive or to be
refused. Others may send transactions without end and are not assumed to stop.

`ValidatorHarness`: the shell takes its next step (`StorePid`, `Polling`, `Leaving`); the commands of 01
return; a validator that got SIGTERM from the trap exits. Of the clients `run.sh` starts nothing is assumed: they
may wait for an airdrop for ever, which `EveryRunEnds` allows. Validators need not come up.

## 4. Proofs

Every theorem below holds for all values of the constants that satisfy the named assumptions;
these are in the modules that declare the constants, and TLC evaluates them on every instance.
Each component has an inductive invariant `IInv`, which the proof modules show in the three usual facts
(`Init => IInv`, `IInv /\ [Next]_vars => IInv'`, and what follows from `IInv`), one lemma per action.

### 05, the counter program: `CounterProgramProofs`

For any keys, addresses, derivation, rent table, fees, amounts, number of instructions
and `MaxU64`. `CounterInv` says: types; every PDA is either untouched but for
lamports, or the rent-exempt counter of the key it was derived from, with the canonical
bump (`PdaOK`); an account of the program at an ordinary key holds zeros (`KeyOK`: anybody can
create such an account through the System Program, and `increment` must not write to it); and
the running transaction has only raised counters whose authority signed it (`Later`). The
last part is needed because the properties of committed states are decided while the
transaction runs; `KeyOK` is needed because `increment` never asks whether its account is a
PDA before it compares the authority, and no key is the all-zero one.

| theorem | states |
|---|---|
| `CounterInvariant` | `Spec => []CounterInv` |
| `TypeCorrect`, `Integrity`, `RentKept` | `TypeOK`, `CounterIntegrity`, `LiveCounterRentExempt` |
| `OthersRefused`, `OwnerServed` | `OthersGetInvalidAccountOwner`, `OwnerCanIncrement` |
| `NoLookAlike`, `InitializeWhenAbsent` | `OwnerCheckImplied`, `InitializeExactlyWhenAbsent` |
| `AuthorityOnly`, `Permanent` | the action properties `OwnCounterOnly`, `CounterPermanent` |
| `Refinement` | `Spec => RefinesCounterSpec` |

Assumptions: keys and PDAs are disjoint and no program id is among them, there are finitely many keys;
rent is positive; funding is 0 or rent-exempt; every user has a bump off the curve;
no two seed sets hash to one address (`NoCollisions`: collision resistance of SHA-256);
the account's length is in `Lens`.

### 05, the client: `CounterClientProofs`

For any other users, any airdrop and any rents. `ClientInv` adds to `CounterInv`: a running transaction
that carries a signature of the client is the one `main` is at, signed by
that step's user only (`OwnTransaction`); and Alice's and Bob's accounts, in the bank and in
the running copy, are as the script has left them (`AsScripted`): the counts are `CountAt`, the purse holds the
airdrop until it pays for the counter, and if `initialize` failed, its address had lamports.

The argument reuses the program's proofs instead of repeating them: a step of anybody else is a step of
`CounterSpec` (by the refinement lemmas) that signs with none of the client's keys, so it leaves the two
counters alone, and purses change by signature only. For the client's own steps the lemmas show that no handler can
return an error: `increment` because the counter is live, canonical and far from `MaxU64`,
`initialize` because the purse suffices, unless the address was prefunded; and that the simulation
with Bob's signature and Alice's account answers `InvalidAccountOwner`.

| theorem | states |
|---|---|
| `ClientInvariant` | `ClientSpec => []ClientInv` |
| `ReportsHold` | `ScriptReportsHold` |
| `FailsOnlyIfPrefunded` | `FailsOnlyOnPrefundedAddress` |

Assumptions: those of the program; `EnoughAssumption`: an airdrop (2 SOL) covers the rent of 41 bytes and one
fee, 42 fits the count, and `BadBy` (1,000,000) is a u64.

### 07, the Anchor program: `AnchorCounterProofs`

For any keys, `MAX_COUNT`, rents and amounts. `AnchorInv` says of the bank and of the running copy that the
account at `CounterPda` is either the System Program's and without data,
or the program's counter, with a key as authority and at least the rent for `SPACE` bytes and the
greeting's lamport (`CounterOK`); that no other account of the program carries the discriminator
(`Shape`: an account created at a key holds zeros, and Anchor refuses it for want of the tag; the counts
themselves are bounded in `TypeOK`);
and that the running copy has the bank's authority, at least its count, and a
different count only when the authority signed (`Later`). `Later` is what makes commit a step of
`GlobalCounterSpec`.

| theorem | states |
|---|---|
| `AnchorInvariant`, `TypeCorrect` | `Spec => []AnchorInv`, `TypeOK` |
| `OneCounter` | `SingleFundedCounter` |
| `NeverLockedOut` | `InitializableUntilOwned` |
| `FirstOwnerStays` | the action property `FirstOwnerForGood` |
| `Refinement` | `Spec => RefinesGlobalCounterSpec` |

Assumptions: those of the runtime, and `AnchorAssumption`: the counter's address is a PDA, its length is
one of `Lens`, zero-filled data has no discriminator.

### 04, the client: `TxLifecycleProofs`

For any budget of polls and any balances of a keypair. `LifecycleInv` has four parts beside the types and the two
properties it contains. `FundsSettled`: no transaction is sent before the airdrop is confirmed or known to be unneeded.
`OneAfterTheOther`: the second is not built before the first is confirmed, which is why the
order in which the cluster lands them cannot disturb the arithmetic. `ReadingsExplained`: the two balance
readings differ by exactly the cost of the transaction, or not at all while it is not final.
`PrintedLevelsLast`: the levels printed are at or below `last`, and only "Processed" can be taken back by a fork.

| theorem | states |
|---|---|
| `LifecycleInvariant`, `TypeCorrect` | `Spec => []LifecycleInv`, `TypeOK` |
| `LevelsClimb` | `ShownLevelsClimb` |
| `ReportsAreExact` | `ExactAfterFinality` |
| `PreflightSuffices` | `PreflightKeepsFailuresOffChain` |
| `DissectDecodesFlags` | the flags `dissect` prints, for messages of any length |

`DissectDecodesFlags` needs no induction: a set of positions closed downward is exactly the first
`Cardinality` ones (`CountIsBoundary`), and the three counts of the header are sums and differences of
the sizes of such sets (`CountsAdd`). The `TxLifecycle` run evaluates the same formula, as
`FlagsAssumption`, for up to five accounts. Assumption of the others: `LifecycleAssumption` (balances
are natural numbers, the budget is positive).

### 06 and 03, the token clients: `TokenClientProofs`, `TokenScriptsProofs`

For any wallets, any number of others among them, any addresses and any u64 of at least 10^9. What `main` believes of
the ledger is a *view*: the System account it made and the least it holds; its mints, each with program, authority,
decimals, supply and fee, what every wallet holds of it and the most one account has withheld; and the token
accounts `main` has opened. `Fits(ledger, v)` says that every account of the ledger is one the view explains and that
those it calls opened exist. It leaves open exactly what others can do: open token accounts for a client's mint,
give lamports, harvest withheld fees. Everything else in it is fixed.

`SplView(n)` and `FourView(n)` are the views after the first `n` calls. `SplInv` and `FourInv` say that `todo` is the script
after the calls made; that the ledger fits the view of that place, or of the next one if `main` gave up waiting for a
transaction that landed (`RpcFails`); that what was printed is what the view says it was (`SplShown`,
`FourShown`); and that `main` failed only at a token account that was there. They are needed because none of the
properties is inductive: the authority of a mint depends on nobody having found it uninitialized, an amount read
later on nobody else holding tokens, the refusal of 06's early transfer on Bob's account having been absent, or
`main` failing in the next call. This is the disjunct of `SplShown(8)` that only the next call settles.

1. `TokenClientProofs`: what an account of a fitting ledger can be (`Kinds`: associated addresses are
   no keys and come from one triple of seeds), the outcome of each instruction on it
   (`CreateAtaOutcome`, `MintToOutcome`, `TransferOutcome`, `MintMade`, `FeeMintMade`), and that none of the
   instructions others can sign takes it out of the view (`OthersKeep`): a mint of `main` is never
   raw between two transactions, its authority is nobody else's, others' accounts are empty.
2. `TokenScriptsProofs`, for any script: `Leads(c, v, v2)` says that call `c` takes every ledger that fits `v` to one
   that fits `v2`, or fails only at a token account that exists. If every call leads from its view to the
   next, a call made moves the place by one (`CallMade`) and anything else leaves it (`MainWaits`).
3. For each script: every call leads (`SplCall1` .. `SplCall9`, `FourCall1` .. `FourCall11`, reads and simulations between them
   change nothing), and what it prints is what the next view says (`SplPrints`, `FourPrints`). The decoders
   come down to the offsets of the layouts (`FieldBytes`), which `AccountOffsets` and `MintOffsets` compute.

| theorem | states |
|---|---|
| `SplInvariant`, `SplTypeOK` | `SplSpec => []SplInv`, `TypeOK` |
| `SplAuthority` | `AuthorityIsAlice` |
| `SplReport` | `ReportAsPromised` |
| `SplAccountsAreRight` | `ShownAccountsAreRight` |
| `SplFailsOnlyOnForeignAta` | `FailsOnlyOnForeignAta` for 06 |
| `FourInvariant`, `FourTypeOK` | `FourSpec => []FourInv`, `TypeOK` |
| `FourMintsAreAsAsked` | `MintsAreAsAsked` |
| `FourReportIsExplained` | `ReportIsExplained` |
| `FourFailsOnlyOnForeignAta` | `FailsOnlyOnForeignAta` for 03 |

Assumptions: `AtaAssumption` (associated addresses are off the curve, so no key has one, and no two triples of
seeds hash to one address), `SupplyAssumption` (10^9, the most `main` mints, is a u64), `OthersAssumption` (the
others are wallets), `SplKeysAssumption` and `FourKeysAssumption` (the client's two wallets differ and are nobody
else's; the keys it makes are distinct keys). `TokenLedger` itself is external: what is proved is about the
clients over the programs as modelled there.

### 01 and `run.sh`: `ValidatorHarnessProofs`

For any number of runs, any assignment of scripts to them and any number of polls. `HarnessInv` relates what
a run has called to where it is (`Progress`), says that it works only with its PID stored, gets to the trap without one only
when interrupted, and waits only for a validator it has signalled (`PidKept`, what `StoppedOnExit` needs), that who answered was up and that whoever works was
answered or did not look (`AnswersExplained`), and that an account on a ledger was put there by the run that
started the validator, past its third call, or by a run it answered (`FundedExplained`). The last is what
`UnderfundedIsRefused` needs: the airdrop of 1000 lamports, a run's second call, finds a funded account only
on the ledger of another run, or on its own after another run has used it.

| theorem | states |
|---|---|
| `HarnessInvariant` | `Spec => []HarnessInv` |
| `LeftRunningIsExplained` | `StoppedOnExit` |
| `RefusedUnlessTheyMet` | `UnderfundedIsRefused` |
| `NoAnswerIsALostValidator` | `UnansweredHadAnswer` |

Assumption: `RunsAssumption` (what the scripts are, `Polls` is a natural number).

### 02: `AccountInspectorProofs`

For any rent parameters, accounts and changes of either between two commands. `InspectorInv` says that what a command
returned is what the parameters of its moment make it say (`AnswersExplained`), and that the verdicts are those of
the answers (`VerdictsStand`). The rest is arithmetic with two unknowns, which the SMT solver does not do by itself: the lemmas
from `ProductTimes` to `LinearMinimum` and `QuotientOfMultiple` show step by step that with a whole rate `k` the minimum
is `k * (overhead + space)`, so that the two answers for 0 and 1 byte give the rate, and their quotient the overhead.

| theorem | states |
|---|---|
| `InspectorInvariant` | `Spec => []InspectorInv` |
| `OverheadDecided` | `ChecksDecideOverhead` |
| `ExemptDecided` | `ExemptAsTheClusterSays` |

Assumption: `ParamsAssumption` (natural numbers, the threshold's denominator is not zero).

### Only model-checked

* Liveness (`EndsUnlessAirdropLost`, `EveryRunEnds`) and fairness, which the prover does not reach.
* The violations: TLC's counterexamples are the evidence.

## 5. Not modelled

* Printing: explorer links, hex dumps, wire sizes, names of programs, the runtime fields
  (`show`, `show_runtime`) of accounts, 02's Clock sysvar.
* The read-only flags of accounts in a message: 05's client marks all its accounts
  writable, and a transaction that does not is one that fails (`OtherFailure`).
* Program upgrades and closing of the program; the exercises never do it.
* In 04, others spending from the payer: its keypair is fresh, or the user's own.
* Lamports sent to the mint's address before it is created: its key is made by the client and
  first seen in the transaction that uses it.
* Fees and the payers' balances in `TokenLedger`: each has 5 SOL and spends a fraction of it.
  Mints of others: no instruction of the clients names one. Delegates, freezing, burning and
  closing are left out: the clients never approve, give no freeze authority, and the
  others hold no tokens. The withheld fees a mint collects are not counted: nothing here reads them.
* The airdrops of 06 and 03 and their loops without a limit (06 main.rs 164-165, 03 main.rs 216-217), which hang when an
  airdrop is lost. The same loop is modelled in 05's and 04's client.
* A status without a level, which 04's `watch` prints as "?" (main.rs 105): only servers that leave the field out send one.
* In `CounterClient` a call fails before its transaction runs; one that lands after
  `main` gave up changes nothing `main` still looks at.
* In the scripts: that a background process of a non-interactive shell ignores SIGINT (a user's signal may or
  may not reach the validator: `ValidatorDies`); the token commands of 01 and its decoding of `data[32:64]` (calls like any
  other), a cluster URL passed to `run.sh`, the removal of a ledger under a live validator (the
  validator locks its ledger, so the second one dies: `ValidatorDies`).
* 02's floating point: products are exact for the rates clusters use.
* 07's litesvm test: one path of the program, among the behaviours of `AnchorCounter`.

## 6. Plan

1. *Done:* the runtime, 05's program with its invariant, abstract specification and proofs.
2. *Done:* 07's program with its abstract specification; 05's client; 04's client.
3. *Done:* the token ledger and 06's client.
4. *Done:* 03's script with the Token-2022 mint, on a runner shared with 06; 06's decoders.
5. *Done:* the scripts' validators; the inspector; the 05 client's liveness; the message header, proved.
6. *Done:* proofs of 07's program and its refinement, of 04, of the scripts, of the inspector, of the 05 client.
7. *Done:* proofs of the token clients, on the view `main` has of the ledger. For them `RunTransaction` spells out its
   at most three instructions, and `Offsets` is a recursive function.
