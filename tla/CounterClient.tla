---------------------------- MODULE CounterClient ----------------------------
(***************************************************************************)
(* The client of exercise 05 (05-counter-pda/client) beside other users of *)
(* the same program: its main is a fixed script of airdrops, transactions  *)
(* and one simulation, and transactions of others run between any two of   *)
(* its own.  Alice's and Bob's keys are made by the client, so nobody else *)
(* signs with them.                                                        *)
(***************************************************************************)
EXTENDS CounterProgram, Sequences

CONSTANTS
  Alice, Bob,
  Airdrop,     \* bound: lamports of one airdrop (2,000,000,000)
  BadBy,       \* bound: the increment of the last section (1,000,000)
  OthersBy     \* bound: the amounts others increment by

ASSUME ClientAssumption ==
  /\ Alice \in Keys /\ Bob \in Keys /\ Alice # Bob
  /\ Airdrop \in Nat /\ BadBy \in Nat /\ OthersBy \subseteq 0 .. MaxU64

\* An airdrop pays for a counter and the fee, and the sums of main fit.
ASSUME EnoughAssumption ==
  /\ Airdrop >= FeePerSignature + RentMin[COUNTER_LEN]
  /\ MaxU64 >= 42 /\ BadBy <= MaxU64

VARIABLES
  step,     \* the step of Script main is at
  next,     \* the instruction of that step's transaction to run
  outcome,  \* "running", "failed" (send returned Err) or "rpc error"
  simErr    \* the error the simulation reported

clientVars == <<step, next, outcome, simErr>>
vars       == <<rtVars, clientVars>>

Others == Keys \ {Alice, Bob}

-----------------------------------------------------------------------------
(* The script of main. *)

\* counter_pda
CounterPdaOf(user) == FindProgramAddress(user)

IxInitialize(user) == [tag |-> 0, user |-> user, counter |-> CounterPdaOf(user)]

IxIncrement(user, pda, by) ==
  [tag |-> 1, user |-> user, counter |-> pda, by |-> by]

Fund(user)         == [op |-> "fund", user |-> user]
Send(user, ixs)    == [op |-> "send", user |-> user, ixs |-> ixs]
Simulate(user, ix) == [op |-> "simulate", user |-> user, ixs |-> <<ix>>]

\* Mutant: Bob's counter is never initialized.
Script_NoBobInit ==
  << Fund(Alice), Fund(Bob),
     Send(Alice, <<IxInitialize(Alice)>>),
     Send(Alice, <<IxIncrement(Alice, CounterPdaOf(Alice), 1),
                   IxIncrement(Alice, CounterPdaOf(Alice), 41)>>),
     Send(Bob, <<IxIncrement(Bob, CounterPdaOf(Bob), 7)>>),
     Simulate(Alice, IxIncrement(Alice, CounterPdaOf(Bob), BadBy)) >>

Script ==
  << Fund(Alice), Fund(Bob),
     Send(Alice, <<IxInitialize(Alice)>>),
     Send(Bob, <<IxInitialize(Bob)>>),
     Send(Alice, <<IxIncrement(Alice, CounterPdaOf(Alice), 1),
                   IxIncrement(Alice, CounterPdaOf(Alice), 41)>>),
     Send(Bob, <<IxIncrement(Bob, CounterPdaOf(Bob), 7)>>),
     Simulate(Alice, IxIncrement(Alice, CounterPdaOf(Bob), BadBy)) >>

Done    == step > Len(Script)
Current == Script[step]
Busy    == outcome = "running" /\ ~Done

\* A transaction of the client's runs when one of its keys has signed.
Mine == tx.signers \cap {Alice, Bob} # {}

ErrorOf(ix) == IF ix.tag = 0 THEN InitializeError(ix.user, ix.counter, System)
               ELSE IncrementError(ix.user, ix.counter, ix.by)

-----------------------------------------------------------------------------
(* The client's steps. *)

\* fund: the airdrop lands between two transactions, and the loop on
\* confirm_transaction ends.
Airdropped ==
  /\ Busy /\ Current.op = "fund" /\ tx.status = "idle"
  /\ bank' = [bank EXCEPT ![Current.user] = WithLamports(@, @.lamports + Airdrop)]
  /\ working' = bank'
  /\ step' = step + 1
  /\ UNCHANGED <<tx, next, outcome, simErr>>

Start ==
  /\ Busy /\ Current.op # "fund"
  /\ BeginTransaction(Current.user, {Current.user}, Current.op)
  /\ next' = 1
  /\ UNCHANGED <<step, outcome, simErr>>

RunNext ==
  /\ Busy /\ Mine /\ next <= Len(Current.ixs)
  /\ LET ix == Current.ixs[next]
     IN  IF ix.tag = 0 THEN Initialize(ix.user, ix.counter, System)
                       ELSE Increment(ix.user, ix.counter, ix.by)
  /\ next' = next + 1
  /\ UNCHANGED <<step, outcome, simErr>>

\* send_and_confirm_transaction returned Ok.
SendSucceeds ==
  /\ Busy /\ Mine /\ Current.op = "send" /\ next > Len(Current.ixs)
  /\ CommitTransaction
  /\ step' = step + 1
  /\ UNCHANGED <<next, outcome, simErr>>

\* An instruction failed: `?` ends main.
SendFails ==
  /\ Busy /\ Mine /\ Current.op = "send" /\ next <= Len(Current.ixs)
  /\ ErrorOf(Current.ixs[next]) # "Ok"
  /\ RollBack
  /\ outcome' = "failed"
  /\ UNCHANGED <<step, next, simErr>>

\* Mutant: the simulation is repeated until it succeeds.
SimulationEnds_UntilOk ==
  /\ Busy /\ Mine /\ Current.op = "simulate"
  /\ simErr' = IF next > Len(Current.ixs) THEN "Ok"
               ELSE ErrorOf(Current.ixs[next])
  /\ RollBack
  /\ step' = IF simErr' = "Ok" THEN step + 1 ELSE step
  /\ UNCHANGED <<next, outcome>>

\* The simulation reports its error and main goes on.
SimulationEnds ==
  /\ Busy /\ Mine /\ Current.op = "simulate"
  /\ simErr' = IF next > Len(Current.ixs) THEN "Ok"
               ELSE ErrorOf(Current.ixs[next])
  /\ next > Len(Current.ixs) \/ simErr' # "Ok"
  /\ RollBack
  /\ step' = step + 1
  /\ UNCHANGED <<next, outcome>>

\* The airdrop is refused; if it is lost instead, the loop goes on for ever.
AirdropFails ==
  /\ Busy /\ Current.op = "fund"
  /\ outcome' = "rpc error"
  /\ UNCHANGED <<rtVars, step, next, simErr>>

\* A call or a read fails, or the blockhash expires before the transaction
\* runs.
SendGivesUp ==
  /\ Busy /\ ~Mine /\ Current.op # "fund"
  /\ outcome' = "rpc error"
  /\ UNCHANGED <<rtVars, step, next, simErr>>

\* The last read_counter, after the simulation.
LastReadFails ==
  /\ outcome = "running" /\ Done
  /\ outcome' = "rpc error"
  /\ UNCHANGED <<rtVars, step, next, simErr>>

CallReturns == \/ Start \/ RunNext \/ SendSucceeds \/ SendFails
               \/ SimulationEnds \/ SendGivesUp

ClientStep == Airdropped \/ AirdropFails \/ CallReturns \/ LastReadFails

-----------------------------------------------------------------------------
(* Everybody else. *)

OthersBegin ==
  /\ \E S \in SUBSET Others, mode \in {"send", "simulate"} :
       \E payer \in S : BeginTransaction(payer, S, mode)
  /\ UNCHANGED clientVars

\* What others may put into their transactions: transfers to anybody, accounts
\* of their own for any program, the program with any accounts, and failures.
OthersRun ==
  /\ tx.status = "running" /\ ~Mine
  /\ \/ \E from \in Others, to \in Addresses, n \in Amounts :
          SystemTransfer(from, to, n)
     \/ \E from, to \in Others, n \in Amounts, space \in Lens, owner \in Owners :
          SystemCreateAccount(from, to, n, space, owner)
     \/ \E a \in Others, d \in ForeignData : ForeignWrite(a, d)
     \/ \E user, counter \in Addresses : Initialize(user, counter, System)
     \/ \E user, counter \in Addresses, by \in OthersBy :
          Increment(user, counter, by)
     \/ CommitTransaction
     \/ RentViolation
     \/ OtherFailure
     \/ EndSimulation
  /\ UNCHANGED clientVars

ClientInit ==
  /\ RuntimeInit
  /\ step = 1 /\ next = 1 /\ outcome = "running" /\ simErr = "none"

ClientNext == ClientStep \/ OthersBegin \/ OthersRun

\* A transaction lives as long as its blockhash, so every call on one returns.
ClientSpec == ClientInit /\ [][ClientNext]_vars /\ WF_vars(CallReturns)

-----------------------------------------------------------------------------
(* Properties *)

Count(user) == bank[FindProgramAddress(user)].data.count

\* What main prints, whatever others did meanwhile (client main.rs 105-110,
\* 123-127, 140, README 05:52): a new counter of Alice's, then 1 + 41 and 7,
\* and Alice's attempt on Bob's counter reports InvalidAccountOwner.
ScriptReportsHold ==
  /\ step = 4 => bank[FindProgramAddress(Alice)].data = NewCounter(Alice)
  /\ step > 6 => Count(Alice) = 42 /\ Count(Bob) = 7
  /\ Done     => simErr = "InvalidAccountOwner"

\* No transaction of the client's ever fails, unless somebody had sent
\* lamports to a counter's address before it was initialized.
FailsOnlyOnPrefundedAddress ==
  outcome = "failed" =>
    /\ Current.ixs[next].tag = 0
    /\ bank[Current.ixs[next].counter].lamports > 0
    /\ ~Live(bank, Current.ixs[next].counter)

\* The inductive invariant behind the safety properties.  main knows its
\* counters at every instruction: CountAt is the count of u, or -1, when n
\* instructions of step s have run.
OpensAt(u) == IF u = Alice THEN 3 ELSE 4

CountAt(u, s, n) ==
  IF u = Alice
  THEN IF s < 3 \/ (s = 3 /\ n = 0)      THEN -1
       ELSE IF s < 5 \/ (s = 5 /\ n = 0) THEN 0
       ELSE IF s = 5 /\ n = 1            THEN 1
       ELSE 42
  ELSE IF s < 4 \/ (s = 4 /\ n = 0)      THEN -1
       ELSE IF s < 6 \/ (s = 6 /\ n = 0) THEN 0
       ELSE 7

\* Instructions of the current step that have run.
Ran == IF Mine THEN next - 1 ELSE 0

Charged(u) == IF u \in tx.signers THEN FeePerSignature ELSE 0

\* Alice and Bob as main believes they are: their counts; the airdrop, until
\* it pays for the counter; and the reason, if initialize has failed.
AsScripted(accts, n) ==
  \A u \in {Alice, Bob} :
    /\ CountOf(accts)[u] = CountAt(u, step, n)
    /\ accts[u].owner = System /\ accts[u].len = 0
    /\ (outcome = "running"
          /\ (step = OpensAt(u) - 1 \/ (step = OpensAt(u) /\ n = 0)))
         => accts[u].lamports + Charged(u) >= Airdrop
    /\ (outcome = "failed" /\ step = OpensAt(u))
         => accts[FindProgramAddress(u)].lamports > 0

\* A transaction with one of the client's signatures is the one main is at.
OwnTransaction ==
  Mine => /\ Busy /\ Current.op # "fund"
          /\ tx.signers = {Current.user} /\ tx.mode = Current.op
          /\ next <= (IF Current.op = "send" THEN Len(Current.ixs) ELSE 0) + 1
          /\ next = 1 => \A p \in Pdas : working[p].lamports = bank[p].lamports

ClientInv ==
  /\ CounterInv
  /\ step \in 1 .. Len(Script) + 1 /\ next \in 1 .. 3
  /\ outcome \in {"running", "failed", "rpc error"}
  /\ OwnTransaction
  /\ AsScripted(bank, 0)
  /\ AsScripted(working, Ran)
  /\ outcome = "failed" => step \in {3, 4} /\ next = 1
  /\ Done => simErr = "InvalidAccountOwner"

\* main ends, whatever others do, but for the loop that waits for an airdrop
\* (client main.rs 70).
EndsUnlessAirdropLost ==
  \/ <>(Done \/ outcome # "running")
  \/ <>[](Busy /\ Current.op = "fund")

=============================================================================
