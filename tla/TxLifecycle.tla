----------------------------- MODULE TxLifecycle -----------------------------
(***************************************************************************)
(* Exercise 04 (04-transaction-lifecycle): a client that funds a payer,    *)
(* submits a transfer and watches it climb the commitment levels, then     *)
(* submits one that runs out of compute units and watches that.  Between   *)
(* any two calls the cluster may process, fork, confirm, finalize or       *)
(* forget a transaction.                                                   *)
(***************************************************************************)
EXTENDS Integers, Sequences

CONSTANTS
  KeypairBalances,   \* lamports a keypair file's account may hold
  Budget             \* bound: polls of `watch` (90 s at 300 ms in the program)

AIRDROP  == 2000000000
BASE_FEE == 5000       \* for the one signature
CU_EACH  == 150        \* what a builtin instruction consumes

\* The two messages of main: compute unit limit and price, the number of
\* builtin instructions, and the lamports transferred.
Message(t) ==
  IF t = "good"
  THEN [limit |-> 10000, price |-> 1000, ixs |-> 3, amount |-> 100000000]
  ELSE [limit |-> 10,    price |-> 0,    ixs |-> 2, amount |-> 1000000]

\* Micro-lamports per unit of the limit, rounded up, on top of the base fee.
Fee(t) ==
  BASE_FEE + (Message(t).limit * Message(t).price + 999999) \div 1000000

OverBudget(t) == CU_EACH * Message(t).ixs > Message(t).limit

Submitted == {"good", "bad"}
Txs       == {"airdrop"} \cup Submitted
Levels    == <<"Processed", "Confirmed", "Finalized">>
Landed    == {"Processed", "Confirmed", "Finalized"}
Safe      == {"Confirmed", "Finalized"}

ASSUME LifecycleAssumption ==
  KeypairBalances \subseteq Nat /\ Budget \in Nat \ {0}

VARIABLES
  \* the cluster
  status,     \* tx -> "unsent", "sent" or a commitment level
  hash,       \* tx -> its blockhash: "none", "valid" or "expired"
  failed,     \* the landed transactions that failed on chain
  keypair,    \* lamports of the payer when it comes from a keypair file
  \* the client
  pc, cur,    \* the call main is about to make, and for which transaction
  before, after,
  last,       \* watch: the level printed last
  shown,      \* watch: the levels printed
  elapsed,    \* watch: polls made
  sawFinal,   \* transactions whose watch returned on Finalized
  paid        \* tx -> what main reported as paid, -1 before the report

cluster == <<status, hash, failed, keypair>>
client  == <<pc, cur, before, after, last, shown, elapsed, sawFinal, paid>>
vars    == <<cluster, client>>

Ended == {"done", "error", "panic"}

TypeOK ==
  /\ status \in [Txs -> {"unsent", "sent"} \cup Landed]
  /\ hash \in [Txs -> {"none", "valid", "expired"}]
  /\ failed \subseteq Submitted
  /\ keypair \in KeypairBalances \cup {0}
  /\ pc \in {"fund", "confirmAirdrop", "build", "readBefore", "submit",
             "watch", "readAfter", "report"} \cup Ended
  /\ cur \in Submitted
  /\ before \in Nat /\ after \in Nat
  /\ last \in {""} \cup Landed
  /\ shown \in Seq(Landed)
  /\ elapsed \in 0 .. Budget
  /\ sawFinal \subseteq Submitted
  /\ paid \in [Submitted -> Nat \cup {-1}]

\* The payer's lamports in a bank that holds the transactions at `levels`.
Balance(levels) ==
  LET got      == IF status["airdrop"] \in levels THEN AIRDROP ELSE 0
      spent(t) == IF status[t] \notin levels THEN 0
                  ELSE IF t \in failed THEN Fee(t)
                  ELSE Fee(t) + Message(t).amount
  IN  keypair + got - spent("good") - spent("bad")

\* Fees and amount are there, and the compute budget suffices.
Affordable(t, balance) == balance >= Fee(t) + Message(t).amount

Init ==
  /\ status = [t \in Txs |-> "unsent"]
  /\ hash = [t \in Txs |-> "none"]
  /\ failed = {}
  /\ keypair = 0
  /\ pc = "fund" /\ cur = "good"
  /\ before = 0 /\ after = 0
  /\ last = "" /\ shown = <<>> /\ elapsed = 0
  /\ sawFinal = {}
  /\ paid = [t \in Submitted |-> -1]

-----------------------------------------------------------------------------
(* The cluster. *)

\* A leader puts the transaction into a block, whether it succeeds or not,
\* as long as its blockhash is recent and the payer can pay the fee.
Process(t) ==
  /\ status[t] = "sent" /\ hash[t] = "valid"
  /\ t \in Submitted => Balance(Landed) >= Fee(t)
  /\ status' = [status EXCEPT ![t] = "Processed"]
  /\ failed' = IF /\ t \in Submitted
                  /\ OverBudget(t) \/ ~Affordable(t, Balance(Landed))
               THEN failed \cup {t}
               ELSE failed \ {t}
  /\ UNCHANGED <<hash, keypair, client>>

\* The fork that holds the block is abandoned before it is confirmed.
ForkAway(t) ==
  /\ status[t] = "Processed"
  /\ status' = [status EXCEPT ![t] = "sent"]
  /\ UNCHANGED <<hash, failed, keypair, client>>

Climb(t, from, to) ==
  /\ status[t] = from
  /\ status' = [status EXCEPT ![t] = to]
  /\ UNCHANGED <<hash, failed, keypair, client>>

\* Some 150 blocks after it was read, the blockhash is no longer recent.
ExpireBlockhash(t) ==
  /\ hash[t] = "valid"
  /\ hash' = [hash EXCEPT ![t] = "expired"]
  /\ UNCHANGED <<status, failed, keypair, client>>

ClusterStep ==
  \E t \in Txs :
    \/ Process(t)
    \/ ForkAway(t)
    \/ Climb(t, "Processed", "Confirmed")
    \/ Climb(t, "Confirmed", "Finalized")
    \/ ExpireBlockhash(t)

-----------------------------------------------------------------------------
(* The client's main. *)

UseKeypair ==
  /\ pc = "fund"
  /\ keypair' \in KeypairBalances
  /\ pc' = "build"
  /\ UNCHANGED <<status, hash, failed, cur, before, after, last, shown, elapsed, sawFinal,
                 paid>>

RequestAirdrop ==
  /\ pc = "fund"
  /\ pc' = "confirmAirdrop"
  /\ status' = [status EXCEPT !["airdrop"] = "sent"]
  /\ hash' = [hash EXCEPT !["airdrop"] = "valid"]
  /\ UNCHANGED <<failed, keypair, cur, before, after, last, shown, elapsed,
                 sawFinal, paid>>

\* `while !rpc.confirm_transaction(&sig)? {}`: a poll that answers false
\* changes nothing.
ConfirmAirdrop ==
  /\ pc = "confirmAirdrop"
  /\ status["airdrop"] \in Safe
  /\ pc' = "build"
  /\ UNCHANGED <<cluster, cur, before, after, last, shown, elapsed, sawFinal,
                 paid>>

\* Reads a blockhash, builds, signs and simulates; the outcome of the
\* simulation is printed and not used.
Build ==
  /\ pc = "build"
  /\ hash' = [hash EXCEPT ![cur] = "valid"]
  /\ pc' = "readBefore"
  /\ UNCHANGED <<status, failed, keypair, cur, before, after, last, shown,
                 elapsed, sawFinal, paid>>

ReadBefore ==
  /\ pc = "readBefore"
  /\ before' = Balance(Safe)
  /\ pc' = "submit"
  /\ UNCHANGED <<cluster, cur, after, last, shown, elapsed, sawFinal, paid>>

\* send_transaction simulates first and refuses what fails there.
PreflightOK(t) ==
  /\ hash[t] = "valid"
  /\ Affordable(t, Balance(Safe))
  /\ ~OverBudget(t)

SkipsPreflight(t) == t = "bad"

\* Mutant: the configuration with skip_preflight is used for both.
Accepted_Always(t) == TRUE

Accepted(t) == SkipsPreflight(t) \/ PreflightOK(t)

\* The call returns the signature and `watch` starts.
Submit ==
  /\ pc = "submit"
  /\ Accepted(cur)
  /\ status' = [status EXCEPT ![cur] = "sent"]
  /\ pc' = "watch"
  /\ last' = "" /\ shown' = <<>> /\ elapsed' = 0
  /\ UNCHANGED <<hash, failed, keypair, cur, before, after, sawFinal, paid>>

PreflightRejects ==
  /\ pc = "submit"
  /\ ~Accepted(cur)
  /\ pc' = "error"
  /\ UNCHANGED <<cluster, cur, before, after, last, shown, elapsed, sawFinal,
                 paid>>

\* Mutant: watch is content with any level.
StopsWatch_AtOnce(level) == level \in Landed

StopsWatch(level) == level = "Finalized"

\* Mutant: prints at every poll.
Printed_Always(level) == Append(shown, level)

Printed(level) == IF last # level THEN Append(shown, level) ELSE shown

WithinBudget == elapsed < Budget

\* One round of watch's loop: no status yet, or a status whose level is
\* printed when it differs from the last one; Finalized ends the loop.  A
\* status without a level, which main prints as "?" (main.rs 105) and only a
\* server that leaves the field out sends, is left out.
WatchPoll ==
  /\ pc = "watch" /\ WithinBudget
  /\ status[cur] \in Landed
  /\ elapsed' = elapsed + 1
  /\ last' = status[cur]
  /\ shown' = Printed(status[cur])
  /\ IF StopsWatch(status[cur])
     THEN pc' = "readAfter" /\ sawFinal' = sawFinal \cup {cur}
     ELSE UNCHANGED <<pc, sawFinal>>
  /\ UNCHANGED <<cluster, cur, before, after, paid>>

WatchPollNothing ==
  /\ pc = "watch" /\ WithinBudget
  /\ status[cur] \notin Landed
  /\ elapsed' = elapsed + 1
  /\ UNCHANGED <<cluster, pc, cur, before, after, last, shown, sawFinal, paid>>

\* Mutant: the time budget is dropped.
WatchGiveUp_Never == FALSE /\ UNCHANGED vars

\* "gave up waiting for Finalized": watch returns Ok all the same.
WatchGiveUp ==
  /\ pc = "watch" /\ ~WithinBudget
  /\ pc' = "readAfter"
  /\ UNCHANGED <<cluster, cur, before, after, last, shown, elapsed, sawFinal,
                 paid>>

ReadAfter ==
  /\ pc = "readAfter"
  /\ after' = Balance(Safe)
  /\ pc' = "report"
  /\ UNCHANGED <<cluster, cur, before, last, shown, elapsed, sawFinal, paid>>

\* The u64 subtractions of the report: `before - after - 100_000_000` for the
\* first transaction, `before - after` for the second.
ReportUnderflows ==
  \/ before < after
  \/ cur = "good" /\ before - after < Message("good").amount

Report ==
  /\ pc = "report" /\ ~ReportUnderflows
  /\ paid' = [paid EXCEPT ![cur] = before - after]
  /\ IF cur = "good" THEN pc' = "build" /\ cur' = "bad"
                     ELSE pc' = "done"  /\ UNCHANGED cur
  /\ UNCHANGED <<cluster, before, after, last, shown, elapsed, sawFinal>>

\* `cargo run` builds with overflow checks.
ReportPanics ==
  /\ pc = "report" /\ ReportUnderflows
  /\ pc' = "panic"
  /\ UNCHANGED <<cluster, cur, before, after, last, shown, elapsed, sawFinal,
                 paid>>

\* Any call may fail, and `?` ends main.
RpcFails ==
  /\ pc \notin Ended /\ pc # "report"
  /\ pc' = "error"
  /\ UNCHANGED <<cluster, cur, before, after, last, shown, elapsed, sawFinal,
                 paid>>

ClientStep ==
  \/ UseKeypair \/ RequestAirdrop \/ ConfirmAirdrop
  \/ Build \/ ReadBefore \/ Submit \/ PreflightRejects
  \/ WatchPoll \/ WatchPollNothing \/ WatchGiveUp
  \/ ReadAfter \/ Report \/ ReportPanics

Next == ClusterStep \/ ClientStep \/ RpcFails

\* The client is a sequential program that keeps running; nothing is assumed
\* of the cluster.
Spec == Init /\ [][Next]_vars /\ WF_vars(ClientStep)

-----------------------------------------------------------------------------
(* Properties *)

Rank(level) == CHOOSE i \in 1 .. 3 : Levels[i] = level

\* The levels watch prints climb strictly, also when a fork takes the
\* transaction away and brings it back (main.rs 102-112, README 04:48-51).
ShownLevelsClimb ==
  \A i, j \in 1 .. Len(shown) : i < j => Rank(shown[i]) < Rank(shown[j])

\* A report that follows Finalized is exact: 100,000,000 and a fee of 5010
\* for the first transaction, 5000 for the one that failed (README 04:56,
\* 69-71), and its subtraction does not underflow.
ExactAfterFinality ==
  /\ \A t \in sawFinal : paid[t] # -1 =>
       paid[t] = IF t = "good" THEN 100005010 ELSE 5000
  /\ pc = "panic" => cur \notin sawFinal

\* What goes through preflight never fails on chain (README 04:66): nobody
\* else spends from the payer meanwhile.
PreflightKeepsFailuresOffChain ==
  \A t \in failed : status[t] \in Landed => SkipsPreflight(t)

\* The inductive invariant, in four parts.  What the payer can count on, and
\* what a transaction costs that behaves as the program expects of it.
Funds   == keypair + IF status["airdrop"] \in Safe THEN AIRDROP ELSE 0
Cost(t) == IF t = "good" THEN Fee(t) + Message(t).amount ELSE Fee(t)

Unsent(t) == status[t] = "unsent"

\* Nothing is submitted before the funds are settled: a confirmed airdrop, or
\* none.
FundsSettled ==
  /\ pc = "fund" => \A t \in Txs : Unsent(t)
  /\ pc \in {"fund", "confirmAirdrop"} => \A t \in Submitted : Unsent(t)
  /\ (pc \notin {"fund", "confirmAirdrop", "error"} \/ \E t \in Submitted : ~Unsent(t))
       => Unsent("airdrop") \/ status["airdrop"] \in Safe

\* The second transaction is not even built before the first is safe, so the
\* first, once accepted, can be paid whenever it lands.
OneAfterTheOther ==
  /\ ~Unsent("good") => Funds >= Cost("good")
  /\ status["good"] \in Landed => "good" \notin failed
  /\ cur = "bad" => status["good"] \in Safe
  /\ ~Unsent("bad") => cur = "bad"
  /\ status["bad"] \in Landed => "bad" \in failed /\ Funds >= Cost("good") + Cost("bad")
  /\ pc \in {"build", "readBefore", "submit"} => Unsent(cur)

\* The two readings of the balance around a transaction differ by its cost or
\* not at all.
ReadingsExplained ==
  /\ pc \in {"submit", "watch", "readAfter", "report"} =>
       before = IF cur = "good" THEN Funds ELSE Funds - Cost("good")
  /\ pc = "report" => \/ after = before /\ cur \notin sawFinal
                      \/ after = before - Cost(cur) /\ status[cur] \in Safe
  /\ \A t \in sawFinal : status[t] = "Finalized"
  /\ paid["good"] # -1 => cur = "bad"
  /\ paid["bad"] # -1 => pc = "done"

\* No level watch has printed can be undone, but the lowest.
PrintedLevelsLast ==
  /\ \A i \in 1 .. Len(shown) : last # "" /\ Rank(shown[i]) <= Rank(last)
  /\ pc = "watch" =>
       /\ last = "Confirmed" => status[cur] \in Safe
       /\ last = "Finalized" => status[cur] = "Finalized"

LifecycleInv ==
  /\ TypeOK
  /\ FundsSettled /\ OneAfterTheOther
  /\ ReadingsExplained /\ ExactAfterFinality
  /\ PrintedLevelsLast /\ ShownLevelsClimb

\* main ends whatever the cluster does, but for the loop on the airdrop,
\* which spins for as long as the airdrop is not confirmed (main.rs 146).
EndsUnlessAirdropLost ==
  <>(pc \in Ended) \/ <>[](pc = "confirmAirdrop" /\ status["airdrop"] \notin Safe)

\* The report of README 04:56 and main.rs 193-194 can always be computed.
ReportNeverPanics == pc # "panic"

\* main.rs 228-229 and README 04:73: at the end the second transaction is in
\* a block and its fee was charged.
FailedTxIsInABlock ==
  pc = "done" => status["bad"] \in Landed /\ paid["bad"] = Fee("bad")

=============================================================================
