-------------------------- MODULE TxLifecycleProofs --------------------------
(***************************************************************************)
(* Theorems about TxLifecycle, for every set of balances a keypair may     *)
(* hold and every budget of polls, and about MessageHeader, for messages   *)
(* of any length.                                                          *)
(***************************************************************************)
EXTENDS TxLifecycle, MessageHeader, FiniteSetTheorems, SequenceTheorems, TLAPS

-----------------------------------------------------------------------------
(* What the two messages cost. *)

LEMMA CostValues ==
  /\ Fee("good") = 5010 /\ Fee("bad")  = 5000
  /\ Message("good").amount = 100000000
  /\ Cost("good") = 100005010 /\ Cost("bad") = 5000
  /\ ~OverBudget("good") /\ OverBudget("bad")
BY DEF Fee, Message, Cost, OverBudget, BASE_FEE, CU_EACH

\* Of these values the proofs need little.
LEMMA Costs ==
  /\ Fee("good") \in Nat /\ Fee("good") > 0
  /\ Message("good").amount \in Nat /\ Message("good").amount > 0
  /\ Cost("good") = Fee("good") + Message("good").amount
  /\ Fee("bad") \in Nat /\ Fee("bad") > 0 /\ Cost("bad") = Fee("bad")
  /\ Cost("good") \in Nat /\ Cost("bad") \in Nat
  /\ ~OverBudget("good") /\ OverBudget("bad")
BY CostValues, SMT DEF Cost

LEMMA Ranks ==
  Rank("Processed") = 1 /\ Rank("Confirmed") = 2 /\ Rank("Finalized") = 3
<1>1. \A i \in 1 .. 3 : Levels[i] = "Processed" <=> i = 1
  BY DEF Levels
<1>2. \A i \in 1 .. 3 : Levels[i] = "Confirmed" <=> i = 2
  BY DEF Levels
<1>3. \A i \in 1 .. 3 : Levels[i] = "Finalized" <=> i = 3
  BY DEF Levels
<1>4. QED BY <1>1, <1>2, <1>3 DEF Rank

LEMMA RankTypes == \A l \in Landed : Rank(l) \in Int
BY Ranks DEF Landed

LEMMA BelowWhatIsBelow == \A a, b, c \in Int : a <= b /\ b < c => a < c
OBVIOUS

LEMMA StatusTypes ==
  ASSUME LifecycleInv
  PROVE  /\ \A t \in Txs : status[t] \in {"unsent", "sent"} \cup Landed
         /\ keypair \in Nat /\ Funds \in Nat
         /\ cur \in Submitted
         /\ Safe \subseteq Landed
<1>1. keypair \in Nat
  <2>1. keypair \in KeypairBalances \cup {0}
    BY DEF LifecycleInv, TypeOK
  <2>2. KeypairBalances \subseteq Nat
    BY LifecycleAssumption
  <2>3. QED BY <2>1, <2>2
<1>2. AIRDROP \in Nat
  BY DEF AIRDROP
<1>3. Funds \in Nat
  BY <1>1, <1>2 DEF Funds
<1>4. QED BY <1>1, <1>3 DEF LifecycleInv, TypeOK, Safe, Landed

\* With the funds settled, a balance is what they are without the cost of the
\* transactions that landed.
LEMMA SettledBalance ==
  ASSUME LifecycleInv, NEW levels \in {Safe, Landed},
         Unsent("airdrop") \/ status["airdrop"] \in Safe
  PROVE  Balance(levels) = Funds - (IF status["good"] \in levels THEN Cost("good") ELSE 0)
                                 - (IF status["bad"] \in levels THEN Cost("bad") ELSE 0)
<1>1. status["good"] \in levels => "good" \notin failed
  BY DEF LifecycleInv, OneAfterTheOther, Safe, Landed
<1>2. status["bad"] \in levels => "bad" \in failed
  BY DEF LifecycleInv, OneAfterTheOther, Safe, Landed
<1>3. keypair + (IF status["airdrop"] \in levels THEN AIRDROP ELSE 0) = Funds
  BY DEF Funds, Unsent, Safe, Landed
<1>4. Funds \in Nat
  BY StatusTypes
<1> DEFINE got == IF status["airdrop"] \in levels THEN AIRDROP ELSE 0
           spent(t) == IF status[t] \notin levels THEN 0
                       ELSE IF t \in failed THEN Fee(t)
                       ELSE Fee(t) + Message(t).amount
<1>5. Balance(levels) = keypair + got - spent("good") - spent("bad")
  BY DEF Balance
<1>6. spent("good") = IF status["good"] \in levels THEN Cost("good") ELSE 0
  BY <1>1, Costs
<1>7. spent("bad") = IF status["bad"] \in levels THEN Cost("bad") ELSE 0
  BY <1>2, Costs
<1>8. keypair + got = Funds
  BY <1>3
<1>9. got \in Int
  BY DEF AIRDROP
<1> HIDE DEF got, spent
<1>10. spent("good") \in Int /\ spent("bad") \in Int
  BY <1>6, <1>7, Costs
<1>11. Balance(levels) = Funds - spent("good") - spent("bad")
  BY <1>4, <1>5, <1>8, <1>9, <1>10, StatusTypes
<1>12. QED BY <1>6, <1>7, <1>11

-----------------------------------------------------------------------------
(* Every step preserves the invariant. *)

LEMMA InvInit == Init => LifecycleInv
<1> SUFFICES ASSUME Init PROVE LifecycleInv
  OBVIOUS
<1>1. TypeOK
  <2>1. "unsent" \in {"unsent", "sent"} \cup Landed
    OBVIOUS
  <2>2. -1 \in Nat \cup {-1} /\ 0 \in Nat
    OBVIOUS
  <2>3. Budget \in Nat /\ 0 <= Budget
    BY LifecycleAssumption
  <2>4. 0 \in 0 .. Budget
    BY <2>3
  <2>5. "good" \in Submitted
    BY DEF Submitted
  <2>6. shown \in Seq(Landed)
    BY EmptySeq DEF Init
  <2>7. paid \in [Submitted -> Nat \cup {-1}]
    BY <2>2 DEF Init
  <2>8. QED BY <2>1, <2>2, <2>4, <2>5, <2>6, <2>7 DEF TypeOK, Init
<1>2. \A t \in Txs : Unsent(t)
  BY DEF Unsent, Init
<1>3. FundsSettled /\ OneAfterTheOther
  <2>1. \A t \in Submitted : t \in Txs
    BY DEF Txs
  <2>2. Unsent("good") /\ Unsent("bad") /\ Unsent("airdrop")
    BY <1>2 DEF Txs, Submitted
  <2>3. status["good"] \notin Landed /\ status["bad"] \notin Landed
    BY <2>2 DEF Landed, Unsent
  <2>4. FundsSettled
    BY <1>2, <2>1, <2>2 DEF FundsSettled
  <2>5. OneAfterTheOther
    BY <2>2, <2>3 DEF OneAfterTheOther, Init
  <2>6. QED BY <2>4, <2>5
<1>4. ReadingsExplained /\ ExactAfterFinality
  <2>1. paid["good"] = -1 /\ paid["bad"] = -1
    BY DEF Init, Submitted
  <2>2. \A t \in sawFinal : FALSE
    BY DEF Init
  <2>3. pc = "fund"
    BY DEF Init
  <2>4. ReadingsExplained
    BY <2>1, <2>2, <2>3 DEF ReadingsExplained
  <2>5. ExactAfterFinality
    BY <2>2, <2>3 DEF ExactAfterFinality
  <2>6. QED BY <2>4, <2>5
<1>5. PrintedLevelsLast /\ ShownLevelsClimb
  <2>1. Len(shown) = 0 /\ pc = "fund"
    BY EmptySeq DEF Init
  <2>2. QED BY <2>1 DEF PrintedLevelsLast, ShownLevelsClimb
<1>6. QED BY <1>1, <1>3, <1>4, <1>5 DEF LifecycleInv

\* What a step of the cluster does: no transaction leaves "unsent" or a safe
\* level, and the funds stay once they are settled.
ClusterKeeps ==
  /\ UNCHANGED <<keypair, client>>
  /\ status' \in [Txs -> {"unsent", "sent"} \cup Landed]
  /\ hash' \in [Txs -> {"none", "valid", "expired"}]
  /\ failed' \subseteq Submitted
  /\ \A t \in Txs : /\ Unsent(t) <=> Unsent(t)'
                    /\ status[t] \in Safe => status'[t] \in Safe
                    /\ status[t] = "Finalized" => status'[t] = "Finalized"
  /\ status'["good"] \in Landed => "good" \notin failed'
  /\ status'["bad"] \in Landed => "bad" \in failed' /\ Funds >= Cost("good") + Cost("bad")

LEMMA ClusterStepKeeps ==
  ASSUME LifecycleInv, ClusterStep
  PROVE  ClusterKeeps
<1>1. /\ status \in [Txs -> {"unsent", "sent"} \cup Landed]
      /\ hash \in [Txs -> {"none", "valid", "expired"}]
      /\ failed \subseteq Submitted
      /\ FundsSettled /\ OneAfterTheOther
  BY DEF LifecycleInv, TypeOK
<1>2. /\ "good" \in Submitted /\ "bad" \in Submitted
      /\ \A t \in Submitted : t \in Txs
      /\ "airdrop" \in Txs /\ "airdrop" \notin Submitted
      /\ "sent" \notin Landed /\ "unsent" \notin Landed
      /\ Safe \subseteq Landed /\ "Processed" \in Landed \ Safe
  BY DEF Submitted, Txs, Landed, Safe
<1>3. ASSUME NEW t \in Txs, Process(t)
      PROVE  ClusterKeeps
  <2>1. /\ status[t] = "sent"
        /\ t \in Submitted => Balance(Landed) >= Fee(t)
        /\ status' = [status EXCEPT ![t] = "Processed"]
        /\ failed' = IF /\ t \in Submitted
                        /\ OverBudget(t) \/ ~Affordable(t, Balance(Landed))
                     THEN failed \cup {t}
                     ELSE failed \ {t}
        /\ UNCHANGED <<hash, keypair, client>>
    BY <1>3 DEF Process
  <2>2. /\ ~Unsent(t) /\ status[t] \notin Landed
        /\ t \in Submitted => Unsent("airdrop") \/ status["airdrop"] \in Safe
    BY <1>1, <1>2, <2>1 DEF FundsSettled, Unsent
  <2>3. Funds \in Nat
    BY StatusTypes
  <2>4. CASE t = "good"
    <3>1. status["bad"] \notin Landed /\ status["good"] \notin Landed
      BY <1>1, <1>2, <2>1, <2>4 DEF OneAfterTheOther, Unsent
    <3>2. Balance(Landed) = Funds
      <4>1. Balance(Landed) = Funds - 0 - 0
        BY <1>2, <2>2, <2>4, <3>1, SettledBalance
      <4>2. QED BY <2>3, <4>1
    <3>3. "good" \notin failed'
      <4>1. Funds >= Cost("good")
        BY <1>1, <2>2, <2>4 DEF OneAfterTheOther
      <4>2. QED BY <2>1, <2>4, <3>2, <4>1, Costs DEF Affordable
    <3>4. QED BY <1>1, <1>2, <2>1, <2>4, <3>1, <3>3 DEF ClusterKeeps, Unsent
  <2>5. CASE t = "bad"
    <3>1. status["good"] \in Landed /\ status["bad"] \notin Landed
      BY <1>1, <1>2, <2>2, <2>5 DEF OneAfterTheOther
    <3>2. Balance(Landed) = Funds - Cost("good")
      <4>1. Balance(Landed) = Funds - Cost("good") - 0
        BY <1>2, <2>2, <2>5, <3>1, SettledBalance
      <4>2. QED BY <2>3, <4>1, Costs
    <3>3. "bad" \in failed' /\ Funds >= Cost("good") + Cost("bad")
      BY <1>2, <2>1, <2>3, <2>5, <3>2, Costs
    <3>4. "good" \notin failed'
      BY <1>1, <2>1, <2>5, <3>1 DEF OneAfterTheOther
    <3>5. QED BY <1>1, <1>2, <2>1, <2>5, <3>3, <3>4 DEF ClusterKeeps, Unsent
  <2>6. CASE t = "airdrop"
    BY <1>1, <1>2, <2>1, <2>6 DEF ClusterKeeps, OneAfterTheOther, Unsent
  <2>7. QED BY <2>4, <2>5, <2>6 DEF Txs, Submitted
<1>4. ASSUME NEW t \in Txs, ForkAway(t)
      PROVE  ClusterKeeps
  <2>1. /\ status[t] = "Processed" /\ status' = [status EXCEPT ![t] = "sent"]
        /\ UNCHANGED <<hash, failed, keypair, client>>
    BY <1>4 DEF ForkAway
  <2>2. QED BY <1>1, <1>2, <2>1 DEF ClusterKeeps, OneAfterTheOther, Unsent
<1>5. ASSUME NEW t \in Txs,
             Climb(t, "Processed", "Confirmed") \/ Climb(t, "Confirmed", "Finalized")
      PROVE  ClusterKeeps
  <2>1. /\ status[t] \in Landed /\ status[t] # "Finalized"
        /\ \E to \in Safe : status' = [status EXCEPT ![t] = to]
        /\ UNCHANGED <<hash, failed, keypair, client>>
    BY <1>5 DEF Climb, Landed, Safe
  <2>2. QED BY <1>1, <1>2, <2>1 DEF ClusterKeeps, OneAfterTheOther, Unsent
<1>6. ASSUME NEW t \in Txs, ExpireBlockhash(t)
      PROVE  ClusterKeeps
  <2>1. hash' = [hash EXCEPT ![t] = "expired"] /\ UNCHANGED <<status, failed, keypair, client>>
    BY <1>6 DEF ExpireBlockhash
  <2>2. QED BY <1>1, <1>2, <2>1 DEF ClusterKeeps, OneAfterTheOther, Unsent
<1>7. QED BY <1>3, <1>4, <1>5, <1>6 DEF ClusterStep

\* Settled funds are funds that a step of the cluster does not change.
LEMMA ClusterStepInv ==
  ASSUME LifecycleInv, ClusterStep
  PROVE  LifecycleInv'
<1>1. ClusterKeeps
  BY ClusterStepKeeps
<1>2. /\ UNCHANGED <<keypair, client>>
      /\ "good" \in Submitted /\ "bad" \in Submitted /\ "airdrop" \in Txs
      /\ \A t \in Submitted : t \in Txs
      /\ \A t \in Txs : /\ Unsent(t) <=> Unsent(t)'
                        /\ status[t] \in Safe => status'[t] \in Safe
                        /\ status[t] = "Finalized" => status'[t] = "Finalized"
  BY <1>1 DEF ClusterKeeps, Submitted, Txs
<1>3. Unsent("airdrop") \/ status["airdrop"] \in Safe => Funds' = Funds
  BY <1>2 DEF Funds, Unsent, Safe
<1>4. TypeOK'
  BY <1>1 DEF LifecycleInv, TypeOK, ClusterKeeps, client
<1>5. FundsSettled'
  BY <1>2 DEF LifecycleInv, FundsSettled, client
<1>6. \A t \in Submitted : ~Unsent(t) => Funds' = Funds
  BY <1>3 DEF LifecycleInv, FundsSettled
<1>7. OneAfterTheOther'
  <2>1. OneAfterTheOther /\ cur \in Submitted
    BY DEF LifecycleInv, TypeOK
  <2>2. ~Unsent("good")' => Funds' >= Cost("good")
    BY <1>2, <1>6, <2>1 DEF OneAfterTheOther
  <2>3. status'["good"] \in Landed => "good" \notin failed'
    BY <1>1 DEF ClusterKeeps
  <2>4. status'["bad"] \in Landed =>
          "bad" \in failed' /\ Funds' >= Cost("good") + Cost("bad")
    <3>1. status'["bad"] \in Landed => ~Unsent("bad")'
      BY DEF Unsent, Landed
    <3>2. QED BY <1>1, <1>2, <1>6, <3>1 DEF ClusterKeeps
  <2>5. cur' = cur /\ pc' = pc
    BY <1>2 DEF client
  <2>6. /\ cur' = "bad" => status'["good"] \in Safe
        /\ ~Unsent("bad")' => cur' = "bad"
        /\ pc' \in {"build", "readBefore", "submit"} => Unsent(cur)'
    BY <1>2, <2>1, <2>5 DEF OneAfterTheOther, Unsent
  <2>7. QED BY <2>2, <2>3, <2>4, <2>6 DEF OneAfterTheOther, Cost, Fee, Message
<1>8. ReadingsExplained' /\ ExactAfterFinality'
  <2>1. /\ ReadingsExplained /\ ExactAfterFinality
        /\ cur \in Submitted /\ sawFinal \subseteq Submitted
    BY DEF LifecycleInv, TypeOK
  <2>2. UNCHANGED <<pc, cur, before, after, sawFinal, paid>>
    BY <1>2 DEF client
  <2>3. pc \in {"submit", "watch", "readAfter", "report"} => Funds' = Funds
    BY <1>3 DEF LifecycleInv, FundsSettled
  <2>4. ReadingsExplained'
    BY <1>2, <2>1, <2>2, <2>3 DEF ReadingsExplained
  <2>5. ExactAfterFinality'
    BY <2>1, <2>2 DEF ExactAfterFinality
  <2>6. QED BY <2>4, <2>5
<1>9. PrintedLevelsLast' /\ ShownLevelsClimb'
  <2>1. PrintedLevelsLast /\ ShownLevelsClimb /\ cur \in Submitted
    BY DEF LifecycleInv, TypeOK
  <2>2. UNCHANGED <<pc, cur, last, shown>>
    BY <1>2 DEF client
  <2>3. PrintedLevelsLast'
    BY <1>2, <2>1, <2>2 DEF PrintedLevelsLast
  <2>4. ShownLevelsClimb'
    BY <2>1, <2>2 DEF ShownLevelsClimb
  <2>5. QED BY <2>3, <2>4
<1>10. QED BY <1>4, <1>5, <1>7, <1>8, <1>9 DEF LifecycleInv

-----------------------------------------------------------------------------
(* The steps of the client. *)

\* What a step that is not a poll of watch leaves of the levels printed.
LEMMA PrintedKept ==
  ASSUME LifecycleInv, UNCHANGED <<last, shown>>,
         pc' # "watch" \/ UNCHANGED <<pc, cur, status>>
  PROVE  PrintedLevelsLast' /\ ShownLevelsClimb'
<1>1. PrintedLevelsLast /\ ShownLevelsClimb
  BY DEF LifecycleInv
<1>2. PrintedLevelsLast'
  BY <1>1 DEF PrintedLevelsLast
<1>3. ShownLevelsClimb'
  BY <1>1 DEF ShownLevelsClimb
<1>4. QED BY <1>2, <1>3

\* Funding: nothing is submitted yet.
LEMMA FundingStep ==
  ASSUME LifecycleInv, UseKeypair \/ RequestAirdrop \/ ConfirmAirdrop
  PROVE  LifecycleInv'
<1>1. /\ "good" \in Submitted /\ "bad" \in Submitted /\ "airdrop" \in Txs
      /\ \A t \in Submitted : t \in Txs /\ t # "airdrop"
      /\ "sent" \notin Landed /\ "unsent" \notin Landed /\ Safe \subseteq Landed
  BY DEF Submitted, Txs, Safe, Landed
<1>2. /\ TypeOK /\ FundsSettled /\ OneAfterTheOther /\ ReadingsExplained
      /\ ExactAfterFinality
  BY DEF LifecycleInv
<1>3. /\ pc \in {"fund", "confirmAirdrop"}
      /\ pc' \in {"build", "confirmAirdrop"}
      /\ pc' = "confirmAirdrop" => pc = "fund" /\ RequestAirdrop
      /\ status' \in [Txs -> {"unsent", "sent"} \cup Landed]
      /\ hash' \in [Txs -> {"none", "valid", "expired"}]
      /\ keypair' \in KeypairBalances \cup {0}
      /\ \A t \in Submitted : status'[t] = status[t]
      /\ pc' = "build" => Unsent("airdrop")' \/ status'["airdrop"] \in Safe
      /\ UNCHANGED <<failed, cur, before, after, last, shown, elapsed, sawFinal, paid>>
  BY <1>1, <1>2 DEF UseKeypair, RequestAirdrop, ConfirmAirdrop, cluster, TypeOK,
                    FundsSettled, Unsent
<1>4. \A t \in Submitted : Unsent(t) /\ Unsent(t)' /\ status'[t] \notin Landed
  BY <1>1, <1>2, <1>3 DEF FundsSettled, Unsent
<1>5. cur = "good"
  BY <1>1, <1>2, <1>4 DEF TypeOK, OneAfterTheOther, Submitted, Unsent
<1>6. TypeOK'
  BY <1>2, <1>3 DEF TypeOK
<1>7. FundsSettled'
  BY <1>3, <1>4 DEF FundsSettled
<1>8. OneAfterTheOther'
  BY <1>1, <1>3, <1>4, <1>5 DEF OneAfterTheOther
<1>9. ReadingsExplained'
  <2>1. paid["bad"] = -1 /\ paid["good"] = -1
    BY <1>2, <1>3, <1>5 DEF ReadingsExplained
  <2>2. \A t \in sawFinal : t \in Submitted /\ status[t] = "Finalized"
    BY <1>2 DEF ReadingsExplained, TypeOK
  <2>3. \A t \in sawFinal : FALSE
    BY <1>4, <2>2 DEF Unsent
  <2>4. QED BY <1>3, <2>1, <2>3 DEF ReadingsExplained
<1>10. ExactAfterFinality'
  BY <1>2, <1>3 DEF ExactAfterFinality
<1>11. PrintedLevelsLast' /\ ShownLevelsClimb'
  BY <1>3, PrintedKept
<1>12. QED BY <1>6, <1>7, <1>8, <1>9, <1>10, <1>11 DEF LifecycleInv

\* A step that leaves the cluster and the report alone and goes to another
\* place in main, or ends it.
LEMMA MovesOn ==
  ASSUME LifecycleInv,
         pc \notin {"fund", "confirmAirdrop", "report", "done", "panic", "error"}
           \/ (pc' = "error" /\ pc \notin {"done", "panic"}),
         pc' \in {"readBefore", "submit", "watch", "readAfter", "report", "error"},
         pc' \in {"readBefore", "submit"} => Unsent(cur),
         UNCHANGED <<status, failed, keypair, cur, paid>>,
         sawFinal' = sawFinal \/ sawFinal' = sawFinal \cup {cur},
         \A t \in sawFinal' : status[t] = "Finalized",
         pc' \in {"submit", "watch", "readAfter", "report"} =>
           before' = IF cur = "good" THEN Funds ELSE Funds - Cost("good"),
         pc' = "report" => \/ after' = before' /\ cur \notin sawFinal'
                           \/ after' = before' - Cost(cur) /\ status[cur] \in Safe
  PROVE  FundsSettled' /\ OneAfterTheOther' /\ ReadingsExplained' /\ ExactAfterFinality'
<1>1. /\ FundsSettled /\ OneAfterTheOther /\ ReadingsExplained /\ ExactAfterFinality
      /\ cur \in Submitted
  BY DEF LifecycleInv, TypeOK
<1>2. FundsSettled'
  BY <1>1 DEF FundsSettled, Unsent
<1>3. OneAfterTheOther'
  BY <1>1 DEF OneAfterTheOther, Unsent, Funds
<1>4. ReadingsExplained'
  BY <1>1 DEF ReadingsExplained, Funds
<1>5. \A t \in sawFinal' : paid[t] # -1 => t \in sawFinal
  <2>1. paid[cur] = -1
    BY <1>1 DEF ReadingsExplained, Submitted
  <2>2. QED BY <2>1
<1>6. ExactAfterFinality'
  BY <1>1, <1>5 DEF ExactAfterFinality
<1>7. QED BY <1>2, <1>3, <1>4, <1>6

LEMMA Settled ==
  ASSUME LifecycleInv, pc \notin {"fund", "confirmAirdrop", "error"}
  PROVE  Unsent("airdrop") \/ status["airdrop"] \in Safe
BY DEF LifecycleInv, FundsSettled

\* The balance a client reads while no second transaction is on its way.
LEMMA ClientBalance ==
  ASSUME LifecycleInv, pc \in {"readBefore", "submit", "readAfter"}
  PROVE  /\ Balance(Safe) \in Nat
         /\ Balance(Safe) = (IF cur = "good" THEN Funds ELSE Funds - Cost("good"))
                            - (IF status[cur] \in Safe THEN Cost(cur) ELSE 0)
<1>1. Balance(Safe) = Funds - (IF status["good"] \in Safe THEN Cost("good") ELSE 0)
                            - (IF status["bad"] \in Safe THEN Cost("bad") ELSE 0)
  BY Settled, SettledBalance
<1>2. Funds \in Nat /\ Cost("good") \in Nat /\ Cost("bad") \in Nat
  BY StatusTypes, Costs
<1>3. OneAfterTheOther /\ cur \in Submitted
  BY DEF LifecycleInv, TypeOK
<1>4. "unsent" \notin Safe /\ Safe \subseteq Landed
  BY DEF Safe, Landed
<1>5. CASE cur = "good"
  <2>1. status["bad"] \notin Safe
    BY <1>3, <1>4, <1>5 DEF OneAfterTheOther, Unsent
  <2>2. status["good"] \in Safe => Funds >= Cost("good")
    BY <1>3, <1>4 DEF OneAfterTheOther, Unsent
  <2>3. Balance(Safe) = Funds - (IF status["good"] \in Safe THEN Cost("good") ELSE 0)
    BY <1>1, <1>2, <2>1
  <2>4. QED BY <1>2, <1>5, <2>2, <2>3
<1>6. CASE cur = "bad"
  <2>1. status["good"] \in Safe
    BY <1>3, <1>6 DEF OneAfterTheOther
  <2>2. /\ Funds >= Cost("good")
        /\ status["bad"] \in Safe => Funds >= Cost("good") + Cost("bad")
    BY <1>3, <1>4, <2>1 DEF OneAfterTheOther, Unsent
  <2>3. Balance(Safe) = Funds - Cost("good")
                          - (IF status["bad"] \in Safe THEN Cost("bad") ELSE 0)
    BY <1>1, <2>1
  <2>4. QED BY <1>2, <1>6, <2>2, <2>3
<1>7. QED BY <1>3, <1>5, <1>6 DEF Submitted

\* Reading the balances and the end of watch.
LEMMA ReadingStep ==
  ASSUME LifecycleInv,
         \/ Build \/ ReadBefore \/ WatchGiveUp \/ ReadAfter \/ WatchPollNothing
         \/ PreflightRejects \/ RpcFails
  PROVE  LifecycleInv'
<1>1. /\ TypeOK /\ OneAfterTheOther /\ ReadingsExplained
  BY DEF LifecycleInv
<1>2. UNCHANGED <<status, failed, keypair, cur, last, shown, sawFinal, paid>>
  BY DEF Build, ReadBefore, WatchGiveUp, ReadAfter, WatchPollNothing, PreflightRejects,
         RpcFails, cluster
<1>3. CASE Build
  <2>1. TypeOK'
    BY <1>1, <1>3 DEF Build, TypeOK, Txs
  <2>2. FundsSettled' /\ OneAfterTheOther' /\ ReadingsExplained' /\ ExactAfterFinality'
    BY <1>1, <1>2, <1>3, MovesOn DEF Build, OneAfterTheOther, ReadingsExplained
  <2>3. QED BY <1>2, <1>3, <2>1, <2>2, PrintedKept DEF Build, LifecycleInv
<1>4. CASE ReadBefore
  <2>1. before' \in Nat /\ before' = IF cur = "good" THEN Funds ELSE Funds - Cost("good")
    <3>1. /\ Balance(Safe) \in Nat
          /\ Balance(Safe) = (IF cur = "good" THEN Funds ELSE Funds - Cost("good"))
                             - (IF status[cur] \in Safe THEN Cost(cur) ELSE 0)
      BY <1>4, ClientBalance DEF ReadBefore
    <3>2. status[cur] \notin Safe
      BY <1>1, <1>4 DEF ReadBefore, OneAfterTheOther, Unsent, Safe
    <3>3. Funds - Cost("good") \in Int /\ Funds \in Int
      BY StatusTypes, Costs
    <3>4. QED BY <1>4, <3>1, <3>2, <3>3 DEF ReadBefore
  <2>2. TypeOK'
    BY <1>1, <1>4, <2>1 DEF ReadBefore, TypeOK, cluster
  <2>3. FundsSettled' /\ OneAfterTheOther' /\ ReadingsExplained' /\ ExactAfterFinality'
    BY <1>1, <1>2, <1>4, <2>1, MovesOn DEF ReadBefore, OneAfterTheOther, ReadingsExplained
  <2>4. QED BY <1>2, <1>4, <2>2, <2>3, PrintedKept DEF ReadBefore, LifecycleInv
<1>5. CASE ReadAfter
  <2>1. /\ after' \in Nat /\ before' = before
        /\ \/ after' = before /\ cur \notin sawFinal
           \/ after' = before - Cost(cur) /\ status[cur] \in Safe
    <3>1. before = IF cur = "good" THEN Funds ELSE Funds - Cost("good")
      BY <1>1, <1>5 DEF ReadAfter, ReadingsExplained
    <3>2. /\ Balance(Safe) \in Nat
          /\ Balance(Safe) = before - (IF status[cur] \in Safe THEN Cost(cur) ELSE 0)
      BY <1>5, <3>1, ClientBalance DEF ReadAfter
    <3>3. before \in Nat
      BY <1>1 DEF TypeOK
    <3>4. cur \in sawFinal => status[cur] \in Safe
      BY <1>1 DEF ReadingsExplained, Safe
    <3>5. QED BY <1>5, <3>2, <3>3, <3>4 DEF ReadAfter
  <2>2. TypeOK'
    BY <1>1, <1>5, <2>1 DEF ReadAfter, TypeOK, cluster
  <2>3. FundsSettled' /\ OneAfterTheOther' /\ ReadingsExplained' /\ ExactAfterFinality'
    BY <1>1, <1>2, <1>5, <2>1, MovesOn DEF ReadAfter, ReadingsExplained
  <2>4. QED BY <1>2, <1>5, <2>2, <2>3, PrintedKept DEF ReadAfter, LifecycleInv
<1>6. CASE WatchGiveUp \/ WatchPollNothing
  <2>1. /\ pc = "watch" /\ pc' \in {"watch", "readAfter"}
        /\ UNCHANGED <<hash, before, after>>
        /\ elapsed' = elapsed \/ (elapsed < Budget /\ elapsed' = elapsed + 1)
    BY <1>6 DEF WatchGiveUp, WatchPollNothing, WithinBudget, cluster
  <2>2. elapsed' \in 0 .. Budget
    <3>1. elapsed \in 0 .. Budget /\ Budget \in Nat
      BY <1>1, LifecycleAssumption DEF TypeOK
    <3>2. QED BY <2>1, <3>1
  <2>3. TypeOK'
    BY <1>1, <1>2, <2>1, <2>2 DEF TypeOK
  <2>4. FundsSettled' /\ OneAfterTheOther' /\ ReadingsExplained' /\ ExactAfterFinality'
    BY <1>1, <1>2, <2>1, MovesOn DEF ReadingsExplained
  <2>5. pc' # "watch" \/ UNCHANGED <<pc, cur, status>>
    BY <1>2, <2>1
  <2>6. QED BY <1>2, <2>3, <2>4, <2>5, PrintedKept DEF LifecycleInv
<1>7. CASE PreflightRejects \/ RpcFails
  <2>1. /\ pc' = "error" /\ pc \notin {"done", "panic"}
        /\ UNCHANGED <<hash, before, after, elapsed>>
    BY <1>7 DEF PreflightRejects, RpcFails, cluster, Ended
  <2>2. TypeOK'
    BY <1>1, <1>2, <2>1 DEF TypeOK, Ended
  <2>3. FundsSettled' /\ OneAfterTheOther' /\ ReadingsExplained' /\ ExactAfterFinality'
    BY <1>1, <1>2, <2>1, MovesOn DEF ReadingsExplained
  <2>4. QED BY <1>2, <2>1, <2>2, <2>3, PrintedKept DEF LifecycleInv
<1>8. QED BY <1>3, <1>4, <1>5, <1>6, <1>7

\* send_transaction: with preflight, only what can be paid; `watch` starts.
LEMMA SubmitStep ==
  ASSUME LifecycleInv, Submit
  PROVE  LifecycleInv'
<1>1. /\ TypeOK /\ FundsSettled /\ OneAfterTheOther /\ ReadingsExplained
      /\ ExactAfterFinality
      /\ "good" \in Txs /\ "bad" \in Txs /\ "airdrop" \in Txs
      /\ \A t \in Submitted : t \in Txs /\ t # "airdrop"
      /\ "sent" \notin Landed /\ "unsent" \notin Landed /\ Safe \subseteq Landed
  BY DEF LifecycleInv, Submitted, Txs, Safe, Landed
<1>2. /\ pc = "submit" /\ pc' = "watch" /\ Accepted(cur) /\ cur \in Submitted
      /\ status' = [status EXCEPT ![cur] = "sent"]
      /\ last' = "" /\ shown' = <<>> /\ elapsed' = 0
      /\ UNCHANGED <<hash, failed, keypair, cur, before, after, sawFinal, paid>>
  BY <1>1 DEF Submit, TypeOK
<1>3. /\ Unsent(cur) /\ ~Unsent(cur)' /\ status'[cur] = "sent"
      /\ \A t \in Txs \ {cur} : status'[t] = status[t]
  BY <1>1, <1>2 DEF OneAfterTheOther, TypeOK, Unsent
<1>4. Funds' = Funds /\ (Unsent("airdrop")' \/ status'["airdrop"] \in Safe)
  BY <1>1, <1>2, <1>3, Settled DEF Funds, Unsent
<1>5. cur = "good" => Funds >= Cost("good")
  <2>1. SUFFICES ASSUME cur = "good" PROVE Funds >= Cost("good")
    OBVIOUS
  <2>2. Affordable("good", Balance(Safe))
    BY <1>2, <2>1 DEF Accepted, SkipsPreflight, PreflightOK
  <2>3. status["good"] \notin Safe
    BY <1>1, <1>3, <2>1 DEF Unsent
  <2>4. Balance(Safe) = Funds - 0
    BY <1>2, <2>1, <2>3, ClientBalance
  <2>5. QED BY <2>2, <2>4, StatusTypes, Costs DEF Affordable
<1>6. TypeOK'
  <2>1. status' \in [Txs -> {"unsent", "sent"} \cup Landed]
    BY <1>1, <1>2 DEF TypeOK
  <2>2. shown' \in Seq(Landed)
    BY <1>2, EmptySeq
  <2>3. Budget \in Nat
    BY LifecycleAssumption
  <2>4. elapsed' \in 0 .. Budget
    <3>1. elapsed' = 0
      BY <1>2
    <3>2. QED BY <2>3, <3>1
  <2>5. QED BY <1>1, <1>2, <2>1, <2>2, <2>4 DEF TypeOK
<1>7. FundsSettled'
  BY <1>2, <1>4 DEF FundsSettled
<1>8. OneAfterTheOther'
  BY <1>1, <1>2, <1>3, <1>4, <1>5 DEF OneAfterTheOther, Unsent, Submitted
<1>9. ReadingsExplained' /\ ExactAfterFinality'
  <2>1. \A t \in sawFinal : status'[t] = "Finalized"
    BY <1>1, <1>2, <1>3 DEF ReadingsExplained, TypeOK, Unsent
  <2>2. ReadingsExplained'
    BY <1>1, <1>2, <1>4, <2>1 DEF ReadingsExplained
  <2>3. pc' = "watch" /\ sawFinal' = sawFinal /\ paid' = paid
    BY <1>2
  <2>4. ExactAfterFinality'
    BY <1>1, <2>3 DEF ExactAfterFinality
  <2>5. QED BY <2>2, <2>4
<1>10. PrintedLevelsLast' /\ ShownLevelsClimb'
  <2>1. Len(shown') = 0
    BY <1>2, EmptySeq
  <2>2. \A i \in 1 .. Len(shown') : FALSE
    BY <2>1
  <2>3. PrintedLevelsLast'
    BY <1>2, <2>2 DEF PrintedLevelsLast
  <2>4. ShownLevelsClimb'
    BY <2>2 DEF ShownLevelsClimb
  <2>5. QED BY <2>3, <2>4
<1>11. QED BY <1>6, <1>7, <1>8, <1>9, <1>10 DEF LifecycleInv

\* A poll that sees a level: it prints it unless it is the one printed last,
\* and what was printed before the last is lower.
LEMMA WatchPollStep ==
  ASSUME LifecycleInv, WatchPoll
  PROVE  LifecycleInv'
<1> DEFINE level == status[cur]
<1>1. /\ TypeOK /\ OneAfterTheOther /\ ReadingsExplained
      /\ PrintedLevelsLast /\ ShownLevelsClimb
  BY DEF LifecycleInv
<1>2. /\ pc = "watch" /\ elapsed < Budget /\ elapsed' = elapsed + 1
      /\ level \in Landed /\ last' = level
      /\ shown' = IF last # level THEN Append(shown, level) ELSE shown
      /\ UNCHANGED <<cluster, cur, before, after, paid>>
  BY DEF WatchPoll, WithinBudget, Printed
<1>3. \/ pc' = "watch" /\ sawFinal' = sawFinal
      \/ /\ pc' = "readAfter" /\ level = "Finalized"
         /\ sawFinal' = sawFinal \cup {cur}
  BY <1>2 DEF WatchPoll, StopsWatch
<1>4. TypeOK'
  <2>1. elapsed' \in 0 .. Budget
    <3>1. elapsed \in 0 .. Budget /\ Budget \in Nat
      BY <1>1, LifecycleAssumption DEF TypeOK
    <3>2. QED BY <1>2, <3>1
  <2>2. shown' \in Seq(Landed)
    <3>1. shown \in Seq(Landed)
      BY <1>1 DEF TypeOK
    <3>2. QED BY <1>2, <3>1, AppendProperties
  <2>3. QED BY <1>1, <1>2, <1>3, <2>1, <2>2 DEF TypeOK, cluster
<1>5. FundsSettled' /\ OneAfterTheOther' /\ ReadingsExplained' /\ ExactAfterFinality'
  <2>1. \A t \in sawFinal' : status[t] = "Finalized"
    BY <1>1, <1>3 DEF ReadingsExplained
  <2>2. QED BY <1>1, <1>2, <1>3, <2>1, MovesOn DEF ReadingsExplained, cluster
<1>6. /\ last # "" => Rank(last) <= Rank(level)
      /\ last \notin {"", level} => Rank(last) < Rank(level)
  <2>1. last \in {""} \cup Landed
    BY <1>1 DEF TypeOK
  <2>2. /\ last = "Confirmed" => level \in Safe
        /\ last = "Finalized" => level = "Finalized"
    BY <1>1, <1>2 DEF PrintedLevelsLast
  <2> HIDE DEF level
  <2>4. CASE last = "Confirmed"
    BY <2>2, <2>4, Ranks DEF Safe
  <2>5. CASE last = "Finalized"
    BY <2>2, <2>5, Ranks
  <2>6. CASE last = "Processed"
    BY <1>2, <2>6, Ranks DEF Landed
  <2>7. QED BY <2>1, <2>4, <2>5, <2>6 DEF Landed
<1> HIDE DEF level
<1>7. shown \in Seq(Landed) /\ Len(shown) \in Nat /\ level \in Landed
  <2>1. shown \in Seq(Landed)
    BY <1>1 DEF TypeOK
  <2>2. QED BY <1>2, <2>1, LenProperties
<1>8. \A i \in 1 .. Len(shown) : /\ shown[i] \in Landed /\ last # ""
                                 /\ Rank(shown[i]) <= Rank(last)
  BY <1>1, <1>7, ElementOfSeq DEF PrintedLevelsLast
<1>9. \A i, j \in 1 .. Len(shown) : i < j => Rank(shown[i]) < Rank(shown[j])
  BY <1>1 DEF ShownLevelsClimb
<1>10. /\ \A i \in 1 .. Len(shown') : last' # "" /\ Rank(shown'[i]) <= Rank(last')
       /\ \A i, j \in 1 .. Len(shown') : i < j => Rank(shown'[i]) < Rank(shown'[j])
  <2>1. CASE last = level
    BY <1>2, <1>8, <1>9, <2>1
  <2>2. CASE last # level
    <3>1. shown' = Append(shown, level) /\ last' = level /\ last' # ""
      BY <1>2, <2>2 DEF Landed
    <3>2. /\ Len(shown') = Len(shown) + 1 /\ shown'[Len(shown) + 1] = level
          /\ \A i \in 1 .. Len(shown) : shown'[i] = shown[i]
      BY <1>7, <3>1, AppendProperties
    <3>3. \A i \in 1 .. Len(shown) : Rank(shown[i]) < Rank(level)
      <4>1. SUFFICES ASSUME NEW i \in 1 .. Len(shown)
                     PROVE  Rank(shown[i]) < Rank(level)
        OBVIOUS
      <4>2. /\ shown[i] \in Landed /\ last # "" /\ last \in Landed
            /\ Rank(shown[i]) <= Rank(last)
        BY <1>1, <1>8 DEF TypeOK
      <4>3. Rank(shown[i]) \in Int /\ Rank(last) \in Int /\ Rank(level) \in Int
        BY <4>2, <1>7, RankTypes
      <4>4. Rank(last) < Rank(level)
        BY <1>6, <2>2, <4>2
      <4>5. Rank(shown[i]) <= Rank(last)
        BY <4>2
      <4>6. QED BY <4>3, <4>4, <4>5, BelowWhatIsBelow
    <3>4. \A i \in 1 .. Len(shown') : i \in 1 .. Len(shown) \/ i = Len(shown) + 1
      BY <1>7, <3>2
    <3>5. Rank(level) \in Int
      BY <1>7, RankTypes
    <3>6. ASSUME NEW i \in 1 .. Len(shown')
          PROVE  Rank(shown'[i]) <= Rank(level)
      <4>1. CASE i \in 1 .. Len(shown)
        <5>1. Rank(shown[i]) \in Int
          BY <1>8, <4>1, RankTypes
        <5>2. QED BY <3>2, <3>3, <3>5, <4>1, <5>1
      <4>2. CASE i = Len(shown) + 1
        BY <3>2, <3>5, <4>2
      <4>3. QED BY <3>4, <4>1, <4>2
    <3>7. ASSUME NEW i \in 1 .. Len(shown'), NEW j \in 1 .. Len(shown'), i < j
          PROVE  Rank(shown'[i]) < Rank(shown'[j])
      <4>1. i \in 1 .. Len(shown)
        BY <1>7, <3>2, <3>7
      <4>2. CASE j \in 1 .. Len(shown)
        BY <1>9, <3>2, <3>7, <4>1, <4>2
      <4>3. CASE j = Len(shown) + 1
        BY <3>2, <3>3, <4>1, <4>3
      <4>4. QED BY <3>4, <4>2, <4>3
    <3>8. QED BY <3>1, <3>6, <3>7
  <2>3. QED BY <2>1, <2>2
<1>11. PrintedLevelsLast'
  <2>1. pc' = "watch" => /\ last' = "Confirmed" => status'[cur'] \in Safe
                         /\ last' = "Finalized" => status'[cur'] = "Finalized"
    BY <1>2 DEF level, cluster, Safe
  <2>2. QED BY <1>10, <2>1 DEF PrintedLevelsLast
<1>12. ShownLevelsClimb'
  BY <1>10 DEF ShownLevelsClimb
<1>13. QED BY <1>4, <1>5, <1>11, <1>12 DEF LifecycleInv

\* The report: after the first transaction it needs the amount to be gone, and
\* with it the first transaction to be safe.
LEMMA ReportStep ==
  ASSUME LifecycleInv, Report \/ ReportPanics
  PROVE  LifecycleInv'
<1>1. /\ TypeOK /\ FundsSettled /\ OneAfterTheOther /\ ReadingsExplained
      /\ ExactAfterFinality
      /\ "good" \in Submitted /\ "bad" \in Submitted
      /\ cur \in Submitted /\ before \in Nat /\ after \in Nat
  BY DEF LifecycleInv, Submitted, TypeOK
<1>2. /\ pc = "report" /\ pc' \in {"build", "done", "panic"}
      /\ UNCHANGED <<cluster, before, after, last, shown, elapsed, sawFinal>>
  BY DEF Report, ReportPanics
<1>3. \/ after = before /\ cur \notin sawFinal
      \/ after = before - Cost(cur) /\ status[cur] \in Safe
  BY <1>1, <1>2 DEF ReadingsExplained
<1>4. PrintedLevelsLast' /\ ShownLevelsClimb'
  BY <1>2, PrintedKept
<1>5. CASE Report
  <2>1. /\ ~(before < after)
        /\ cur = "good" => ~(before - after < Message("good").amount)
        /\ paid' = [paid EXCEPT ![cur] = before - after]
        /\ cur = "good" => pc' = "build" /\ cur' = "bad"
        /\ cur # "good" => pc' = "done" /\ cur' = cur
    BY <1>5 DEF Report, ReportUnderflows
  <2>2. before - after \in Nat /\ (before - after = 0 \/ before - after = Cost(cur))
    <3>1. Cost(cur) \in Nat
      BY <1>1, Costs DEF Submitted
    <3>2. QED BY <1>1, <1>3, <2>1, <3>1
  <2>3. cur \in sawFinal => before - after = Cost(cur)
    <3>1. Cost(cur) \in Nat
      BY <1>1, Costs DEF Submitted
    <3>2. QED BY <1>1, <1>3, <3>1
  <2>4. /\ paid' \in [Submitted -> Nat \cup {-1}]
        /\ paid'[cur] = before - after
        /\ \A t \in Submitted \ {cur} : paid'[t] = paid[t]
    BY <1>1, <2>1, <2>2 DEF TypeOK
  <2>5. cur' = "bad" /\ cur' \in Submitted
    BY <1>1, <2>1 DEF Submitted
  <2>6. status["good"] \in Safe
    <3>1. CASE cur = "good"
      <4>1. before - after # 0
        BY <1>1, <2>1, <3>1, Costs
      <4>2. QED BY <1>1, <1>3, <3>1, <4>1
    <3>2. CASE cur = "bad"
      BY <1>1, <3>2 DEF OneAfterTheOther
    <3>3. QED BY <1>1, <3>1, <3>2 DEF Submitted
  <2>7. TypeOK'
    BY <1>1, <1>2, <2>4, <2>5 DEF TypeOK, cluster, Ended
  <2>8. FundsSettled'
    BY <1>1, <1>2 DEF FundsSettled, Unsent, cluster
  <2>9. OneAfterTheOther'
    <3>1. pc' \in {"build", "readBefore", "submit"} => cur = "good" /\ Unsent("bad")
      BY <1>1, <2>1 DEF OneAfterTheOther
    <3>2. UNCHANGED <<status, failed, keypair>>
      BY <1>2 DEF cluster
    <3>3. QED BY <1>1, <2>5, <2>6, <3>1, <3>2 DEF OneAfterTheOther, Unsent, Funds
  <2>10. ReadingsExplained'
    <3>1. \A t \in sawFinal' : status'[t] = "Finalized"
      BY <1>1, <1>2 DEF ReadingsExplained, cluster
    <3>2. paid'["bad"] # -1 => pc' = "done"
      BY <1>1, <1>2, <2>1, <2>4 DEF ReadingsExplained
    <3>3. pc' \notin {"submit", "watch", "readAfter", "report"}
      BY <1>2
    <3>4. QED BY <2>5, <3>1, <3>2, <3>3 DEF ReadingsExplained
  <2>11. ExactAfterFinality'
    <3>1. \A t \in sawFinal : paid'[t] # -1 =>
            paid'[t] = IF t = "good" THEN 100005010 ELSE 5000
      <4>1. SUFFICES ASSUME NEW t \in sawFinal, paid'[t] # -1
                     PROVE  paid'[t] = IF t = "good" THEN 100005010 ELSE 5000
        OBVIOUS
      <4>2. t \in Submitted
        BY <1>1 DEF TypeOK
      <4>3. CASE t = cur
        <5>1. paid'[t] = Cost(t)
          BY <2>3, <2>4, <4>3
        <5>2. QED BY <4>2, <5>1, CostValues DEF Submitted
      <4>4. CASE t # cur
        <5>1. paid'[t] = paid[t]
          BY <2>4, <4>2, <4>4
        <5>2. QED BY <1>1, <4>1, <5>1 DEF ExactAfterFinality
      <4>5. QED BY <4>3, <4>4
    <3>2. sawFinal' = sawFinal /\ pc' # "panic"
      BY <1>2, <2>1
    <3>3. QED BY <3>1, <3>2 DEF ExactAfterFinality
  <2>12. QED BY <1>4, <2>7, <2>8, <2>9, <2>10, <2>11 DEF LifecycleInv
<1>6. CASE ReportPanics
  <2>1. pc' = "panic" /\ ReportUnderflows /\ UNCHANGED <<status, failed, keypair, cur, paid>>
    BY <1>6 DEF ReportPanics, cluster
  <2>2. cur \notin sawFinal
    <3>1. SUFFICES ASSUME cur \in sawFinal PROVE FALSE
      OBVIOUS
    <3>2. after = before - Cost(cur)
      BY <1>3, <3>1
    <3>3. Cost(cur) \in Nat /\ (cur = "good" => Cost(cur) >= Message("good").amount)
      BY <1>1, Costs DEF Submitted
    <3>4. ~(before < after)
      BY <1>1, <3>2, <3>3
    <3>5. cur = "good" /\ before - after < Message("good").amount
      BY <2>1, <3>4 DEF ReportUnderflows
    <3>6. QED BY <1>1, <3>2, <3>3, <3>5, Costs
  <2>3. TypeOK'
    BY <1>1, <1>2, <2>1 DEF TypeOK, cluster, Ended
  <2>4. FundsSettled'
    BY <1>1, <1>2, <2>1 DEF FundsSettled, Unsent
  <2>5. OneAfterTheOther'
    BY <1>1, <2>1 DEF OneAfterTheOther, Unsent, Funds
  <2>6. ReadingsExplained'
    BY <1>1, <1>2, <2>1 DEF ReadingsExplained
  <2>7. ExactAfterFinality'
    BY <1>1, <1>2, <2>1, <2>2 DEF ExactAfterFinality
  <2>8. QED BY <1>4, <2>3, <2>4, <2>5, <2>6, <2>7 DEF LifecycleInv
<1>7. QED BY <1>5, <1>6

LEMMA StutterKeeps == LifecycleInv /\ UNCHANGED vars => LifecycleInv'
<1> SUFFICES ASSUME LifecycleInv, UNCHANGED vars PROVE LifecycleInv'
  OBVIOUS
<1>1. UNCHANGED <<status, hash, failed, keypair, pc, cur, before, after, last, shown,
                  elapsed, sawFinal, paid>>
  BY DEF vars, cluster, client
<1>2. TypeOK'
  BY <1>1 DEF LifecycleInv, TypeOK
<1>3. FundsSettled' /\ OneAfterTheOther'
  BY <1>1 DEF LifecycleInv, FundsSettled, OneAfterTheOther, Unsent, Funds
<1>4. ReadingsExplained' /\ ExactAfterFinality'
  BY <1>1 DEF LifecycleInv, ReadingsExplained, ExactAfterFinality, Funds
<1>5. PrintedLevelsLast' /\ ShownLevelsClimb'
  BY <1>1, PrintedKept
<1>6. QED BY <1>2, <1>3, <1>4, <1>5 DEF LifecycleInv

LEMMA InvStep == LifecycleInv /\ [Next]_vars => LifecycleInv'
<1> SUFFICES ASSUME LifecycleInv, [Next]_vars PROVE LifecycleInv'
  OBVIOUS
<1>1. CASE ClusterStep
  BY <1>1, ClusterStepInv
<1>2. CASE UseKeypair \/ RequestAirdrop \/ ConfirmAirdrop
  BY <1>2, FundingStep
<1>3. CASE \/ Build \/ ReadBefore \/ WatchGiveUp \/ ReadAfter \/ WatchPollNothing
           \/ PreflightRejects \/ RpcFails
  BY <1>3, ReadingStep
<1>4. CASE Submit
  BY <1>4, SubmitStep
<1>5. CASE WatchPoll
  BY <1>5, WatchPollStep
<1>6. CASE Report \/ ReportPanics
  BY <1>6, ReportStep
<1>7. CASE UNCHANGED vars
  BY <1>7, StutterKeeps
<1>8. QED BY <1>1, <1>2, <1>3, <1>4, <1>5, <1>6, <1>7 DEF Next, ClientStep

-----------------------------------------------------------------------------
(* The theorems. *)

\* Whatever the cluster processes, forks, confirms or forgets between two calls
\* of the client, the state stays explained: the funds, the order of the two
\* transactions, the two readings of the balance and the levels printed.
THEOREM LifecycleInvariant == Spec => []LifecycleInv
<1>1. QED BY InvInit, InvStep, PTL DEF Spec

\* The types of the client's variables and of the cluster's.
THEOREM TypeCorrect == Spec => []TypeOK
<1>1. LifecycleInv => TypeOK
  BY DEF LifecycleInv
<1>2. QED BY <1>1, LifecycleInvariant, PTL

\* What watch prints climbs strictly, also across an abandoned fork.
THEOREM LevelsClimb == Spec => []ShownLevelsClimb
<1>1. LifecycleInv => ShownLevelsClimb
  BY DEF LifecycleInv
<1>2. QED BY <1>1, LifecycleInvariant, PTL

\* A report that follows Finalized is exact and does not underflow.
THEOREM ReportsAreExact == Spec => []ExactAfterFinality
<1>1. LifecycleInv => ExactAfterFinality
  BY DEF LifecycleInv
<1>2. QED BY <1>1, LifecycleInvariant, PTL

\* Only the transaction sent without preflight is found failed in a block.
THEOREM PreflightSuffices == Spec => []PreflightKeepsFailuresOffChain
<1>1. LifecycleInv => PreflightKeepsFailuresOffChain
  <2>1. SUFFICES ASSUME LifecycleInv, NEW t \in failed, status[t] \in Landed
                 PROVE  SkipsPreflight(t)
    BY DEF PreflightKeepsFailuresOffChain
  <2>2. t \in {"good", "bad"}
    BY <2>1 DEF LifecycleInv, TypeOK, Submitted
  <2>3. t # "good"
    BY <2>1 DEF LifecycleInv, OneAfterTheOther
  <2>4. QED BY <2>2, <2>3 DEF SkipsPreflight
<1>2. QED BY <1>1, LifecycleInvariant, PTL

-----------------------------------------------------------------------------
(* The flags `dissect` decodes, for messages of any length. *)

\* A set of positions that holds every position below one it holds is the
\* set of the first Cardinality(S): a count marks the boundary.
LEMMA CountIsBoundary ==
  ASSUME NEW n \in Nat, NEW S \in SUBSET (0 .. n - 1), NEW i \in 0 .. n - 1,
         \A j, k \in 0 .. n - 1 : j <= k /\ k \in S => j \in S
  PROVE  /\ Cardinality(S) \in Nat
         /\ i \in S <=> i < Cardinality(S)
<1>1. IsFiniteSet(0 .. n - 1)
  BY FS_Interval
<1>2. IsFiniteSet(S) /\ Cardinality(S) \in Nat
  BY <1>1, FS_Subset, FS_CardinalityType
<1>3. ASSUME i \in S PROVE i < Cardinality(S)
  <2> DEFINE T == 0 .. i
  <2>1. T \in SUBSET S
    BY <1>3
  <2>2. Cardinality(T) = i + 1
    BY FS_Interval
  <2>3. Cardinality(T) <= Cardinality(S)
    <3> HIDE DEF T
    <3> QED BY <1>2, <2>1, FS_Subset
  <2>4. QED BY <1>2, <2>2, <2>3
<1>4. ASSUME i \notin S PROVE ~(i < Cardinality(S))
  <2> DEFINE T == 0 .. i - 1
  <2>1. S \in SUBSET T
    BY <1>4
  <2>2. IsFiniteSet(T) /\ Cardinality(T) = i
    BY FS_Interval
  <2>3. Cardinality(S) <= Cardinality(T)
    <3> HIDE DEF T
    <3> QED BY <2>1, <2>2, FS_Subset
  <2>4. QED BY <1>2, <2>2, <2>3
<1>5. QED BY <1>2, <1>3, <1>4

\* The counts of two disjoint kinds add up.
LEMMA CountsAdd ==
  ASSUME NEW n \in Nat, NEW rank \in Orders(n), NEW K, NEW L, K \cap L = {}
  PROVE  Count(n, rank, K) + Count(n, rank, L) = Count(n, rank, K \cup L)
<1> DEFINE Of(kinds) == {i \in 0 .. n - 1 : rank[i] \in kinds}
<1>1. IsFiniteSet(Of(K)) /\ IsFiniteSet(Of(L))
  <2>1. IsFiniteSet(0 .. n - 1)
    BY FS_Interval
  <2>2. Of(K) \in SUBSET (0 .. n - 1) /\ Of(L) \in SUBSET (0 .. n - 1)
    OBVIOUS
  <2>3. QED BY <2>1, <2>2, FS_Subset
<1>2. Of(K) \cap Of(L) = {} /\ Of(K) \cup Of(L) = Of(K \cup L)
  OBVIOUS
<1>3. Cardinality(Of(K) \cup Of(L))
        = Cardinality(Of(K)) + Cardinality(Of(L)) - Cardinality(Of(K) \cap Of(L))
  BY <1>1, FS_Union
<1>4. Cardinality(Of(K)) \in Nat /\ Cardinality(Of(L)) \in Nat
  BY <1>1, FS_CardinalityType
<1>5. Cardinality({}) = 0
  BY FS_EmptySet
<1>6. Cardinality(Of(K \cup L)) = Cardinality(Of(K)) + Cardinality(Of(L))
  <2>1. Cardinality(Of(K) \cap Of(L)) = 0
    BY <1>2, <1>5
  <2>2. Cardinality(Of(K) \cup Of(L)) = Cardinality(Of(K)) + Cardinality(Of(L))
    <3> HIDE DEF Of
    <3> QED BY <1>3, <1>4, <2>1
  <2>3. QED BY <1>2, <2>2
<1>7. QED BY <1>6 DEF Count

\* The kinds 0 .. k take the first positions of a message.
LEMMA KindsAreBoundary ==
  ASSUME NEW n \in Nat, NEW rank \in Orders(n), NEW K \in {{0}, {0, 1}, {0, 1, 2}},
         NEW i \in 0 .. n - 1
  PROVE  /\ Count(n, rank, K) \in Nat
         /\ rank[i] \in K <=> i < Count(n, rank, K)
<1> DEFINE S == {j \in 0 .. n - 1 : rank[j] \in K}
<1>1. rank \in [0 .. n - 1 -> 0 .. 3]
      /\ \A j, k \in 0 .. n - 1 : j <= k => rank[j] <= rank[k]
  BY DEF Orders
<1>2. \A j, k \in 0 .. n - 1 : j <= k /\ k \in S => j \in S
  <2>1. CASE K = {0}        BY <1>1, <2>1
  <2>2. CASE K = {0, 1}     BY <1>1, <2>2
  <2>3. CASE K = {0, 1, 2}  BY <1>1, <2>3
  <2>4. QED BY <2>1, <2>2, <2>3
<1>3. S \in SUBSET (0 .. n - 1)
  OBVIOUS
<1>4. Cardinality(S) \in Nat /\ (i \in S <=> i < Cardinality(S))
  <2> HIDE DEF S
  <2> QED BY <1>2, <1>3, CountIsBoundary
<1>5. QED BY <1>4 DEF Count

\* dissect decodes every message right, whatever its length and kinds.
THEOREM DissectDecodesFlags ==
  \A n \in Nat : \A rank \in Orders(n) : FlagsDecoded(n, rank)
<1> SUFFICES ASSUME NEW n \in Nat, NEW rank \in Orders(n), NEW i \in 0 .. n - 1
             PROVE  /\ IsSigner(Header(n, rank), i)      <=> rank[i] \in {0, 1}
                    /\ IsWritable(Header(n, rank), n, i) <=> rank[i] \in {0, 2}
  BY DEF FlagsDecoded
<1> DEFINE C(kinds) == Count(n, rank, kinds)
<1>1. /\ C({0}) \in Nat       /\ (rank[i] \in {0}       <=> i < C({0}))
      /\ C({0, 1}) \in Nat    /\ (rank[i] \in {0, 1}    <=> i < C({0, 1}))
      /\ C({0, 1, 2}) \in Nat /\ (rank[i] \in {0, 1, 2} <=> i < C({0, 1, 2}))
  BY KindsAreBoundary
<1>2. rank[i] \in 0 .. 3
  BY DEF Orders
<1>3. C({0}) + C({1}) = C({0, 1})
  <2>1. {0} \cup {1} = {0, 1} /\ {0} \cap {1} = {}
    OBVIOUS
  <2>2. QED BY <2>1, CountsAdd
<1>4. C({0, 1, 2}) + C({3}) = n
  <2>1. {0, 1, 2} \cup {3} = 0 .. 3 /\ {0, 1, 2} \cap {3} = {}
    OBVIOUS
  <2>2. C(0 .. 3) = n
    <3>1. {j \in 0 .. n - 1 : rank[j] \in 0 .. 3} = 0 .. n - 1
      BY DEF Orders
    <3>2. Cardinality(0 .. n - 1) = n
      BY FS_Interval
    <3>3. QED BY <3>1, <3>2 DEF Count
  <2>3. QED BY <2>1, <2>2, CountsAdd
<1>5. C({1}) \in Nat /\ C({3}) \in Nat
  <2>1. ASSUME NEW kinds PROVE C(kinds) \in Nat
    <3>1. IsFiniteSet(0 .. n - 1)
      BY FS_Interval
    <3>2. {j \in 0 .. n - 1 : rank[j] \in kinds} \in SUBSET (0 .. n - 1)
      OBVIOUS
    <3>3. IsFiniteSet({j \in 0 .. n - 1 : rank[j] \in kinds})
      BY <3>1, <3>2, FS_Subset
    <3>4. QED BY <3>3, FS_CardinalityType DEF Count
  <2>2. QED BY <2>1
<1>6. IsSigner(Header(n, rank), i) <=> i < C({0, 1})
  BY DEF IsSigner, Header
<1>7. IsWritable(Header(n, rank), n, i)
        <=> IF i < C({0, 1}) THEN i < C({0, 1}) - C({1}) ELSE i < n - C({3})
  BY DEF IsWritable, IsSigner, Header
<1> HIDE DEF C
<1>8. QED BY <1>1, <1>2, <1>3, <1>4, <1>5, <1>6, <1>7

=============================================================================
