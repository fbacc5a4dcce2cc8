------------------------ MODULE CounterClientProofs ------------------------
(***************************************************************************)
(* Theorems about CounterClient: what its main may believe of its two      *)
(* counters while others use the program, for any other users, amounts,    *)
(* addresses, rent schedule and limits.                                    *)
(***************************************************************************)
EXTENDS CounterClient, CounterProgramProofs

-----------------------------------------------------------------------------
(* The script. *)

LEMMA Steps ==
  /\ Len(Script) = 7
  /\ Script[1] = Fund(Alice)
  /\ Script[2] = Fund(Bob)
  /\ Script[3] = Send(Alice, <<IxInitialize(Alice)>>)
  /\ Script[4] = Send(Bob, <<IxInitialize(Bob)>>)
  /\ Script[5] = Send(Alice, <<IxIncrement(Alice, CounterPdaOf(Alice), 1),
                               IxIncrement(Alice, CounterPdaOf(Alice), 41)>>)
  /\ Script[6] = Send(Bob, <<IxIncrement(Bob, CounterPdaOf(Bob), 7)>>)
  /\ Script[7] = Simulate(Alice, IxIncrement(Alice, CounterPdaOf(Bob), BadBy))
BY DEF Script

LEMMA ScriptLength == Len(Script) = 7
BY Steps

\* What a step asks for, by its number.
LEMMA StepIs ==
  ASSUME NEW s \in 1 .. 7
  PROVE  /\ Script[s].op = IF s <= 2 THEN "fund"
                           ELSE IF s <= 6 THEN "send" ELSE "simulate"
         /\ Script[s].user = IF s \in {1, 3, 5, 7} THEN Alice ELSE Bob
         /\ s >= 3 => Len(Script[s].ixs) = IF s = 5 THEN 2 ELSE 1
<1>1. CASE s = 1
  BY <1>1, Steps DEF Fund
<1>2. CASE s = 2
  BY <1>2, Steps DEF Fund
<1>3. CASE s = 3
  BY <1>3, Steps DEF Send
<1>4. CASE s = 4
  BY <1>4, Steps DEF Send
<1>5. CASE s = 5
  BY <1>5, Steps DEF Send
<1>6. CASE s = 6
  BY <1>6, Steps DEF Send
<1>7. CASE s = 7
  BY <1>7, Steps DEF Simulate
<1>8. QED BY <1>1, <1>2, <1>3, <1>4, <1>5, <1>6, <1>7

\* The instructions, by step and position.
LEMMA InstructionIs ==
  /\ Script[3].ixs[1] = IxInitialize(Alice)
  /\ Script[4].ixs[1] = IxInitialize(Bob)
  /\ Script[5].ixs[1] = IxIncrement(Alice, FindProgramAddress(Alice), 1)
  /\ Script[5].ixs[2] = IxIncrement(Alice, FindProgramAddress(Alice), 41)
  /\ Script[6].ixs[1] = IxIncrement(Bob, FindProgramAddress(Bob), 7)
  /\ Script[7].ixs[1] = IxIncrement(Alice, FindProgramAddress(Bob), BadBy)
BY Steps DEF Send, Simulate, CounterPdaOf

-----------------------------------------------------------------------------
(* What the steps of a transaction signed by S do to keys and lamports: an  *)
(* account without an owner or data stays one, and nobody but S pays.       *)

Kept(old, new, S) ==
  /\ \A k \in Keys : old[k].owner = System /\ old[k].len = 0
                     => new[k].owner = System /\ new[k].len = 0
  /\ \A a \in Addresses : a \notin S => new[a].lamports >= old[a].lamports

\* All that matters to who did not sign.
Spared(old, new, S) ==
  \A a \in Addresses : a \notin S =>
    /\ new[a].lamports >= old[a].lamports
    /\ a \in Keys /\ old[a].owner = System /\ old[a].len = 0
         => new[a].owner = System /\ new[a].len = 0

LEMMA KeptSpared ==
  ASSUME NEW old, NEW new, NEW S, Kept(old, new, S)
  PROVE  Spared(old, new, S)
BY DEF Kept, Spared

LEMMA PurgedKept ==
  ASSUME NEW accts \in [Addresses -> Account]
  PROVE  /\ \A a \in Addresses : Purged(accts)[a].lamports = accts[a].lamports
         /\ \A S : Kept(accts, Purged(accts), S)
<1>1. ASSUME NEW a \in Addresses
      PROVE  /\ Purged(accts)[a].lamports = accts[a].lamports
             /\ accts[a].owner = System /\ accts[a].len = 0
                  => Purged(accts)[a].owner = System /\ Purged(accts)[a].len = 0
  BY DEF Purged, Absent
<1>2. \A a \in Addresses : accts[a].lamports \in Nat
  BY DEF Account
<1>3. \A k \in Keys : k \in Addresses
  BY DEF Addresses
<1> HIDE DEF Addresses
<1>4. QED BY <1>1, <1>2, <1>3 DEF Kept

LEMMA TransferredKept ==
  ASSUME NEW accts \in [Addresses -> Account], NEW S,
         NEW from \in Addresses, NEW to \in Addresses, from # to, from \in S,
         NEW n \in Nat
  PROVE  Kept(accts, Transferred(accts, from, to, n), S)
<1>1. ASSUME NEW a \in Addresses
      PROVE  /\ Transferred(accts, from, to, n)[a].owner = accts[a].owner
             /\ Transferred(accts, from, to, n)[a].len = accts[a].len
             /\ a # from => Transferred(accts, from, to, n)[a].lamports
                              >= accts[a].lamports
  <2>1. accts[a].lamports \in Nat
    BY DEF Account
  <2>2. CASE a = from
    BY <2>2 DEF Transferred, WithLamports
  <2>3. CASE a = to
    BY <2>1, <2>3 DEF Transferred, WithLamports
  <2>4. CASE a # from /\ a # to
    BY <2>1, <2>4 DEF Transferred
  <2>5. QED BY <2>2, <2>3, <2>4
<1>2. \A k \in Keys : k \in Addresses
  BY DEF Addresses
<1>3. QED BY <1>1, <1>2 DEF Kept

LEMMA InitializeKept ==
  ASSUME CounterInv, NEW user \in Keys,
         Initialize(user, FindProgramAddress(user), System)
  PROVE  Kept(working, working', tx.signers)
<1> DEFINE counter == FindProgramAddress(user)
           n == InitialLamports
<1>1. /\ user \in tx.signers /\ working[counter].lamports = 0
      /\ working' = AccountCreated(user, counter, n, COUNTER_LEN, Program,
                                   NewCounter(user))
  <2>1. /\ user \in tx.signers
        /\ CreateAccountError(user, counter, n) = "Ok"
    BY DEF Initialize, InitializeError, Unsigned, IsSigner
  <2>2. ~(working[counter].lamports > 0) /\ working[counter].lamports \in Nat
    <3>1. counter \in Addresses
      BY CanonicalAddress DEF Addresses
    <3>2. working[counter] \in Account
      BY <3>1 DEF CounterInv, TypeOK
    <3>3. QED BY <2>1, <3>2, DataTypes DEF CreateAccountError, InUse
  <2>3. QED BY <2>1, <2>2 DEF Initialize
<1>2. /\ counter \in Pdas /\ counter \notin Keys /\ user \in Addresses
      /\ counter \in Addresses /\ counter # user
  BY CanonicalAddress, KeysAssumption DEF Addresses
<1>3. working \in [Addresses -> Account] /\ n \in Nat
  BY ConstantTypes DEF CounterInv, TypeOK, InitialLamports
<1> HIDE DEF counter, n
<1>4. working'[counter].lamports = n
  BY <1>1, <1>2, <1>3 DEF AccountCreated
<1>5. /\ working'[user].owner = working[user].owner
      /\ working'[user].len = working[user].len
  BY <1>1, <1>2, <1>3 DEF AccountCreated, WithLamports
<1>6. \A a \in Addresses : a # user /\ a # counter => working'[a] = working[a]
  BY <1>1, <1>2, <1>3 DEF AccountCreated
<1>7. \A a \in Addresses : working[a].lamports \in Nat
  BY <1>3 DEF Account
<1>8. \A k \in Keys : k \in Addresses
  BY DEF Addresses
<1>9. QED BY <1>1, <1>2, <1>3, <1>4, <1>5, <1>6, <1>7, <1>8 DEF Kept

LEMMA IncrementKept ==
  ASSUME CounterInv, NEW user \in Addresses, NEW counter \in Addresses, NEW by,
         Increment(user, counter, by)
  PROVE  Kept(working, working', tx.signers)
<1>1. /\ working' = CountSetTo(counter, working[counter].data.count + by)
      /\ working \in [Addresses -> Account]
  BY DEF Increment, CounterInv, TypeOK
<1>2. ASSUME NEW a \in Addresses
      PROVE  /\ working'[a].owner = working[a].owner
             /\ working'[a].len = working[a].len
             /\ working'[a].lamports = working[a].lamports
  BY <1>1 DEF CountSetTo, WithData
<1>3. \A a \in Addresses : working[a].lamports \in Nat
  BY <1>1 DEF Account
<1>4. \A k \in Keys : k \in Addresses
  BY DEF Addresses
<1>5. QED BY <1>2, <1>3, <1>4 DEF Kept

-----------------------------------------------------------------------------
(* Transactions of others. *)

LEMMA ClientKeys ==
  ASSUME NEW u \in {Alice, Bob}
  PROVE  /\ u \in Keys /\ u \in Addresses
         /\ FindProgramAddress(u) \in Pdas
         /\ FindProgramAddress(u) \in Addresses
         /\ FindProgramAddress(u) \notin Keys
BY ClientAssumption, CanonicalAddress, KeysAssumption DEF Addresses

LEMMA Numbers ==
  /\ FeePerSignature \in Nat /\ Airdrop \in Nat
  /\ RentMin[COUNTER_LEN] \in Nat /\ MaxU64 \in Nat
  /\ Airdrop >= FeePerSignature + RentMin[COUNTER_LEN]
BY FundsAssumption, ClientAssumption, EnoughAssumption, ConstantTypes,
   LayoutAssumption

\* Nothing main knows is lost by a step that takes nothing from its keys and
\* moves none of its counters.
LEMMA Carried ==
  ASSUME NEW old \in [Addresses -> Account], NEW new \in [Addresses -> Account],
         NEW n, NEW S, Alice \notin S, Bob \notin S, S \subseteq Keys,
         AsScripted(old, n), Spared(old, new, S),
         \A u \in {Alice, Bob} : CountOf(new)[u] = CountOf(old)[u]
  PROVE  AsScripted(new, n)
<1> SUFFICES ASSUME NEW u \in {Alice, Bob}
    PROVE  /\ CountOf(new)[u] = CountAt(u, step, n)
           /\ new[u].owner = System /\ new[u].len = 0
           /\ (outcome = "running"
                 /\ (step = OpensAt(u) - 1 \/ (step = OpensAt(u) /\ n = 0)))
                => new[u].lamports + Charged(u) >= Airdrop
           /\ (outcome = "failed" /\ step = OpensAt(u))
                => new[FindProgramAddress(u)].lamports > 0
  BY DEF AsScripted
<1> DEFINE p == FindProgramAddress(u)
           waiting == outcome = "running"
                 /\ (step = OpensAt(u) - 1 \/ (step = OpensAt(u) /\ n = 0))
           stopped == outcome = "failed" /\ step = OpensAt(u)
<1>1. /\ CountOf(old)[u] = CountAt(u, step, n)
      /\ old[u].owner = System /\ old[u].len = 0
      /\ waiting => old[u].lamports + Charged(u) >= Airdrop
      /\ stopped => old[p].lamports > 0
  BY DEF AsScripted
<1>2. u \in Keys /\ u \in Addresses /\ u \notin S
      /\ p \in Addresses /\ p \notin S
  BY ClientKeys
<1> HIDE DEF p, waiting, stopped
<1>3. /\ new[u].owner = System /\ new[u].len = 0
      /\ new[u].lamports >= old[u].lamports
      /\ new[p].lamports >= old[p].lamports
  BY <1>1, <1>2 DEF Spared
<1>4. /\ new[u].lamports \in Nat /\ old[u].lamports \in Nat
      /\ new[p].lamports \in Nat /\ old[p].lamports \in Nat
  BY <1>2 DEF Account
<1>5. Charged(u) \in Nat
  BY Numbers DEF Charged
<1>6. QED BY <1>1, <1>3, <1>4, <1>5, Numbers DEF p, waiting, stopped

\* main stays where it is when others' transactions run and end.
LEMMA OthersStep ==
  ASSUME ClientInv, ~Mine, UNCHANGED clientVars, CounterInv',
         Alice \notin tx'.signers, Bob \notin tx'.signers,
         AsScripted(bank', 0), AsScripted(working', 0)
  PROVE  ClientInv'
<1>1. ~Mine' /\ Ran = 0 /\ Ran' = 0
  BY DEF Mine, Ran
<1>2. \A u \in {Alice, Bob} : Charged(u) = 0 /\ Charged(u)' = 0
  BY DEF Mine, Charged
<1>3. AsScripted(bank, 0)' /\ AsScripted(working, Ran)'
  BY <1>1, <1>2 DEF AsScripted, clientVars, CountOf, Live
<1>4. OwnTransaction'
  BY <1>1 DEF OwnTransaction
<1>5. QED BY <1>3, <1>4 DEF ClientInv, clientVars, Done

\* Whoever runs an instruction, no counter but a signer's own moves.
LEMMA OthersCounts ==
  ASSUME CounterInv, NEW user \in Addresses, NEW counter \in Addresses,
         \/ Initialize(user, counter, System)
         \/ \E by \in 0 .. MaxU64 : Increment(user, counter, by)
  PROVE  /\ user \in tx.signers /\ user \in Keys
         /\ bank' = bank /\ tx'.signers = tx.signers
         /\ \A u \in Keys : u # user => CountOf(working')[u] = CountOf(working)[u]
<1>1. CASE Initialize(user, counter, System)
  <2>1. Abs!Open(user) /\ user \in Keys
    BY <1>1, RefineInitialize
  <2>2. QED BY <1>1, <2>1 DEF Abs!Open, Initialize, CountOf, Live
<1>2. CASE \E by \in 0 .. MaxU64 : Increment(user, counter, by)
  <2>1. PICK by \in 0 .. MaxU64 : Increment(user, counter, by)
    BY <1>2
  <2>2. Abs!Add(user, by) /\ user \in Keys
    BY <2>1, RefineIncrement
  <2>3. QED BY <2>1, <2>2 DEF Abs!Add, Increment, CountOf, Live
<1>3. QED BY <1>1, <1>2

\* The fee, and nothing else.
LEMMA BeginKept ==
  ASSUME CounterInv, NEW S \in SUBSET Keys, NEW payer \in S,
         NEW mode \in {"send", "simulate"}, BeginTransaction(payer, S, mode)
  PROVE  /\ working = bank /\ tx.signers = {} /\ tx'.signers = S
         /\ tx'.mode = mode
         /\ Kept(bank, working', S) /\ Kept(bank, bank', S)
         /\ \A a \in Addresses : a # payer =>
              working'[a].lamports = bank[a].lamports
         /\ working'[payer].lamports
              = bank[payer].lamports - FeePerSignature * Cardinality(S)
         /\ bank' = IF mode = "send" THEN working' ELSE bank
         /\ CountOf(bank') = CountOf(bank) /\ CountOf(working') = CountOf(bank)
<1> DEFINE fee  == FeePerSignature * Cardinality(S)
           paid == [bank EXCEPT ![payer] = WithLamports(@, @.lamports - fee)]
<1>1. /\ fee \in Nat /\ payer \in Addresses
      /\ bank \in [Addresses -> Account]
  BY FeeType DEF CounterInv, TypeOK, Addresses
<1>2. /\ tx.status = "idle" /\ bank[payer].lamports >= fee
      /\ working' = Purged(paid)
      /\ bank' = IF mode = "send" THEN Purged(paid) ELSE bank
      /\ tx' = [status |-> "running", mode |-> mode, signers |-> S, ixs |-> 0]
  BY DEF BeginTransaction
<1> HIDE DEF fee
<1>3. working = bank /\ tx.signers = {}
  BY <1>2 DEF CounterInv, TypeOK, Idle
<1>4. Abs!Begin(S)
  BY RefineBegin
<1>5. CountOf(bank') = CountOf(bank) /\ CountOf(working') = CountOf(bank)
  BY <1>3, <1>4 DEF Abs!Begin, CountOf, Live
<1>6. paid \in [Addresses -> Account]
  BY <1>1, <1>2, Debit DEF StepOK, CounterInv
<1>7. /\ \A a \in Addresses : /\ paid[a].owner = bank[a].owner
                              /\ paid[a].len = bank[a].len
                              /\ a # payer => paid[a] = bank[a]
      /\ paid[payer].lamports = bank[payer].lamports - fee
  BY <1>1 DEF WithLamports
<1> HIDE DEF paid
<1>8. /\ \A a \in Addresses : working'[a].lamports = paid[a].lamports
      /\ Kept(paid, working', S)
  BY <1>2, <1>6, PurgedKept
<1>9. \A a \in Addresses : bank[a].lamports \in Nat
  BY <1>1 DEF Account
<1>10. \A k \in Keys : k \in Addresses
  BY DEF Addresses
<1>11. Kept(bank, working', S)
  BY <1>7, <1>8, <1>9, <1>10 DEF Kept
<1>12. Kept(bank, bank', S)
  <2>1. CASE mode = "send"
    BY <1>2, <1>11, <2>1
  <2>2. CASE mode # "send"
    BY <1>2, <1>9, <2>2 DEF Kept
  <2>3. QED BY <2>1, <2>2
<1>13. QED
  BY <1>1, <1>2, <1>3, <1>5, <1>7, <1>8, <1>11, <1>12 DEF fee

LEMMA CommitKept ==
  ASSUME CounterInv, CommitTransaction, NEW S
  PROVE  /\ bank' = working' /\ tx'.signers = {}
         /\ Kept(working, bank', S) /\ CountOf(bank') = CountOf(working)
<1>1. working \in [Addresses -> Account] /\ Shape(working)
  BY DEF CounterInv, TypeOK
<1>2. bank' = Purged(working) /\ working' = bank' /\ tx' = Idle
  BY DEF CommitTransaction
<1>3. Kept(working, Purged(working), S)
  BY <1>1, PurgedKept
<1>4. QED BY <1>1, <1>2, <1>3, PurgedCounts DEF Idle

LEMMA OthersBeginStep ==
  ASSUME ClientInv, OthersBegin
  PROVE  ClientInv'
<1>1. PICK S \in SUBSET Others, mode \in {"send", "simulate"} :
             \E payer \in S : BeginTransaction(payer, S, mode)
  BY DEF OthersBegin
<1>2. PICK payer \in S : BeginTransaction(payer, S, mode)
  BY <1>1
<1>3. S \in SUBSET Keys /\ Alice \notin S /\ Bob \notin S
  BY DEF Others
<1>4. CounterInv /\ CounterInv'
  BY <1>2, <1>3, BeginStep DEF ClientInv
<1>5. /\ tx.signers = {} /\ tx'.signers = S
      /\ Kept(bank, working', S) /\ Kept(bank, bank', S)
      /\ CountOf(bank') = CountOf(bank) /\ CountOf(working') = CountOf(bank)
  BY <1>2, <1>3, <1>4, BeginKept
<1>6. /\ bank \in [Addresses -> Account] /\ bank' \in [Addresses -> Account]
      /\ working' \in [Addresses -> Account]
  BY <1>4 DEF CounterInv, TypeOK
<1>7. ~Mine /\ AsScripted(bank, 0)
  BY <1>5 DEF Mine, ClientInv
<1>8. AsScripted(bank', 0)
  BY <1>3, <1>5, <1>6, <1>7, KeptSpared, Carried
<1>9. AsScripted(working', 0)
  BY <1>3, <1>5, <1>6, <1>7, KeptSpared, Carried
<1>10. QED
  BY <1>3, <1>4, <1>5, <1>7, <1>8, <1>9, OthersStep DEF OthersBegin

\* An instruction of others.
LEMMA OthersInstruction ==
  ASSUME ClientInv, ~Mine, UNCHANGED clientVars, CounterInv', bank' = bank,
         tx'.signers = tx.signers, Spared(working, working', tx.signers),
         \A u \in {Alice, Bob} : CountOf(working')[u] = CountOf(working)[u]
  PROVE  ClientInv'
<1>1. Alice \notin tx.signers /\ Bob \notin tx.signers /\ Ran = 0
  BY DEF Mine, Ran
<1>2. /\ working \in [Addresses -> Account]
      /\ working' \in [Addresses -> Account] /\ tx.signers \subseteq Keys
  BY DEF ClientInv, CounterInv, TypeOK, TxRecord
<1>3. AsScripted(bank', 0) /\ AsScripted(working, 0)
  BY <1>1 DEF ClientInv
<1>4. AsScripted(working', 0)
  BY <1>1, <1>2, <1>3, Carried
<1>5. QED BY <1>1, <1>3, <1>4, OthersStep

\* An account created at a signer's key and paid for by another signer.
LEMMA TwoKeysSpared ==
  ASSUME CounterInv, NEW from \in Keys, NEW to \in Keys, NEW n \in Nat, NEW r,
         from \in tx.signers, to \in tx.signers,
         working' = [working EXCEPT ![from] = WithLamports(@, @.lamports - n), ![to] = r]
  PROVE  /\ Spared(working, working', tx.signers)
         /\ CountOf(working') = CountOf(working)
<1>1. working \in [Addresses -> Account] /\ from \in Addresses /\ to \in Addresses
  BY DEF CounterInv, TypeOK, Addresses
<1>2. ASSUME NEW a \in Addresses, a # from, a # to
      PROVE  working'[a] = working[a]
  BY <1>1, <1>2
<1>3. \A a \in Addresses : working[a].lamports \in Nat
  BY <1>1 DEF Account
<1>4. Spared(working, working', tx.signers)
  <2>1. \A a \in Addresses : a \notin tx.signers =>
          /\ working'[a].lamports = working[a].lamports
          /\ working'[a].owner = working[a].owner
          /\ working'[a].len = working[a].len
    BY <1>2
  <2>2. ASSUME NEW a \in Addresses, a \notin tx.signers
        PROVE  /\ working'[a].lamports >= working[a].lamports
               /\ working[a].owner = System /\ working[a].len = 0
                    => working'[a].owner = System /\ working'[a].len = 0
    <3>1. /\ working'[a].lamports = working[a].lamports
          /\ working'[a].owner = working[a].owner
          /\ working'[a].len = working[a].len
      BY <2>1, <2>2
    <3>2. working[a].lamports >= working[a].lamports
      BY <1>3
    <3>3. QED BY <3>1, <3>2
  <2>3. QED BY <2>2 DEF Spared
<1>5. \A p \in Pdas : p \in Addresses /\ p # from /\ p # to
  BY KeysAssumption DEF Addresses
<1>6. CountOf(working') = CountOf(working)
  BY <1>2, <1>5, SameCounts DEF Live
<1>7. QED BY <1>4, <1>6

LEMMA OthersRunStep ==
  ASSUME ClientInv, OthersRun
  PROVE  ClientInv'
<1>1. /\ CounterInv /\ ~Mine /\ UNCHANGED clientVars /\ Ran = 0
      /\ Alice \notin tx.signers /\ Bob \notin tx.signers
      /\ tx.status = "running" /\ tx.signers \subseteq Keys
      /\ working \in [Addresses -> Account]
      /\ AsScripted(bank, 0) /\ AsScripted(working, 0)
  BY DEF OthersRun, ClientInv, CounterInv, TypeOK, TxRecord, Mine, Ran
<1>2. CASE \E from \in Others, to \in Addresses, n \in Amounts :
             SystemTransfer(from, to, n)
  <2>1. PICK from \in Others, to \in Addresses, n \in Amounts :
               SystemTransfer(from, to, n)
    BY <1>2
  <2>2. from \in Keys /\ n \in Nat /\ from \in Addresses
    BY FundsAssumption DEF Others, Addresses
  <2>3. CounterInv'
    BY <1>1, <2>1, <2>2, SystemTransferStep
  <2>4. /\ from # to /\ from \in tx.signers
        /\ working' = Transferred(working, from, to, n)
        /\ bank' = bank /\ tx'.signers = tx.signers
    BY <1>1, <2>1 DEF SystemTransfer, CanTransfer, IsSigner, InstructionDone,
                      CounterInv, TypeOK, TxRecord
  <2>5. Kept(working, working', tx.signers)
    BY <1>1, <2>2, <2>4, TransferredKept
  <2>6. CountOf(working') = CountOf(working)
    BY <1>1, <2>2, <2>4, TransferredCounts
  <2>7. QED BY <1>1, <2>3, <2>4, <2>5, <2>6, KeptSpared, OthersInstruction
<1>3. CASE \E user, counter \in Addresses : Initialize(user, counter, System)
  <2>1. PICK user \in Addresses, counter \in Addresses :
               Initialize(user, counter, System)
    BY <1>3
  <2>2. CounterInv'
    BY <1>1, <2>1, InitializeStep
  <2>3. /\ user \in tx.signers /\ user \in Keys
        /\ bank' = bank /\ tx'.signers = tx.signers
        /\ \A u \in Keys : u # user =>
             CountOf(working')[u] = CountOf(working)[u]
    BY <1>1, <2>1, OthersCounts
  <2>4. Initialize(user, FindProgramAddress(user), System)
    <3>1. counter = FindProgramAddress(user)
      BY <2>1 DEF Initialize, InitializeError
    <3>2. QED BY <2>1, <3>1
  <2>5. Kept(working, working', tx.signers)
    BY <1>1, <2>3, <2>4, InitializeKept
  <2>6. QED BY <1>1, <2>2, <2>3, <2>5, ClientKeys, KeptSpared, OthersInstruction
<1>4. CASE \E user, counter \in Addresses, by \in OthersBy :
             Increment(user, counter, by)
  <2>1. PICK user \in Addresses, counter \in Addresses, by \in OthersBy :
               Increment(user, counter, by)
    BY <1>4
  <2>2. by \in 0 .. MaxU64
    BY ClientAssumption
  <2>3. CounterInv'
    BY <1>1, <2>1, <2>2, IncrementStep
  <2>4. /\ user \in tx.signers
        /\ bank' = bank /\ tx'.signers = tx.signers
        /\ \A u \in Keys : u # user =>
             CountOf(working')[u] = CountOf(working)[u]
    BY <1>1, <2>1, <2>2, OthersCounts
  <2>5. Kept(working, working', tx.signers)
    BY <1>1, <2>1, IncrementKept
  <2>6. QED BY <1>1, <2>3, <2>4, <2>5, ClientKeys, KeptSpared, OthersInstruction
<1>5. CASE CommitTransaction
  <2>1. CounterInv'
    BY <1>1, <1>5, CommitStep
  <2>2. /\ bank' = working' /\ tx'.signers = {}
        /\ Kept(working, bank', tx.signers) /\ CountOf(bank') = CountOf(working)
    BY <1>1, <1>5, CommitKept
  <2>3. bank' \in [Addresses -> Account]
    BY <2>1 DEF CounterInv, TypeOK
  <2>4. AsScripted(bank', 0)
    BY <1>1, <2>2, <2>3, KeptSpared, Carried
  <2>5. QED BY <1>1, <2>1, <2>2, <2>4, OthersStep
<1>6. CASE RentViolation \/ OtherFailure \/ EndSimulation
  <2>1. RollBack
    BY <1>6 DEF RentViolation, OtherFailure, EndSimulation
  <2>2. CounterInv'
    BY <1>1, <2>1, RollBackStep
  <2>3. bank' = bank /\ working' = bank /\ tx'.signers = {}
    BY <2>1 DEF RollBack, Idle
  <2>4. QED BY <1>1, <2>2, <2>3, OthersStep
<1>7. CASE \E from, to \in Others, n \in Amounts, space \in Lens, owner \in Owners :
             SystemCreateAccount(from, to, n, space, owner)
  <2>1. PICK from \in Others, to \in Others, n \in Amounts, space \in Lens,
             owner \in Owners : SystemCreateAccount(from, to, n, space, owner)
    BY <1>7
  <2> DEFINE r == [lamports |-> n, owner |-> owner, len |-> space, data |-> ZeroData]
  <2>2. from \in Keys /\ to \in Keys /\ n \in Nat
    BY FundsAssumption DEF Others
  <2>3. CounterInv'
    BY <1>1, <2>1, <2>2, SystemCreateAccountStep
  <2>4. /\ from \in tx.signers /\ to \in tx.signers
        /\ working' = [working EXCEPT ![from] = WithLamports(@, @.lamports - n), ![to] = r]
        /\ bank' = bank /\ tx'.signers = tx.signers
    BY <1>1, <2>1 DEF SystemCreateAccount, CreateAccountError, CanTransfer, IsSigner,
                      AccountCreated, InstructionDone, CounterInv, TypeOK, TxRecord
  <2> HIDE DEF r
  <2>5. QED BY <1>1, <2>2, <2>3, <2>4, TwoKeysSpared, ClientKeys, OthersInstruction
<1>8. CASE \E a \in Others, d \in ForeignData : ForeignWrite(a, d)
  <2>1. PICK a \in Others, d \in ForeignData : ForeignWrite(a, d)
    BY <1>8
  <2>2. a \in Keys /\ a \in Addresses
    BY DEF Others, Addresses
  <2>3. CounterInv'
    BY <1>1, <2>1, <2>2, ForeignWriteStep
  <2>4. /\ working' = [working EXCEPT ![a] = WithData(working[a], d)]
        /\ working[a].owner = Other
        /\ bank' = bank /\ tx'.signers = tx.signers
    BY <1>1, <2>1 DEF ForeignWrite, InstructionDone, CounterInv, TypeOK, TxRecord
  <2>5. CountOf(working') = CountOf(working)
    BY <1>1, <2>2, <2>4, PutKeyCounts
  <2>6. Spared(working, working', tx.signers)
    <3>1. \A c \in Addresses : working[c].lamports \in Nat
      BY <1>1 DEF Account
    <3>2. \A c \in Addresses : /\ working'[c].lamports = working[c].lamports
                              /\ working'[c].owner = working[c].owner
                              /\ working'[c].len = working[c].len
      BY <1>1, <2>4 DEF WithData
    <3>3. QED BY <3>1, <3>2 DEF Spared
  <2>7. QED BY <1>1, <2>3, <2>4, <2>5, <2>6, OthersInstruction
<1>9. QED BY <1>2, <1>3, <1>4, <1>5, <1>6, <1>7, <1>8 DEF OthersRun

-----------------------------------------------------------------------------
(* The client's own steps. *)

\* The counts expected, from step to step.
LEMMA CountSteps ==
  ASSUME NEW u \in {Alice, Bob}, NEW s \in 1 .. 7
  PROVE  /\ s < 3 => CountAt(u, s + 1, 0) = CountAt(u, s, 0)
         /\ s >= 3 /\ s < 7 => CountAt(u, s + 1, 0)
                               = CountAt(u, s, Len(Script[s].ixs))
         /\ s = 7 => CountAt(u, 8, 0) = CountAt(u, 7, 0)
         /\ \A n \in Nat :
              u # Script[s].user => CountAt(u, s, n) = CountAt(u, s, 0)
<1>1. Alice # Bob
  BY ClientAssumption
<1> DEFINE user == Script[s].user
           len  == Len(Script[s].ixs)
<1>2. /\ user = IF s \in {1, 3, 5, 7} THEN Alice ELSE Bob
      /\ s >= 3 => len = IF s = 5 THEN 2 ELSE 1
  BY StepIs
<1> HIDE DEF user, len
<1>3. ASSUME u = Alice
      PROVE  /\ s < 3 => CountAt(u, s + 1, 0) = CountAt(u, s, 0)
             /\ s >= 3 /\ s < 7 => CountAt(u, s + 1, 0) = CountAt(u, s, len)
             /\ s = 7 => CountAt(u, 8, 0) = CountAt(u, 7, 0)
             /\ \A n \in Nat : u # user => CountAt(u, s, n) = CountAt(u, s, 0)
  BY <1>1, <1>2, <1>3 DEF CountAt
<1>4. ASSUME u = Bob
      PROVE  /\ s < 3 => CountAt(u, s + 1, 0) = CountAt(u, s, 0)
             /\ s >= 3 /\ s < 7 => CountAt(u, s + 1, 0) = CountAt(u, s, len)
             /\ s = 7 => CountAt(u, 8, 0) = CountAt(u, 7, 0)
             /\ \A n \in Nat : u # user => CountAt(u, s, n) = CountAt(u, s, 0)
  BY <1>1, <1>2, <1>4 DEF CountAt
<1>5. QED BY <1>3, <1>4 DEF user, len

LEMMA StepType ==
  ASSUME ClientInv
  PROVE  /\ step \in 1 .. 8
         /\ Busy => step \in 1 .. 7
         /\ Busy /\ Current.op # "fund" => step \in 3 .. 7
         /\ Mine => Busy /\ step \in 3 .. 7 /\ Current.user \in {Alice, Bob}
         /\ Mine /\ Current.op = "send" => step \in 3 .. 6
         /\ Mine /\ Current.op = "simulate" => step = 7 /\ next = 1
<1>1. step \in 1 .. 8 /\ next \in 1 .. 3
  <2>1. step \in 1 .. Len(Script) + 1 /\ next \in 1 .. 3
    BY DEF ClientInv
  <2>2. QED BY <2>1, ScriptLength
<1>2. Busy => step \in 1 .. 7
  BY <1>1, ScriptLength DEF Busy, Done
<1>3. Busy => /\ Current.op = IF step <= 2 THEN "fund"
                              ELSE IF step <= 6 THEN "send" ELSE "simulate"
              /\ Current.user = IF step \in {1, 3, 5, 7} THEN Alice ELSE Bob
  BY <1>2, StepIs DEF Current
<1>4. Mine => /\ Busy /\ Current.op # "fund"
              /\ next <= (IF Current.op = "send" THEN Len(Current.ixs) ELSE 0) + 1
  BY DEF ClientInv, OwnTransaction
<1>5. QED BY <1>1, <1>2, <1>3, <1>4

LEMMA AirdroppedStep ==
  ASSUME ClientInv, Airdropped
  PROVE  ClientInv'
<1> DEFINE u == Current.user
<1>1. /\ CounterInv /\ outcome = "running" /\ tx = Idle /\ tx' = Idle
      /\ working = bank /\ working' = bank'
      /\ bank' = [bank EXCEPT ![u] = WithLamports(@, @.lamports + Airdrop)]
      /\ step' = step + 1 /\ UNCHANGED <<next, outcome, simErr>>
      /\ bank \in [Addresses -> Account] /\ Shape(bank)
  BY DEF Airdropped, Busy, ClientInv, CounterInv, TypeOK
<1>2. step \in 1 .. 2 /\ u = IF step = 1 THEN Alice ELSE Bob
  <2>1. step \in 1 .. 7
    BY StepType DEF Airdropped
  <2>2. QED BY <2>1, StepIs DEF Airdropped, Current
<1>3. u \in Keys /\ u \in Addresses
  BY <1>2, ClientKeys
<1> HIDE DEF u
<1>4. StepOK(bank, bank', {})
  BY <1>1, <1>3, Credit, Numbers
<1>5. CounterInv'
  BY <1>1, <1>4, IdleStep DEF StepOK
<1>6. CountOf(bank') = CountOf(bank)
  BY <1>1, <1>3, PutKeyCounts
<1>7. ~Mine /\ ~Mine' /\ Ran = 0 /\ Ran' = 0
      /\ \A v : Charged(v) = 0 /\ Charged(v)' = 0
  BY <1>1 DEF Mine, Ran, Idle, Charged
<1>8. ASSUME NEW v \in {Alice, Bob}
      PROVE  /\ CountOf(bank')[v] = CountAt(v, step', 0)
             /\ bank'[v].owner = System /\ bank'[v].len = 0
             /\ step' = OpensAt(v) - 1 \/ step' = OpensAt(v)
                  => bank'[v].lamports >= Airdrop
  <2>1. /\ CountOf(bank)[v] = CountAt(v, step, 0)
        /\ bank[v].owner = System /\ bank[v].len = 0
        /\ step = OpensAt(v) - 1 => bank[v].lamports + 0 >= Airdrop
    BY <1>1, <1>7 DEF ClientInv, AsScripted
  <2>2. CountAt(v, step', 0) = CountAt(v, step, 0)
    BY <1>1, <1>2, CountSteps
  <2>3. /\ bank'[v].owner = bank[v].owner /\ bank'[v].len = bank[v].len
        /\ bank'[v].lamports = IF v = u THEN bank[v].lamports + Airdrop
                                        ELSE bank[v].lamports
    BY <1>1, <1>3, ClientKeys DEF WithLamports
  <2>4. bank[v].lamports \in Nat
    BY <1>1, ClientKeys, DataTypes
  <2>5. step' = OpensAt(v) - 1 \/ step' = OpensAt(v)
          => v = u \/ step = OpensAt(v) - 1
    BY <1>1, <1>2, ClientAssumption DEF OpensAt
  <2>6. QED BY <1>6, <2>1, <2>2, <2>3, <2>4, <2>5, Numbers
<1>9. AsScripted(bank, 0)' /\ AsScripted(working, Ran)'
  <2>1. \A v \in {Alice, Bob} : bank'[v].lamports \in Nat
    BY <1>5, ClientKeys, DataTypes DEF CounterInv, TypeOK
  <2>2. QED BY <1>1, <1>7, <1>8, <2>1 DEF AsScripted, CountOf, Live
<1>10. OwnTransaction'
  BY <1>7 DEF OwnTransaction
<1>11. step' \in 1 .. Len(Script) + 1 /\ ~Done'
  BY <1>1, <1>2, ScriptLength DEF Done
<1>12. QED BY <1>1, <1>5, <1>9, <1>10, <1>11 DEF ClientInv

LEMMA StartStep ==
  ASSUME ClientInv, Start
  PROVE  ClientInv'
<1> DEFINE u    == Current.user
           mode == Current.op
<1>1. /\ CounterInv /\ Busy /\ outcome = "running"
      /\ BeginTransaction(u, {u}, mode)
      /\ next' = 1 /\ UNCHANGED <<step, outcome, simErr>>
      /\ AsScripted(bank, 0)
  BY DEF Start, Busy, ClientInv
<1>2. /\ step \in 3 .. 7 /\ u \in {Alice, Bob}
      /\ mode \in {"send", "simulate"} /\ mode # "fund"
  <2>1. step \in 3 .. 7
    BY StepType DEF Start
  <2>2. QED BY <2>1, StepIs DEF Current
<1>3. u \in Keys /\ u \in Addresses /\ {u} \in SUBSET Keys
  BY <1>2, ClientKeys
<1>4. u = Script[step].user /\ mode = Script[step].op
      /\ Current' = Current
  BY <1>1 DEF Current
<1> HIDE DEF u, mode
<1>5. CounterInv'
  BY <1>1, <1>2, <1>3, BeginStep
<1>6. /\ working = bank /\ tx.signers = {} /\ tx'.signers = {u}
      /\ tx'.mode = mode
      /\ Kept(bank, working', {u}) /\ Kept(bank, bank', {u})
      /\ \A a \in Addresses : a # u => working'[a].lamports = bank[a].lamports
      /\ working'[u].lamports
           = bank[u].lamports - FeePerSignature * Cardinality({u})
      /\ bank' = IF mode = "send" THEN working' ELSE bank
      /\ CountOf(bank') = CountOf(bank) /\ CountOf(working') = CountOf(bank)
  BY <1>1, <1>2, <1>3, BeginKept
<1>7. working'[u].lamports + FeePerSignature = bank[u].lamports
  <2>1. Cardinality({u}) = 1
    BY FS_Singleton
  <2>2. bank[u].lamports \in Nat
    BY <1>1, <1>3, DataTypes DEF CounterInv, TypeOK
  <2>3. QED BY <1>6, <2>1, <2>2, Numbers
<1>8. Mine' /\ Ran' = 0
  <2>1. Mine'
    BY <1>2, <1>6 DEF Mine
  <2>2. QED BY <1>1, <2>1 DEF Ran
<1>9. ASSUME NEW new \in {bank', working'}, NEW v \in {Alice, Bob}
      PROVE  /\ CountOf(new)[v] = CountAt(v, step, 0)
             /\ new[v].owner = System /\ new[v].len = 0
             /\ step = OpensAt(v) - 1 \/ step = OpensAt(v)
                  => new[v].lamports + Charged(v)' >= Airdrop
  <2>1. /\ CountOf(bank)[v] = CountAt(v, step, 0)
        /\ bank[v].owner = System /\ bank[v].len = 0
        /\ step = OpensAt(v) - 1 \/ step = OpensAt(v)
             => bank[v].lamports + Charged(v) >= Airdrop
    BY <1>1 DEF AsScripted
  <2>2. /\ Charged(v) = 0
        /\ Charged(v)' = IF v = u THEN FeePerSignature ELSE 0
    BY <1>6 DEF Charged
  <2>3. v \in Keys /\ v \in Addresses /\ bank[v].lamports \in Nat
    BY <1>1, ClientKeys, DataTypes DEF CounterInv, TypeOK
  <2>4. new = bank \/ new = working'
    BY <1>6
  <2>5. new[v].owner = System /\ new[v].len = 0
    BY <1>6, <2>1, <2>3, <2>4 DEF Kept
  <2>6. new[v].lamports + Charged(v)' >= bank[v].lamports
    BY <1>6, <1>7, <2>2, <2>3, <2>4, Numbers
  <2>7. new[v].lamports \in Nat /\ Charged(v)' \in Nat
    <3>1. new[v] \in Account
      BY <1>1, <1>5, <2>3, <2>4 DEF CounterInv, TypeOK
    <3>2. QED BY <2>2, <3>1, Numbers DEF Account
  <2>8. QED BY <1>6, <2>1, <2>2, <2>3, <2>5, <2>6, <2>7, Numbers
<1>10. AsScripted(bank, 0)' /\ AsScripted(working, Ran)'
  BY <1>1, <1>8, <1>9 DEF AsScripted, CountOf, Live
<1>11. OwnTransaction'
  <2>1. Busy'
    BY <1>1 DEF Busy, Done
  <2>2. \A p \in Pdas : working'[p].lamports = bank'[p].lamports
    BY <1>3, <1>6, KeysAssumption DEF Addresses
  <2>3. 1 <= (IF mode = "send" THEN Len(Current.ixs) ELSE 0) + 1
    <3>1. mode = "send" => Len(Current.ixs) \in Nat
      BY <1>2, StepIs DEF Current
    <3>2. QED BY <3>1
  <2>4. QED BY <1>1, <1>2, <1>4, <1>6, <2>1, <2>2, <2>3
            DEF OwnTransaction, u, mode
<1>12. QED BY <1>1, <1>5, <1>10, <1>11 DEF ClientInv, Done

\* An instruction of the client's that succeeds is what its script counts on.
LEMMA OwnInstruction ==
  ASSUME ClientInv, Mine, Current.op = "send", next <= Len(Current.ixs),
         next' = next + 1, UNCHANGED <<step, outcome, simErr>>, CounterInv',
         bank' = bank, tx'.signers = tx.signers, tx'.mode = tx.mode,
         Kept(working, working', tx.signers),
         \A v \in {Alice, Bob} : CountOf(working')[v] = CountAt(v, step, next)
  PROVE  ClientInv'
<1>1. /\ CounterInv /\ Busy /\ outcome = "running" /\ step \in 3 .. 6
      /\ next \in 1 .. 3 /\ tx.signers = {Current.user}
      /\ tx.mode = Current.op
      /\ AsScripted(bank, 0) /\ AsScripted(working, next - 1)
  BY StepType DEF ClientInv, Busy, OwnTransaction, Ran
<1>2. /\ Len(Current.ixs) \in 1 .. 2 /\ Current.user = Script[step].user
      /\ Current.user = (IF step \in {1, 3, 5, 7} THEN Alice ELSE Bob)
      /\ Current' = Current
  BY <1>1, StepIs DEF Current
<1>3. Mine' /\ Ran' = next /\ next' # 1 /\ next' \in 1 .. 3
  BY <1>1, <1>2 DEF Mine, Ran
<1>4. \A v : Charged(v)' = Charged(v)
  BY DEF Charged
<1>5. ASSUME NEW v \in {Alice, Bob}
      PROVE  /\ working'[v].owner = System /\ working'[v].len = 0
             /\ step = OpensAt(v) - 1
                  => working'[v].lamports + Charged(v) >= Airdrop
  <2>1. /\ working[v].owner = System /\ working[v].len = 0
        /\ step = OpensAt(v) - 1
             => working[v].lamports + Charged(v) >= Airdrop
    BY <1>1 DEF AsScripted
  <2>2. v \in Keys /\ v \in Addresses
    BY ClientKeys
  <2>3. /\ working[v].lamports \in Nat /\ working'[v].lamports \in Nat
        /\ Charged(v) \in Nat
    BY <1>1, <2>2, DataTypes, Numbers DEF CounterInv, TypeOK, Charged
  <2>4. step = OpensAt(v) - 1 => v \notin tx.signers
    BY <1>1, <1>2, ClientAssumption DEF OpensAt
  <2>5. QED BY <2>1, <2>2, <2>3, <2>4, Numbers DEF Kept
<1>6. AsScripted(bank, 0)'
  BY <1>1, <1>4 DEF AsScripted, CountOf, Live
<1>7. AsScripted(working, Ran)'
  BY <1>1, <1>3, <1>4, <1>5 DEF AsScripted, CountOf, Live
<1>8. OwnTransaction'
  <2>1. Busy'
    BY <1>1 DEF Busy, Done
  <2>2. /\ Current.op # "fund" /\ tx'.signers = {Current.user}
        /\ tx'.mode = Current.op
    BY <1>1
  <2>3. next' <= (IF Current.op = "send" THEN Len(Current.ixs) ELSE 0) + 1
    BY <1>1, <1>2
  <2>4. QED BY <1>2, <1>3, <2>1, <2>2, <2>3 DEF OwnTransaction
<1>9. QED BY <1>1, <1>3, <1>6, <1>7, <1>8 DEF ClientInv, Done

LEMMA OwnInitialize ==
  ASSUME ClientInv, Mine, Current.op = "send", next <= Len(Current.ixs),
         NEW u \in {Alice, Bob}, u = Current.user,
         Initialize(u, FindProgramAddress(u), System),
         CountAt(u, step, next) = 0,
         next' = next + 1, UNCHANGED <<step, outcome, simErr>>
  PROVE  ClientInv'
<1>1. /\ CounterInv /\ step \in 1 .. 7 /\ next \in 1 .. 3
      /\ AsScripted(working, next - 1)
  BY StepType DEF ClientInv, Ran
<1>2. u \in Keys /\ u \in Addresses /\ FindProgramAddress(u) \in Addresses
  BY ClientKeys
<1>3. /\ CounterInv' /\ Abs!Open(u) /\ Kept(working, working', tx.signers)
  BY <1>1, <1>2, InitializeStep, RefineInitialize, InitializeKept
<1>4. CountOf(working')[u] = 0
  BY <1>2, <1>3 DEF Abs!Open, CountOf, Live
<1>5. /\ bank' = bank /\ tx'.signers = tx.signers
      /\ \A v \in Keys : v # u => CountOf(working')[v] = CountOf(working)[v]
  BY <1>1, <1>2, OthersCounts
<1>6. tx'.mode = tx.mode
  BY <1>1 DEF Initialize, InstructionDone, CounterInv, TypeOK, TxRecord
<1>7. ASSUME NEW v \in {Alice, Bob}
      PROVE  CountOf(working')[v] = CountAt(v, step, next)
  <2>1. CASE v = u
    BY <1>4, <2>1
  <2>2. CASE v # u
    <3>1. CountOf(working)[v] = CountAt(v, step, next - 1)
      BY <1>1 DEF AsScripted
    <3>2. /\ CountAt(v, step, next - 1) = CountAt(v, step, 0)
          /\ CountAt(v, step, next) = CountAt(v, step, 0)
      <4>1. next - 1 \in Nat /\ next \in Nat
        BY <1>1
      <4>2. v # Script[step].user
        BY <2>2 DEF Current
      <4>3. QED BY <1>1, <4>1, <4>2, CountSteps
    <3>3. QED BY <1>5, <2>2, <3>1, <3>2, ClientKeys
  <2>3. QED BY <2>1, <2>2
<1>8. QED BY <1>3, <1>5, <1>6, <1>7, OwnInstruction

LEMMA OwnIncrement ==
  ASSUME ClientInv, Mine, Current.op = "send", next <= Len(Current.ixs),
         NEW u \in {Alice, Bob}, u = Current.user, NEW by \in 0 .. MaxU64,
         Increment(u, FindProgramAddress(u), by),
         CountAt(u, step, next) = CountAt(u, step, next - 1) + by,
         next' = next + 1, UNCHANGED <<step, outcome, simErr>>
  PROVE  ClientInv'
<1>1. /\ CounterInv /\ step \in 1 .. 7 /\ next \in 1 .. 3
      /\ AsScripted(working, next - 1)
  BY StepType DEF ClientInv, Ran
<1>2. u \in Keys /\ u \in Addresses /\ FindProgramAddress(u) \in Addresses
  BY ClientKeys
<1>3. /\ CounterInv' /\ Abs!Add(u, by) /\ Kept(working, working', tx.signers)
  BY <1>1, <1>2, IncrementStep, RefineIncrement, IncrementKept
<1>4. CountOf(working')[u] = CountOf(working)[u] + by
  BY <1>2, <1>3 DEF Abs!Add, CountOf, Live
<1>5. /\ bank' = bank /\ tx'.signers = tx.signers
      /\ \A v \in Keys : v # u => CountOf(working')[v] = CountOf(working)[v]
  BY <1>1, <1>2, OthersCounts
<1>6. tx'.mode = tx.mode
  BY <1>1 DEF Increment, InstructionDone, CounterInv, TypeOK, TxRecord
<1>7. ASSUME NEW v \in {Alice, Bob}
      PROVE  CountOf(working')[v] = CountAt(v, step, next)
  <2>1. CountOf(working)[v] = CountAt(v, step, next - 1)
    BY <1>1 DEF AsScripted
  <2>2. CASE v = u
    BY <1>4, <2>1, <2>2
  <2>3. CASE v # u
    <3>1. /\ CountAt(v, step, next - 1) = CountAt(v, step, 0)
          /\ CountAt(v, step, next) = CountAt(v, step, 0)
      <4>1. next - 1 \in Nat /\ next \in Nat
        BY <1>1
      <4>2. v # Script[step].user
        BY <2>3 DEF Current
      <4>3. QED BY <1>1, <4>1, <4>2, CountSteps
    <3>2. QED BY <1>5, <2>1, <2>3, <3>1, ClientKeys
  <2>4. QED BY <2>2, <2>3
<1>8. QED BY <1>3, <1>5, <1>6, <1>7, OwnInstruction

\* The account of a counter that main has read.
LEMMA CountLive ==
  ASSUME NEW accts, NEW u \in {Alice, Bob}, NEW n \in Nat,
         CountOf(accts)[u] = n
  PROVE  /\ Live(accts, FindProgramAddress(u))
         /\ accts[FindProgramAddress(u)].data.count = n
<1>1. /\ u \in Keys /\ n # -1
  BY ClientKeys
<1>2. QED BY <1>1 DEF CountOf

\* What the client's instructions answer, by step and position.
LEMMA Answers ==
  ASSUME ClientInv, Mine, next <= Len(Current.ixs)
  PROVE  /\ step \in {5, 6} => ErrorOf(Current.ixs[next]) = "Ok"
         /\ step = 7 => ErrorOf(Current.ixs[next]) = "InvalidAccountOwner"
<1>1. /\ CounterInv /\ next \in 1 .. 3 /\ tx.signers = {Current.user}
      /\ AsScripted(working, next - 1) /\ step \in 3 .. 7
  BY StepType DEF ClientInv, Ran, OwnTransaction
<1>2. /\ Current = Script[step] /\ Alice # Bob /\ Alice \in Keys /\ Bob \in Keys
      /\ MaxU64 \in Nat /\ MaxU64 >= 42 /\ BadBy \in 0 .. MaxU64
  BY EnoughAssumption, ClientAssumption, Numbers DEF Current
<1>3. ASSUME NEW u \in {Alice, Bob}, u \in tx.signers, NEW by \in 0 .. 42,
             NEW n \in 0 .. 42, CountOf(working)[u] = n, n + by <= 42
      PROVE  IncrementError(u, FindProgramAddress(u), by) = "Ok"
  <2>1. /\ Live(working, FindProgramAddress(u))
        /\ working[FindProgramAddress(u)].data.count = n
    BY <1>3, CountLive
  <2>2. by \in 0 .. MaxU64 /\ n + by <= MaxU64
    BY <1>2, <1>3
  <2>3. QED BY <1>1, <1>3, <2>1, <2>2, OwnerServedInv DEF OwnerCanIncrement
<1>4. CASE step = 5
  <2>1. /\ Current.user = Alice /\ next \in {1, 2}
        /\ CountOf(working)[Alice] = CountAt(Alice, 5, next - 1)
    <3>1. Script[5].user = Alice /\ Len(Script[5].ixs) = 2
      BY StepIs
    <3>2. next <= Len(Script[5].ixs)
      BY <1>2, <1>4
    <3>3. CountOf(working)[Alice] = CountAt(Alice, step, next - 1)
      BY <1>1 DEF AsScripted
    <3>4. QED BY <1>1, <1>2, <1>4, <3>1, <3>2, <3>3
  <2>2. CASE next = 1
    <3>1. CountOf(working)[Alice] = 0
      BY <2>1, <2>2 DEF CountAt
    <3>2. IncrementError(Alice, FindProgramAddress(Alice), 1) = "Ok"
      BY <1>1, <1>3, <2>1, <3>1
    <3>3. QED BY <1>2, <1>4, <2>2, <3>2, InstructionIs DEF ErrorOf, IxIncrement
  <2>3. CASE next = 2
    <3>1. CountOf(working)[Alice] = 1
      BY <2>1, <2>3 DEF CountAt
    <3>2. IncrementError(Alice, FindProgramAddress(Alice), 41) = "Ok"
      BY <1>1, <1>3, <2>1, <3>1
    <3>3. QED BY <1>2, <1>4, <2>3, <3>2, InstructionIs DEF ErrorOf, IxIncrement
  <2>4. QED BY <1>4, <2>1, <2>2, <2>3
<1>5. CASE step = 6
  <2>1. /\ Current.user = Bob /\ next = 1
        /\ CountOf(working)[Bob] = CountAt(Bob, 6, 0)
    <3>1. Script[6].user = Bob /\ Len(Script[6].ixs) = 1
      BY StepIs
    <3>2. next <= Len(Script[6].ixs)
      BY <1>2, <1>5
    <3>3. CountOf(working)[Bob] = CountAt(Bob, step, next - 1)
      BY <1>1 DEF AsScripted
    <3>4. QED BY <1>1, <1>2, <1>5, <3>1, <3>2, <3>3
  <2>2. CountOf(working)[Bob] = 0
    BY <1>2, <2>1 DEF CountAt
  <2>3. IncrementError(Bob, FindProgramAddress(Bob), 7) = "Ok"
    BY <1>1, <1>3, <2>1, <2>2
  <2>4. QED BY <1>2, <1>5, <2>1, <2>3, InstructionIs DEF ErrorOf, IxIncrement
<1>6. CASE step = 7
  <2>1. /\ Current.user = Alice /\ next = 1
        /\ CountOf(working)[Bob] = CountAt(Bob, 7, 0)
    <3>1. Script[7].user = Alice /\ Len(Script[7].ixs) = 1
      BY StepIs
    <3>2. next <= Len(Script[7].ixs)
      BY <1>2, <1>6
    <3>3. CountOf(working)[Bob] = CountAt(Bob, step, next - 1)
      BY <1>1 DEF AsScripted
    <3>4. QED BY <1>1, <1>2, <1>6, <3>1, <3>2, <3>3
  <2>2. CountOf(working)[Bob] = 7
    BY <1>2, <2>1 DEF CountAt
  <2>3. Live(working, FindProgramAddress(Bob))
    BY <2>2, CountLive
  <2>4. IncrementError(Alice, FindProgramAddress(Bob), BadBy)
          = "InvalidAccountOwner"
    BY <1>1, <1>2, <2>1, <2>3, OthersRefusedInv
    DEF OthersGetInvalidAccountOwner
  <2>5. QED BY <1>2, <1>6, <2>1, <2>4, InstructionIs DEF ErrorOf, IxIncrement
<1>7. QED BY <1>1, <1>4, <1>5, <1>6

\* Where main is when it runs or loses an instruction.
LEMMA Position ==
  ASSUME ClientInv, Mine, next <= Len(Current.ixs)
  PROVE  /\ Current = Script[step] /\ Current.user \in {Alice, Bob}
         /\ tx.signers = {Current.user}
         /\ step = 7 => Current.op = "simulate" /\ next = 1
         /\ step # 7 => Current.op = "send"
         /\ \/ step = 3 /\ next = 1 /\ Current.user = Alice
            \/ step = 4 /\ next = 1 /\ Current.user = Bob
            \/ step = 5 /\ next \in {1, 2} /\ Current.user = Alice
            \/ step = 6 /\ next = 1 /\ Current.user = Bob
            \/ step = 7 /\ next = 1 /\ Current.user = Alice
<1>1. /\ step \in 3 .. 7 /\ next \in 1 .. 3 /\ Current = Script[step]
      /\ tx.signers = {Current.user} /\ Current.user \in {Alice, Bob}
  BY StepType DEF ClientInv, OwnTransaction, Current
<1>2. /\ Current.op = IF step <= 2 THEN "fund"
                      ELSE IF step <= 6 THEN "send" ELSE "simulate"
      /\ Current.user = IF step \in {1, 3, 5, 7} THEN Alice ELSE Bob
      /\ Len(Current.ixs) = IF step = 5 THEN 2 ELSE 1
  <2>1. step \in 1 .. 7 /\ step >= 3
    BY <1>1
  <2>2. QED BY <1>1, <2>1, StepIs, Zenon
<1>3. QED BY <1>1, <1>2

LEMMA RunNextStep ==
  ASSUME ClientInv, RunNext
  PROVE  ClientInv'
<1> DEFINE ix == Current.ixs[next]
<1>1. /\ Mine /\ next <= Len(Current.ixs) /\ next' = next + 1
      /\ UNCHANGED <<step, outcome, simErr>>
      /\ IF ix.tag = 0 THEN Initialize(ix.user, ix.counter, System)
                       ELSE Increment(ix.user, ix.counter, ix.by)
  BY DEF RunNext
<1>2. ASSUME NEW u \in {Alice, Bob}, u = Current.user, ix = IxInitialize(u),
             Current.op = "send", CountAt(u, step, next) = 0
      PROVE  ClientInv'
  <2>1. Initialize(u, FindProgramAddress(u), System)
    BY <1>1, <1>2 DEF IxInitialize, CounterPdaOf
  <2>2. QED BY <1>1, <1>2, <2>1, OwnInitialize
<1>3. ASSUME NEW u \in {Alice, Bob}, u = Current.user, NEW by \in 1 .. 42,
             ix = IxIncrement(u, FindProgramAddress(u), by),
             Current.op = "send",
             CountAt(u, step, next) = CountAt(u, step, next - 1) + by
      PROVE  ClientInv'
  <2>1. Increment(u, FindProgramAddress(u), by)
    BY <1>1, <1>3 DEF IxIncrement
  <2>2. by \in 0 .. MaxU64
    BY EnoughAssumption, Numbers
  <2>3. QED BY <1>1, <1>3, <2>1, <2>2, OwnIncrement
<1>4. /\ Current = Script[step] /\ Alice # Bob
      /\ step # 7 => Current.op = "send"
  BY <1>1, Position, ClientAssumption
<1>5. CASE step = 3 /\ next = 1 /\ Current.user = Alice
  <2>1. ix = IxInitialize(Alice) /\ CountAt(Alice, step, next) = 0
    BY <1>4, <1>5, InstructionIs DEF CountAt
  <2>2. QED BY <1>2, <1>4, <1>5, <2>1
<1>6. CASE step = 4 /\ next = 1 /\ Current.user = Bob
  <2>1. ix = IxInitialize(Bob) /\ CountAt(Bob, step, next) = 0
    BY <1>4, <1>6, InstructionIs DEF CountAt
  <2>2. QED BY <1>2, <1>4, <1>6, <2>1
<1>7. CASE step = 5 /\ next \in {1, 2} /\ Current.user = Alice
  <2>1. CASE next = 1
    <3>1. /\ ix = IxIncrement(Alice, FindProgramAddress(Alice), 1)
          /\ CountAt(Alice, step, next) = CountAt(Alice, step, next - 1) + 1
      BY <1>4, <1>7, <2>1, InstructionIs DEF CountAt
    <3>2. QED BY <1>3, <1>4, <1>7, <3>1
  <2>2. CASE next = 2
    <3>1. /\ ix = IxIncrement(Alice, FindProgramAddress(Alice), 41)
          /\ CountAt(Alice, step, next) = CountAt(Alice, step, next - 1) + 41
      BY <1>4, <1>7, <2>2, InstructionIs DEF CountAt
    <3>2. QED BY <1>3, <1>4, <1>7, <3>1
  <2>3. QED BY <1>7, <2>1, <2>2
<1>8. CASE step = 6 /\ next = 1 /\ Current.user = Bob
  <2>1. /\ ix = IxIncrement(Bob, FindProgramAddress(Bob), 7)
        /\ CountAt(Bob, step, next) = CountAt(Bob, step, next - 1) + 7
    BY <1>4, <1>8, InstructionIs DEF CountAt
  <2>2. QED BY <1>3, <1>4, <1>8, <2>1
<1>9. CASE step = 7 /\ next = 1 /\ Current.user = Alice
  <2>1. ErrorOf(ix) = "InvalidAccountOwner"
    BY <1>1, <1>9, Answers
  <2>2. ix = IxIncrement(Alice, FindProgramAddress(Bob), BadBy)
    BY <1>4, <1>9, InstructionIs
  <2>3. /\ ix.tag = 1 /\ IncrementError(ix.user, ix.counter, ix.by) # "Ok"
    BY <2>1, <2>2 DEF ErrorOf, IxIncrement
  <2>4. QED BY <1>1, <2>3 DEF Increment
<1> HIDE DEF ix
<1>10. QED BY <1>1, <1>5, <1>6, <1>7, <1>8, <1>9, Position

LEMMA SendSucceedsStep ==
  ASSUME ClientInv, SendSucceeds
  PROVE  ClientInv'
<1>1. /\ CounterInv /\ Mine /\ Current.op = "send" /\ next > Len(Current.ixs)
      /\ CommitTransaction /\ step' = step + 1 /\ outcome = "running"
      /\ UNCHANGED <<next, outcome, simErr>> /\ next \in 1 .. 3
      /\ next <= Len(Current.ixs) + 1 /\ tx.signers = {Current.user}
      /\ AsScripted(working, next - 1)
  BY DEF SendSucceeds, Busy, ClientInv, OwnTransaction, Ran
<1>2. /\ step \in 3 .. 6 /\ Current = Script[step]
      /\ next - 1 = Len(Script[step].ixs)
      /\ Current.user = IF step \in {1, 3, 5, 7} THEN Alice ELSE Bob
  <2>1. step \in 3 .. 6 /\ Current = Script[step]
    BY <1>1, StepType DEF Current
  <2>2. QED BY <1>1, <2>1, StepIs
<1>3. CounterInv'
  BY <1>1, CommitStep
<1>4. /\ bank' = working' /\ tx'.signers = {}
      /\ Kept(working, bank', tx.signers) /\ CountOf(bank') = CountOf(working)
  BY <1>1, CommitKept
<1>5. ~Mine' /\ Ran' = 0 /\ \A v : Charged(v)' = 0
  BY <1>4 DEF Mine, Ran, Charged
<1>6. ASSUME NEW v \in {Alice, Bob}
      PROVE  /\ CountOf(bank')[v] = CountAt(v, step', 0)
             /\ bank'[v].owner = System /\ bank'[v].len = 0
             /\ step' = OpensAt(v) - 1 \/ step' = OpensAt(v)
                  => bank'[v].lamports >= Airdrop
  <2>1. /\ CountOf(working)[v] = CountAt(v, step, next - 1)
        /\ working[v].owner = System /\ working[v].len = 0
        /\ step = OpensAt(v) - 1
             => working[v].lamports + Charged(v) >= Airdrop
    BY <1>1 DEF AsScripted
  <2>2. CountAt(v, step', 0) = CountAt(v, step, next - 1)
    <3>1. step \in 1 .. 7 /\ step >= 3 /\ step < 7
      BY <1>2
    <3>2. CountAt(v, step + 1, 0) = CountAt(v, step, Len(Script[step].ixs))
      BY <3>1, CountSteps
    <3>3. QED BY <1>1, <1>2, <3>2
  <2>3. v \in Keys /\ v \in Addresses
    BY ClientKeys
  <2>4. working[v].lamports \in Nat /\ bank'[v].lamports \in Nat
    BY <1>1, <1>3, <2>3, DataTypes DEF CounterInv, TypeOK
  <2>5. step' = OpensAt(v) - 1 \/ step' = OpensAt(v)
          => step = OpensAt(v) - 1 /\ v \notin tx.signers
    BY <1>1, <1>2, ClientAssumption DEF OpensAt
  <2>6. v \notin tx.signers => Charged(v) = 0
    BY DEF Charged
  <2>7. QED BY <1>4, <2>1, <2>2, <2>3, <2>4, <2>5, <2>6, Numbers DEF Kept
<1>7. AsScripted(bank, 0)' /\ AsScripted(working, Ran)'
  <2>1. \A v \in {Alice, Bob} : bank'[v].lamports \in Nat
    BY <1>3, ClientKeys, DataTypes DEF CounterInv, TypeOK
  <2>2. QED BY <1>1, <1>4, <1>5, <1>6, <2>1 DEF AsScripted, CountOf, Live
<1>8. OwnTransaction'
  BY <1>5 DEF OwnTransaction
<1>9. step' \in 1 .. Len(Script) + 1 /\ ~Done'
  BY <1>1, <1>2, ScriptLength DEF Done
<1>10. QED BY <1>1, <1>3, <1>7, <1>8, <1>9 DEF ClientInv

\* initialize fails only where somebody sent lamports before: the airdrop
\* pays for the counter, and nobody else can open it.
LEMMA SendFailsStep ==
  ASSUME ClientInv, SendFails
  PROVE  ClientInv'
<1> DEFINE u  == Current.user
           p  == FindProgramAddress(u)
           ix == Current.ixs[next]
<1>1. /\ CounterInv /\ Mine /\ Current.op = "send" /\ next <= Len(Current.ixs)
      /\ ErrorOf(ix) # "Ok" /\ RollBack /\ outcome = "running"
      /\ outcome' = "failed" /\ UNCHANGED <<step, next, simErr>>
      /\ next \in 1 .. 3 /\ step \in 1 .. Len(Script) + 1
      /\ tx.signers = {u}
      /\ AsScripted(bank, 0) /\ AsScripted(working, next - 1)
      /\ next = 1 => \A q \in Pdas : working[q].lamports = bank[q].lamports
  BY DEF SendFails, Busy, ClientInv, OwnTransaction, Ran
<1>2. step # 5 /\ step # 6
  BY <1>1, Answers
<1>3. /\ next = 1 /\ step \in {3, 4} /\ Current = Script[step]
      /\ u \in {Alice, Bob} /\ u = IF step = 3 THEN Alice ELSE Bob
  <2>1. step # 7
    BY <1>1, Position
  <2>2. QED BY <1>1, <1>2, <2>1, Position
<1>4. Alice # Bob /\ step = OpensAt(u)
  BY <1>3, ClientAssumption DEF OpensAt
<1>5. ix = IxInitialize(u)
  BY <1>3, InstructionIs
<1>6. u \in Keys /\ p \in Pdas /\ p \in Addresses /\ u \in Addresses
  BY <1>3, ClientKeys
<1>7. InitializeError(u, p, System) # "Ok"
  BY <1>1, <1>5 DEF ErrorOf, IxInitialize, CounterPdaOf
<1> HIDE DEF u, p, ix
<1>8. /\ CountOf(working)[u] = CountAt(u, step, 0)
      /\ working[u].owner = System /\ working[u].len = 0
      /\ working[u].lamports + Charged(u) >= Airdrop
  <2>1. AsScripted(working, 0)
    BY <1>1, <1>3
  <2>2. QED BY <1>1, <1>3, <1>4, <2>1 DEF AsScripted
<1>9. CanTransfer(u, InitialLamports)
  <2>1. Charged(u) = FeePerSignature
    BY <1>1 DEF Charged
  <2>2. working[u].lamports \in Nat
    BY <1>1, <1>6, DataTypes DEF CounterInv, TypeOK
  <2>3. working[u].lamports >= RentMin[COUNTER_LEN]
    BY <1>8, <2>1, <2>2, Numbers
  <2>4. QED BY <1>1, <1>8, <2>3 DEF CanTransfer, IsSigner, InitialLamports
<1>10. working[p] # Absent
  <2>1. InitializeError(u, p, System) = "Ok"
          <=> working[p] = Absent /\ CanTransfer(u, InitialLamports)
    BY <1>1, InitializeWhenAbsentInv DEF InitializeExactlyWhenAbsent, p
  <2>2. QED BY <1>7, <1>9, <2>1
<1>11. working[p] \in Account /\ PdaOK(working[p], p)
  BY <1>1, <1>6 DEF CounterInv, TypeOK, Shape
<1>12. ~Live(working, p)
  <2>1. CountAt(u, step, 0) = -1
    BY <1>3, <1>4 DEF CountAt
  <2>2. CountOf(working)[u] = IF Live(working, p) THEN working[p].data.count ELSE -1
    BY <1>6 DEF CountOf, p
  <2>3. working[p].data.count \in Nat
    BY <1>11, DataTypes, Numbers
  <2>4. QED BY <1>8, <2>1, <2>2, <2>3
<1>13. working[p].lamports > 0
  <2>1. /\ working[p].owner = System /\ working[p].len = 0
        /\ working[p].data = ZeroData
    BY <1>11, <1>12 DEF PdaOK, Live
  <2>2. working[p].lamports # 0
    BY <1>10, <1>11, <2>1 DEF Absent, Account
  <2>3. QED BY <1>11, <2>2, DataTypes
<1>14. bank[p].lamports > 0
  BY <1>1, <1>3, <1>6, <1>13
<1>15. CounterInv'
  BY <1>1, RollBackStep
<1>16. /\ bank' = bank /\ working' = bank /\ ~Mine' /\ Ran' = 0
  BY <1>1 DEF RollBack, Idle, Mine, Ran
<1>17. AsScripted(bank, 0)' /\ AsScripted(working, Ran)'
  <2>1. \A v \in {Alice, Bob} : step = OpensAt(v) => v = u
    BY <1>3, <1>4 DEF OpensAt
  <2>2. \A v \in {Alice, Bob} :
          /\ CountOf(bank)[v] = CountAt(v, step, 0)
          /\ bank[v].owner = System /\ bank[v].len = 0
          /\ step = OpensAt(v) => bank[FindProgramAddress(v)].lamports > 0
    BY <1>1, <1>14, <2>1 DEF AsScripted, p
  <2>3. QED BY <1>1, <1>16, <2>2 DEF AsScripted, CountOf, Live
<1>18. OwnTransaction'
  BY <1>16 DEF OwnTransaction
<1>19. ~Done'
  BY <1>1, <1>3, ScriptLength DEF Done
<1>20. QED BY <1>1, <1>3, <1>15, <1>17, <1>18, <1>19 DEF ClientInv

LEMMA SimulationEndsStep ==
  ASSUME ClientInv, SimulationEnds
  PROVE  ClientInv'
<1>1. /\ CounterInv /\ Mine /\ Current.op = "simulate" /\ RollBack
      /\ simErr' = IF next > Len(Current.ixs) THEN "Ok"
                   ELSE ErrorOf(Current.ixs[next])
      /\ step' = step + 1 /\ UNCHANGED <<next, outcome>>
      /\ outcome = "running" /\ next \in 1 .. 3 /\ AsScripted(bank, 0)
  BY DEF SimulationEnds, Busy, ClientInv
<1>2. /\ step = 7 /\ next = 1 /\ Len(Current.ixs) = 1
  <2>1. step = 7 /\ next = 1 /\ Current = Script[step]
    BY <1>1, StepType DEF Current
  <2>2. Len(Script[7].ixs) = 1
    BY StepIs
  <2>3. QED BY <2>1, <2>2
<1>3. simErr' = "InvalidAccountOwner"
  BY <1>1, <1>2, Answers
<1>4. CounterInv'
  BY <1>1, RollBackStep
<1>5. /\ bank' = bank /\ working' = bank /\ ~Mine' /\ Ran' = 0
  BY <1>1 DEF RollBack, Idle, Mine, Ran
<1>6. \A v \in {Alice, Bob} :
        /\ CountOf(bank)[v] = CountAt(v, 8, 0)
        /\ bank[v].owner = System /\ bank[v].len = 0
        /\ ~(8 = OpensAt(v) - 1) /\ ~(8 = OpensAt(v))
  BY <1>1, <1>2, CountSteps DEF AsScripted, OpensAt
<1>7. step' = 8 /\ outcome' = "running"
  BY <1>1, <1>2
<1>8. AsScripted(bank, 0)' /\ AsScripted(working, Ran)'
  BY <1>5, <1>6, <1>7 DEF AsScripted, CountOf, Live
<1>9. OwnTransaction'
  BY <1>5 DEF OwnTransaction
<1>10. step' \in 1 .. Len(Script) + 1
  BY <1>7, ScriptLength
<1>11. QED BY <1>1, <1>3, <1>4, <1>7, <1>8, <1>9, <1>10 DEF ClientInv

\* A call that is given up changes nothing but main's own state.
LEMMA GivesUpStep ==
  ASSUME ClientInv, AirdropFails \/ SendGivesUp \/ LastReadFails
  PROVE  ClientInv'
<1>1. /\ ~Mine /\ outcome = "running" /\ outcome' = "rpc error"
      /\ UNCHANGED <<rtVars, step, next, simErr>>
  BY DEF AirdropFails, SendGivesUp, LastReadFails, ClientInv, OwnTransaction, Busy
<1>2. bank' = bank /\ working' = working /\ tx' = tx
  BY <1>1 DEF rtVars
<1>3. CounterInv'
  BY <1>2 DEF ClientInv, CounterInv, TypeOK, Shape, Later, Live
<1>4. ~Mine' /\ Ran = 0 /\ Ran' = 0
  BY <1>1, <1>2 DEF Mine, Ran
<1>5. AsScripted(bank, 0)' /\ AsScripted(working, Ran)'
  BY <1>1, <1>2, <1>4 DEF ClientInv, AsScripted, CountOf, Live
<1>6. OwnTransaction'
  BY <1>4 DEF OwnTransaction
<1>7. QED BY <1>1, <1>3, <1>5, <1>6 DEF ClientInv, Done

-----------------------------------------------------------------------------
(* The theorems. *)

LEMMA ClientInitStep == ClientInit => ClientInv
<1> SUFFICES ASSUME ClientInit PROVE ClientInv
  OBVIOUS
<1>1. /\ Init /\ step = 1 /\ next = 1 /\ outcome = "running"
      /\ working = bank /\ tx = Idle
      /\ bank = [a \in Addresses |->
                   IF a \in Keys THEN WithLamports(Absent, Funding[a])
                                 ELSE Absent]
  BY DEF ClientInit, Init, RuntimeInit
<1>2. CounterInv
  BY <1>1, InitStep
<1>3. ~Mine /\ Ran = 0
  BY <1>1 DEF Mine, Idle, Ran
<1>4. ASSUME NEW u \in {Alice, Bob}
      PROVE  /\ CountOf(bank)[u] = CountAt(u, step, 0)
             /\ bank[u].owner = System /\ bank[u].len = 0
             /\ step # OpensAt(u) - 1 /\ step # OpensAt(u)
  <2>1. /\ u \in Keys /\ u \in Addresses /\ FindProgramAddress(u) \in Addresses
        /\ FindProgramAddress(u) \notin Keys
    BY ClientKeys
  <2>2. bank[FindProgramAddress(u)] = Absent
    BY <1>1, <2>1
  <2>3. CountOf(bank)[u] = -1
    BY <2>1, <2>2, OwnersDiffer DEF CountOf, Live, Absent
  <2>4. bank[u].owner = System /\ bank[u].len = 0
    BY <1>1, <2>1 DEF WithLamports, Absent
  <2>5. QED BY <1>1, <2>3, <2>4 DEF CountAt, OpensAt
<1>5. AsScripted(bank, 0) /\ AsScripted(working, Ran)
  BY <1>1, <1>3, <1>4 DEF AsScripted
<1>6. OwnTransaction
  BY <1>3 DEF OwnTransaction
<1>7. step \in 1 .. Len(Script) + 1 /\ ~Done
  BY <1>1, ScriptLength DEF Done
<1>8. QED BY <1>1, <1>2, <1>5, <1>6, <1>7 DEF ClientInv

LEMMA ClientNextStep == ClientInv /\ [ClientNext]_vars => ClientInv'
<1> SUFFICES ASSUME ClientInv, [ClientNext]_vars PROVE ClientInv'
  OBVIOUS
<1>1. CASE Airdropped
  BY <1>1, AirdroppedStep
<1>2. CASE AirdropFails \/ SendGivesUp \/ LastReadFails
  BY <1>2, GivesUpStep
<1>3. CASE Start
  BY <1>3, StartStep
<1>4. CASE RunNext
  BY <1>4, RunNextStep
<1>5. CASE SendSucceeds
  BY <1>5, SendSucceedsStep
<1>6. CASE SendFails
  BY <1>6, SendFailsStep
<1>7. CASE SimulationEnds
  BY <1>7, SimulationEndsStep
<1>8. CASE OthersBegin
  BY <1>8, OthersBeginStep
<1>9. CASE OthersRun
  BY <1>9, OthersRunStep
<1>10. CASE UNCHANGED vars
  <2>1. /\ bank' = bank /\ working' = working /\ tx' = tx
        /\ step' = step /\ next' = next /\ outcome' = outcome
        /\ simErr' = simErr
    BY <1>10 DEF vars, rtVars, clientVars
  <2>2. CounterInv'
    BY <2>1 DEF ClientInv, CounterInv, TypeOK, Shape, Later, Live
  <2>3. /\ Mine' = Mine /\ Ran' = Ran /\ Busy' = Busy /\ Current' = Current
        /\ Done' = Done
    BY <2>1 DEF Mine, Ran, Busy, Current, Done
  <2>4. AsScripted(bank, 0)' /\ AsScripted(working, Ran)'
    BY <2>1, <2>3 DEF ClientInv, AsScripted, CountOf, Live, Charged
  <2>5. OwnTransaction'
    BY <2>1, <2>3 DEF ClientInv, OwnTransaction
  <2>6. QED BY <2>1, <2>2, <2>3, <2>4, <2>5 DEF ClientInv
<1>11. QED
  BY <1>1, <1>2, <1>3, <1>4, <1>5, <1>6, <1>7, <1>8, <1>9, <1>10
  DEF ClientNext, ClientStep, CallReturns

\* main's picture of its counters is right at every instruction, whatever
\* others do with the program (client main.rs 84-145).
THEOREM ClientInvariant == ClientSpec => []ClientInv
<1>1. ClientInit => ClientInv
  BY ClientInitStep
<1>2. ClientInv /\ [ClientNext]_vars => ClientInv'
  BY ClientNextStep
<1>3. QED BY <1>1, <1>2, PTL DEF ClientSpec

\* The numbers main prints hold: 42, 7, and the refusal of Alice's attempt on
\* Bob's counter.
THEOREM ReportsHold == ClientSpec => []ScriptReportsHold
<1>1. ClientInv => ScriptReportsHold
  <2> SUFFICES ASSUME ClientInv PROVE ScriptReportsHold
    OBVIOUS
  <2>1. step = 4 => bank[FindProgramAddress(Alice)].data = NewCounter(Alice)
    <3> SUFFICES ASSUME step = 4
                 PROVE  bank[FindProgramAddress(Alice)].data = NewCounter(Alice)
      OBVIOUS
    <3> DEFINE p == FindProgramAddress(Alice)
    <3>1. CountOf(bank)[Alice] = 0
      <4>1. CountOf(bank)[Alice] = CountAt(Alice, 4, 0)
        BY DEF ClientInv, AsScripted
      <4>2. CountAt(Alice, 4, 0) = 0
        BY DEF CountAt
      <4>3. QED BY <4>1, <4>2
    <3>2. Live(bank, p) /\ bank[p].data.count = 0
      BY <3>1, CountLive
    <3>3. /\ bank \in [Addresses -> Account] /\ Shape(bank)
          /\ Alice \in Keys /\ p \in Pdas /\ p \in Addresses
      BY ClientKeys DEF ClientInv, CounterInv, TypeOK
    <3>4. bank[p].data.authority = Alice
      BY <3>2, <3>3, LiveCounterOf
    <3>5. bank[p].data.bump = CanonicalBump(Alice)
      BY <3>2, <3>3, <3>4, LivePda
    <3>6. bank[p].data \in CounterData
      BY <3>3, LayoutAssumption DEF Account
    <3> HIDE DEF p
    <3>7. bank[p].data = NewCounter(Alice)
      BY <3>2, <3>4, <3>5, <3>6 DEF CounterData, NewCounter
    <3>8. QED BY <3>7 DEF p
  <2>2. ASSUME step > 6 PROVE Count(Alice) = 42 /\ Count(Bob) = 7
    <3>1. /\ CountOf(bank)[Alice] = CountAt(Alice, step, 0)
          /\ CountOf(bank)[Bob] = CountAt(Bob, step, 0)
      BY DEF ClientInv, AsScripted
    <3>2. step \in 1 .. 8 /\ Alice # Bob
      BY StepType, ClientAssumption
    <3>3. CountOf(bank)[Alice] = 42 /\ CountOf(bank)[Bob] = 7
      BY <2>2, <3>1, <3>2 DEF CountAt
    <3>4. QED BY <3>3, CountLive DEF Count
  <2>3. Done => simErr = "InvalidAccountOwner"
    BY DEF ClientInv
  <2>4. QED BY <2>1, <2>2, <2>3 DEF ScriptReportsHold
<1>2. QED BY <1>1, ClientInvariant, PTL

\* The client's transactions fail on one account only: initialize on an
\* address that holds lamports and no counter.
THEOREM FailsOnlyIfPrefunded == ClientSpec => []FailsOnlyOnPrefundedAddress
<1>1. ClientInv => FailsOnlyOnPrefundedAddress
  <2>1. SUFFICES ASSUME ClientInv, outcome = "failed"
                 PROVE  /\ Current.ixs[next].tag = 0
                        /\ bank[Current.ixs[next].counter].lamports > 0
                        /\ ~Live(bank, Current.ixs[next].counter)
    BY DEF FailsOnlyOnPrefundedAddress
  <2>2. step \in {3, 4} /\ next = 1 /\ AsScripted(bank, 0) /\ CounterInv
    BY <2>1 DEF ClientInv
  <2>3. PICK u \in {Alice, Bob} : step = OpensAt(u)
    BY <2>2, ClientAssumption DEF OpensAt
  <2>4. Current.ixs[next] = IxInitialize(u)
    BY <2>2, <2>3, InstructionIs, ClientAssumption DEF Current, OpensAt
  <2> DEFINE p == FindProgramAddress(u)
  <2>5. /\ bank[p].lamports > 0 /\ CountOf(bank)[u] = -1
    <3>1. CountAt(u, step, 0) = -1
      BY <2>2, <2>3, ClientAssumption DEF CountAt, OpensAt
    <3>2. QED BY <2>1, <2>2, <2>3, <3>1 DEF AsScripted
  <2>6. ~Live(bank, p)
    <3>1. u \in Keys /\ p \in Addresses
      BY ClientKeys
    <3>2. bank[p].data.count \in Nat
      BY <2>2, <3>1, DataTypes, Numbers DEF CounterInv, TypeOK
    <3>3. CountOf(bank)[u] = IF Live(bank, p) THEN bank[p].data.count ELSE -1
      BY <3>1 DEF CountOf
    <3>4. QED BY <2>5, <3>2, <3>3
  <2>7. QED BY <2>4, <2>5, <2>6 DEF IxInitialize, CounterPdaOf
<1>2. QED BY <1>1, ClientInvariant, PTL

=============================================================================
