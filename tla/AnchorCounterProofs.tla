------------------------- MODULE AnchorCounterProofs -------------------------
(***************************************************************************)
(* Theorems about AnchorCounter, for every set of keys and addresses,      *)
(* every rent schedule and every maximum.  The invariant speaks of the     *)
(* shape of the accounts and of the counter they hold; the second part is  *)
(* carried by the refinement: each step is a step of GlobalCounterSpec or  *)
(* leaves its variables alone.                                             *)
(***************************************************************************)
EXTENDS AnchorCounter, FiniteSetTheorems, TLAPS

-----------------------------------------------------------------------------
(* Types. *)

Sound(accts) == accts \in [Addresses -> Account] /\ Shape(accts)

LEMMA ConstantTypes ==
  /\ CounterPda \in Addresses /\ CounterPda \notin Keys
  /\ System \notin Keys
  /\ RentMin[SPACE] \in Nat /\ RentMin[SPACE] > 0
  /\ System \in Owners /\ Program \in Owners /\ Other \in Owners
  /\ Absent \in Account /\ Idle \in TxRecord
  /\ ZeroData \in Data /\ ZeroData.tag = "none"
  /\ \A k \in Keys : NewCounter(k) \in Data
<1>1. CounterPda \in Addresses /\ CounterPda \notin Keys /\ System \notin Keys
  BY AnchorAssumption, KeysAssumption DEF Addresses
<1>2. /\ RentMin[SPACE] \in Nat /\ RentMin[SPACE] > 0
      /\ 0 \in Lens /\ SPACE \in Lens
  BY AnchorAssumption, RentAssumption
<1>3. System \in Owners /\ Program \in Owners /\ Other \in Owners
  BY DEF Owners
<1>4. ZeroData \in Data /\ ZeroData.tag = "none"
  BY AnchorAssumption, DataAssumption
<1>5. Absent \in Account /\ Idle \in TxRecord
  BY <1>2, <1>3, <1>4, FundsAssumption DEF Absent, Account, Idle, TxRecord
<1>6. \A k \in Keys : NewCounter(k) \in Data
  BY AnchorAssumption DEF NewCounter, CounterData
<1>7. QED BY <1>1, <1>2, <1>3, <1>4, <1>5, <1>6

LEMMA FeeType ==
  ASSUME NEW S \in SUBSET Keys
  PROVE  FeePerSignature * Cardinality(S) \in Nat
<1>1. Cardinality(S) \in Nat
  BY FS_Subset, FS_CardinalityType, KeysAssumption
<1>2. QED BY <1>1, FundsAssumption

LEMMA DataTypes ==
  ASSUME NEW acct \in Account
  PROVE  /\ acct.lamports \in Nat /\ acct.owner \in Owners
         /\ acct.data.count \in 0 .. MAX_COUNT
         /\ acct.data.authority \in Keys \cup {System}
BY AnchorAssumption DEF Account, CounterData

-----------------------------------------------------------------------------
(* What the operators on accounts do to the counter. *)

\* The counter is owned exactly when its account is live.
LEMMA OwnedIsLive ==
  ASSUME NEW accts, Shape(accts)
  PROVE  /\ Live(accts, CounterPda) <=> CounterOf(accts).owner # System
         /\ Live(accts, CounterPda)
              => /\ CounterOf(accts).owner = accts[CounterPda].data.authority
                 /\ CounterOf(accts).count = accts[CounterPda].data.count
BY ConstantTypes, OwnersDiffer DEF Shape, CounterOK, Live, CounterOf

\* An account elsewhere may become anything but a counter.
LEMMA PutElsewhere ==
  ASSUME NEW accts, Sound(accts),
         NEW a \in Addresses \ {CounterPda}, NEW r \in Account,
         r.owner = Program => r.data.tag = "none"
  PROVE  /\ Sound([accts EXCEPT ![a] = r])
         /\ CounterOf([accts EXCEPT ![a] = r]) = CounterOf(accts)
<1> DEFINE new == [accts EXCEPT ![a] = r]
<1>1. new \in [Addresses -> Account]
  BY DEF Sound
<1>2. /\ new[a] = r
      /\ \A b \in Addresses \ {a} : new[b] = accts[b]
  BY DEF Sound
<1>3. new[CounterPda] = accts[CounterPda]
  BY <1>2, ConstantTypes
<1>4. Shape(new)
  BY <1>2, <1>3 DEF Shape, Sound
<1>5. CounterOf(new) = CounterOf(accts)
  BY <1>3 DEF CounterOf, Live
<1>6. QED BY <1>1, <1>4, <1>5 DEF Sound

\* Lamports move without a counter noticing, as long as none are taken from
\* its address.
LEMMA SetLamports ==
  ASSUME NEW accts, Sound(accts), NEW a \in Addresses, NEW n \in Nat,
         a = CounterPda => n >= accts[a].lamports
  PROVE  /\ Sound([accts EXCEPT ![a] = WithLamports(@, n)])
         /\ CounterOf([accts EXCEPT ![a] = WithLamports(@, n)]) = CounterOf(accts)
<1> DEFINE r   == WithLamports(accts[a], n)
           new == [accts EXCEPT ![a] = r]
<1>1. accts[a] \in Account
  BY DEF Sound
<1>2. /\ r \in Account /\ r.owner = accts[a].owner /\ r.data = accts[a].data
      /\ r.len = accts[a].len /\ r.lamports = n
  BY <1>1 DEF WithLamports, Account
<1>3. CASE a # CounterPda
  <2>1. r.owner = Program => r.data.tag = "none"
    BY <1>2, <1>3 DEF Sound, Shape
  <2>2. QED BY <1>2, <1>3, <2>1, PutElsewhere
<1>4. CASE a = CounterPda
  <2>1. new \in [Addresses -> Account] /\ new[CounterPda] = r
    BY <1>2, <1>4 DEF Sound
  <2>2. \A b \in Addresses \ {CounterPda} : new[b] = accts[b]
    BY <1>4 DEF Sound
  <2>3. CounterOK(r)
    <3>1. CounterOK(accts[a]) /\ accts[a].lamports \in Nat /\ n >= accts[a].lamports
      BY <1>1, <1>4, DataTypes DEF Sound, Shape
    <3>2. RentMin[SPACE] + HELLO_WORLD_LAMPORTS \in Nat
      BY ConstantTypes DEF HELLO_WORLD_LAMPORTS
    <3>3. QED BY <1>2, <3>1, <3>2 DEF CounterOK
  <2>4. Shape(new)
    BY <2>1, <2>2, <2>3 DEF Shape, Sound
  <2>5. CounterOf(new) = CounterOf(accts)
    BY <1>2, <1>4, <2>1 DEF CounterOf, Live
  <2>6. QED BY <2>1, <2>4, <2>5 DEF Sound
<1>5. QED BY <1>3, <1>4

LEMMA TransferredKeeps ==
  ASSUME NEW accts, Sound(accts),
         NEW from \in Keys, NEW to \in Addresses, from # to,
         NEW n \in Nat, accts[from].lamports >= n
  PROVE  /\ Sound(Transferred(accts, from, to, n))
         /\ CounterOf(Transferred(accts, from, to, n)) = CounterOf(accts)
<1> DEFINE mid == [accts EXCEPT ![from] = WithLamports(@, accts[from].lamports - n)]
           new == [mid EXCEPT ![to] = WithLamports(@, accts[to].lamports + n)]
<1>1. from \in Addresses /\ from # CounterPda
  BY ConstantTypes DEF Addresses
<1>2. /\ accts[from].lamports \in Nat /\ accts[to].lamports \in Nat
      /\ accts[from].lamports - n \in Nat
      /\ accts[to].lamports + n \in Nat
      /\ accts[to].lamports + n >= accts[to].lamports
  BY <1>1, DataTypes DEF Sound
<1>3. Sound(mid) /\ CounterOf(mid) = CounterOf(accts)
  BY <1>1, <1>2, SetLamports
<1>4. mid[to] = accts[to]
  BY DEF Sound
<1>5. new = Transferred(accts, from, to, n)
  <2>1. new = [mid EXCEPT ![to] = WithLamports(accts[to], accts[to].lamports + n)]
    BY <1>4
  <2>2. QED BY <1>1, <2>1 DEF Transferred, Sound
<1> HIDE DEF mid
<1>6. Sound(new) /\ CounterOf(new) = CounterOf(mid)
  BY <1>2, <1>3, <1>4, SetLamports
<1>7. QED BY <1>3, <1>5, <1>6

\* No account with lamports is lost at the commit, and a counter has some.
LEMMA PurgedKeeps ==
  ASSUME NEW accts, Sound(accts)
  PROVE  /\ Sound(Purged(accts))
         /\ CounterOf(Purged(accts)) = CounterOf(accts)
<1> DEFINE new == Purged(accts)
<1>1. new \in [Addresses -> Account]
  BY ConstantTypes DEF Purged, Sound
<1>2. Absent.owner = System /\ Absent.len = 0
  BY DEF Absent
<1>3. ASSUME NEW a \in Addresses \ {CounterPda}, new[a].owner = Program
      PROVE  new[a].data.tag = "none"
  BY <1>2, <1>3, OwnersDiffer DEF Purged, Sound, Shape
<1>4. CounterOK(new[CounterPda]) /\ CounterOf(new) = CounterOf(accts)
  <2>1. CounterOK(accts[CounterPda]) /\ CounterPda \in Addresses
    BY ConstantTypes DEF Sound, Shape
  <2>2. CASE accts[CounterPda].lamports = 0
    <3>1. accts[CounterPda].owner = System
      BY <2>1, <2>2, ConstantTypes DEF CounterOK, HELLO_WORLD_LAMPORTS
    <3>2. new[CounterPda] = Absent
      BY <2>1, <2>2 DEF Purged
    <3>3. QED BY <1>2, <3>1, <3>2, OwnersDiffer DEF CounterOK, CounterOf, Live
  <2>3. CASE accts[CounterPda].lamports # 0
    <3>1. new[CounterPda] = accts[CounterPda]
      BY <2>1, <2>3 DEF Purged
    <3>2. QED BY <2>1, <3>1 DEF CounterOf, Live
  <2>4. QED BY <2>2, <2>3
<1>5. QED BY <1>1, <1>3, <1>4 DEF Sound, Shape

-----------------------------------------------------------------------------
(* Every step keeps the shape of the accounts, and is a step of            *)
(* GlobalCounterSpec or changes nothing there.                             *)

\* What is proved of each step.
Follows ==
  /\ TypeOK'
  /\ Shape(bank)' /\ Shape(working)'
  /\ [Abs!Next]_Abs!absVars

\* An instruction that leaves the counter alone.
LEMMA QuietStep ==
  ASSUME AnchorInv, CanRunInstruction, InstructionDone, UNCHANGED bank,
         Sound(working'), CounterOf(working') = CounterOf(working)
  PROVE  Follows
<1>1. tx' \in TxRecord /\ tx'.status = "running" /\ tx'.signers = tx.signers
  BY FundsAssumption DEF AnchorInv, TypeOK, CanRunInstruction, InstructionDone, TxRecord
<1>2. TypeOK'
  BY <1>1 DEF AnchorInv, TypeOK, CanRunInstruction, Sound
<1>3. Shape(bank)' /\ Shape(working)'
  BY DEF AnchorInv, Sound, Shape
<1>4. CounterOf(bank)' = CounterOf(bank) /\ CounterOf(working)' = CounterOf(working)
  BY DEF CounterOf, Live
<1>5. QED BY <1>1, <1>2, <1>3, <1>4 DEF Follows, Abs!absVars

\* An instruction that changes it.
LEMMA CountingStep ==
  ASSUME AnchorInv, CanRunInstruction, InstructionDone, UNCHANGED bank,
         Sound(working'),
         \/ \E u \in Keys : /\ u \in tx.signers
                            /\ CounterOf(working) = Abs!Unowned
                            /\ CounterOf(working') = [owner |-> u, count |-> 0]
         \/ LET old == CounterOf(working)
            IN  /\ old.owner \in tx.signers /\ old.count < MAX_COUNT
                /\ CounterOf(working') = [owner |-> old.owner, count |-> old.count + 1]
  PROVE  Follows
<1>1. tx' \in TxRecord /\ tx'.status = "running" /\ tx'.signers = tx.signers
  BY FundsAssumption DEF AnchorInv, TypeOK, CanRunInstruction, InstructionDone, TxRecord
<1>2. TypeOK'
  BY <1>1 DEF AnchorInv, TypeOK, CanRunInstruction, Sound
<1>3. Shape(bank)' /\ Shape(working)'
  BY DEF AnchorInv, Sound, Shape
<1>4. CounterOf(bank)' = CounterOf(bank) /\ CounterOf(working)' = CounterOf(working')
  BY DEF CounterOf, Live
<1>5. CASE \E u \in Keys : /\ u \in tx.signers
                           /\ CounterOf(working) = Abs!Unowned
                           /\ CounterOf(working') = [owner |-> u, count |-> 0]
  BY <1>1, <1>2, <1>3, <1>4, <1>5 DEF Follows, Abs!Next, Abs!Claim
<1>6. CASE /\ CounterOf(working).owner \in tx.signers
           /\ CounterOf(working).count < MAX_COUNT
           /\ CounterOf(working') = [owner |-> CounterOf(working).owner,
                                     count |-> CounterOf(working).count + 1]
  BY <1>1, <1>2, <1>3, <1>4, <1>6 DEF Follows, Abs!Next, Abs!CountUp
<1>7. QED BY <1>5, <1>6

LEMMA RollBackStep ==
  ASSUME AnchorInv, RollBack, tx.status = "running"
  PROVE  Follows
<1>1. TypeOK'
  BY ConstantTypes DEF AnchorInv, TypeOK, RollBack, Idle
<1>2. Shape(bank)' /\ Shape(working)'
  BY DEF AnchorInv, RollBack, Shape
<1>3. CounterOf(bank)' = CounterOf(bank) /\ CounterOf(working)' = CounterOf(bank)
  BY DEF RollBack, CounterOf, Live
<1>4. tx.signers # {} /\ tx'.signers = {}
  BY DEF AnchorInv, TypeOK, RollBack, Idle
<1>5. QED BY <1>1, <1>2, <1>3, <1>4 DEF Follows, Abs!Next, Abs!Abort

LEMMA CommitStep ==
  ASSUME AnchorInv, CommitTransaction
  PROVE  Follows
<1>1. Sound(working) /\ tx.signers # {}
  BY DEF AnchorInv, TypeOK, CommitTransaction, Sound
<1>2. /\ bank' = Purged(working) /\ working' = Purged(working)
      /\ tx' = Idle /\ tx'.signers = {}
  BY DEF CommitTransaction, Idle
<1>3. Sound(Purged(working)) /\ CounterOf(Purged(working)) = CounterOf(working)
  BY <1>1, PurgedKeeps
<1>4. TypeOK'
  BY <1>2, <1>3, ConstantTypes DEF TypeOK, Sound, Idle
<1>5. Shape(bank)' /\ Shape(working)'
  BY <1>2, <1>3 DEF Sound, Shape
<1>6. CounterOf(bank)' = CounterOf(working) /\ CounterOf(working)' = CounterOf(working)
  BY <1>2, <1>3 DEF CounterOf, Live
<1>7. QED BY <1>1, <1>2, <1>4, <1>5, <1>6 DEF Follows, Abs!Next, Abs!Commit

\* The fee comes from an ordinary key, in the bank as in the working copy.
LEMMA BeginStep ==
  ASSUME AnchorInv, NEW S \in SUBSET Keys, NEW payer \in S,
         NEW mode \in {"send", "simulate"}, BeginTransaction(payer, S, mode)
  PROVE  Follows
<1> DEFINE fee  == FeePerSignature * Cardinality(S)
           paid == [bank EXCEPT ![payer] = WithLamports(@, bank[payer].lamports - fee)]
<1>1. fee \in Nat
  BY FeeType
<1>2. /\ tx.status = "idle" /\ bank[payer].lamports >= fee
      /\ working' = Purged(paid)
      /\ bank' = IF mode = "send" THEN Purged(paid) ELSE bank
      /\ tx' = [status |-> "running", mode |-> mode, signers |-> S, ixs |-> 0]
  BY DEF BeginTransaction
<1> HIDE DEF fee
<1>3. Sound(bank) /\ working = bank /\ tx.signers = {}
  BY <1>2 DEF AnchorInv, TypeOK, Sound, Idle
<1>4. /\ payer \in Addresses /\ payer # CounterPda
      /\ bank[payer].lamports - fee \in Nat
  BY <1>1, <1>2, <1>3, ConstantTypes, DataTypes DEF Addresses, Sound
<1>5. Sound(paid) /\ CounterOf(paid) = CounterOf(bank)
  BY <1>3, <1>4, SetLamports
<1> HIDE DEF paid
<1>6. Sound(Purged(paid)) /\ CounterOf(Purged(paid)) = CounterOf(bank)
  BY <1>5, PurgedKeeps
<1>7. /\ Sound(bank') /\ Sound(working')
      /\ CounterOf(bank') = CounterOf(bank) /\ CounterOf(working') = CounterOf(bank)
  BY <1>2, <1>3, <1>6
<1>8. TypeOK'
  <2>1. tx' \in TxRecord /\ tx'.status = "running" /\ tx'.signers # {}
    BY <1>2, FundsAssumption DEF TxRecord
  <2>2. QED BY <1>7, <2>1 DEF TypeOK, Sound
<1>9. Shape(bank)' /\ Shape(working)'
  BY <1>7 DEF Sound, Shape
<1>10. CounterOf(bank)' = CounterOf(bank) /\ CounterOf(working)' = CounterOf(working)
  BY <1>3, <1>7 DEF CounterOf, Live
<1>11. Abs!Begin(S)
  BY <1>2, <1>3, <1>10 DEF Abs!Begin
<1>12. QED BY <1>8, <1>9, <1>11 DEF Follows, Abs!Next

LEMMA SystemTransferStep ==
  ASSUME AnchorInv, NEW from \in Keys, NEW to \in Addresses,
         NEW n \in Amounts, SystemTransfer(from, to, n)
  PROVE  Follows
<1>1. Sound(working) /\ n \in Nat
  BY FundsAssumption DEF AnchorInv, TypeOK, Sound
<1>2. Sound(working') /\ CounterOf(working') = CounterOf(working)
  BY <1>1, TransferredKeeps DEF SystemTransfer, CanTransfer
<1>3. QED BY <1>2, QuietStep DEF SystemTransfer

LEMMA SystemCreateAccountStep ==
  ASSUME AnchorInv, NEW from \in Keys, NEW to \in Keys, NEW n \in Amounts,
         NEW space \in Lens, NEW owner \in Owners,
         SystemCreateAccount(from, to, n, space, owner)
  PROVE  Follows
<1> DEFINE r   == [lamports |-> n, owner |-> owner, len |-> space, data |-> ZeroData]
           mid == [working EXCEPT ![from] = WithLamports(@, working[from].lamports - n)]
<1>1. Sound(working) /\ n \in Nat
  BY FundsAssumption DEF AnchorInv, TypeOK, Sound
<1>2. /\ from \in Addresses /\ from # CounterPda
      /\ to \in Addresses \ {CounterPda}
  BY ConstantTypes DEF Addresses
<1>3. working[from].lamports - n \in Nat
  BY <1>1, <1>2, DataTypes
  DEF Sound, SystemCreateAccount, CreateAccountError, CanTransfer
<1>4. Sound(mid) /\ CounterOf(mid) = CounterOf(working)
  BY <1>1, <1>2, <1>3, SetLamports
<1>5. r \in Account /\ (r.owner = Program => r.data.tag = "none")
  BY <1>1, ConstantTypes DEF Account
<1>6. working' = [mid EXCEPT ![to] = r]
  BY DEF SystemCreateAccount, AccountCreated
<1> HIDE DEF mid, r
<1>7. Sound(working') /\ CounterOf(working') = CounterOf(working)
  BY <1>2, <1>4, <1>5, <1>6, PutElsewhere
<1>8. QED BY <1>7, QuietStep DEF SystemCreateAccount

LEMMA ForeignWriteStep ==
  ASSUME AnchorInv, NEW k \in Keys, NEW d \in ForeignData, ForeignWrite(k, d)
  PROVE  Follows
<1> DEFINE r == WithData(working[k], d)
<1>1. Sound(working) /\ k \in Addresses \ {CounterPda} /\ d \in Data
  BY ConstantTypes, DataAssumption DEF AnchorInv, TypeOK, Sound, Addresses
<1>2. r \in Account /\ r.owner = Other
  BY <1>1 DEF WithData, Account, Sound, ForeignWrite
<1>3. working' = [working EXCEPT ![k] = r]
  BY DEF ForeignWrite
<1> HIDE DEF r
<1>4. Sound(working') /\ CounterOf(working') = CounterOf(working)
  BY <1>1, <1>2, <1>3, OwnersDiffer, PutElsewhere
<1>5. QED BY <1>4, QuietStep DEF ForeignWrite

\* Writing the account at CounterPda itself.
LEMMA PutCounter ==
  ASSUME NEW accts, Sound(accts), NEW r \in Account,
         CounterOK(r), r.owner = Program
  PROVE  /\ Sound([accts EXCEPT ![CounterPda] = r])
         /\ CounterOf([accts EXCEPT ![CounterPda] = r])
              = [owner |-> r.data.authority, count |-> r.data.count]
<1> DEFINE new == [accts EXCEPT ![CounterPda] = r]
<1>1. /\ new \in [Addresses -> Account] /\ new[CounterPda] = r
      /\ \A a \in Addresses \ {CounterPda} : new[a] = accts[a]
  BY ConstantTypes DEF Sound
<1> HIDE DEF new
<1>2. Sound(new)
  BY <1>1 DEF Sound, Shape
<1>3. CounterOf(new) = [owner |-> r.data.authority, count |-> r.data.count]
  BY <1>1 DEF CounterOf, Live
<1>4. QED BY <1>2, <1>3 DEF new

\* `init` fills an account nobody owned, topped up to the rent and the
\* greeting, so the transaction claims the counter for its payer.
LEMMA InitializeStep ==
  ASSUME AnchorInv, NEW payer \in Addresses, NEW counter \in Addresses,
         NEW system \in {System, Other}, Initialize(payer, counter, system)
  PROVE  Follows
<1> DEFINE cost == Shortfall(CounterPda) + HELLO_WORLD_LAMPORTS
           held == working[CounterPda].lamports
           r    == [lamports |-> held + cost, owner |-> Program,
                    len |-> SPACE, data |-> NewCounter(payer)]
           mid  == [working EXCEPT ![payer] =
                      WithLamports(@, working[payer].lamports - cost)]
<1>1. /\ payer \in tx.signers /\ counter = CounterPda
      /\ Allocatable(CounterPda)
      /\ working[payer].lamports >= cost
  BY DEF Initialize, InitializeError, IsSigner, CanTransfer
<1>2. payer \in Keys /\ payer # CounterPda /\ Sound(working)
  BY <1>1, ConstantTypes DEF AnchorInv, TypeOK, TxRecord, Sound
<1>3. held \in Nat /\ working[payer].lamports \in Nat
  BY <1>2, ConstantTypes, DataTypes DEF Sound
<1>4. cost \in Nat /\ held + cost >= RentMin[SPACE] + HELLO_WORLD_LAMPORTS
  BY <1>3, ConstantTypes DEF Shortfall, HELLO_WORLD_LAMPORTS
<1>5. working' = [mid EXCEPT ![CounterPda] = r]
  BY <1>1, <1>2 DEF Initialize, Sound
<1>6. r \in Account
  BY <1>2, <1>3, <1>4, ConstantTypes, AnchorAssumption DEF Account
<1>7. CounterOK(r) /\ r.owner = Program
  BY <1>2, <1>4 DEF CounterOK, NewCounter
<1>8. r.data.authority = payer /\ r.data.count = 0
  BY DEF NewCounter
<1> HIDE DEF cost, held, r
<1>9. Sound(mid)
  <2>1. working[payer].lamports - cost \in Nat
    BY <1>1, <1>3, <1>4
  <2>2. QED BY <1>2, <2>1, SetLamports
<1> HIDE DEF mid
<1>10. Sound(working') /\ CounterOf(working') = [owner |-> payer, count |-> 0]
  BY <1>5, <1>6, <1>7, <1>8, <1>9, PutCounter
<1>11. CounterOf(working) = Abs!Unowned
  BY <1>1, OwnersDiffer DEF Allocatable, CounterOf, Live, Abs!Unowned
<1>12. QED BY <1>1, <1>2, <1>10, <1>11, CountingStep DEF Initialize

\* The constraints let only the stored authority count, and only below the
\* maximum.
LEMMA IncrementStep ==
  ASSUME AnchorInv, NEW counter \in Addresses, NEW authority \in Addresses,
         Increment(counter, authority)
  PROVE  Follows
<1> DEFINE acct == working[CounterPda]
           d    == [tag |-> acct.data.tag, count |-> acct.data.count + 1,
                    authority |-> acct.data.authority]
           r    == WithData(acct, d)
<1>1. /\ counter = CounterPda
      /\ acct.owner = Program /\ acct.data.tag = "Counter"
      /\ authority \in tx.signers /\ acct.data.authority = authority
      /\ acct.data.count < MAX_COUNT
  BY DEF Increment, IncrementError, IsCounterAccount, IsSigner, AtCounterPda,
         Authorized, BelowMaximum
<1>2. Sound(working) /\ acct \in Account /\ CounterOK(acct)
  BY ConstantTypes DEF AnchorInv, TypeOK, Sound, Shape
<1>3. d \in Data
  BY <1>1, <1>2, DataTypes, AnchorAssumption DEF CounterData
<1>4. r \in Account /\ r.owner = Program /\ r.data = d
  BY <1>1, <1>2, <1>3 DEF WithData, Account
<1>5. CounterOK(r)
  BY <1>1, <1>2, OwnersDiffer DEF CounterOK, WithData
<1>6. working' = [working EXCEPT ![CounterPda] = r]
  BY <1>1 DEF Increment, CountSetTo
<1>7. CounterOf(working) = [owner |-> authority, count |-> acct.data.count]
  BY <1>1 DEF CounterOf, Live
<1>8. r.data.authority = authority /\ r.data.count = acct.data.count + 1
  BY <1>1, <1>4
<1>9. acct.data.count < MAX_COUNT
  BY <1>1
<1> HIDE DEF d, r
<1>10. /\ Sound(working')
       /\ CounterOf(working') = [owner |-> authority, count |-> acct.data.count + 1]
  BY <1>2, <1>4, <1>5, <1>6, <1>8, PutCounter
<1>11. QED BY <1>1, <1>7, <1>9, <1>10, CountingStep DEF Increment

LEMMA NextStep ==
  ASSUME AnchorInv, [Next]_rtVars
  PROVE  Follows
<1>1. CASE \E payer, counter \in Addresses, system \in {System, Other} :
             Initialize(payer, counter, system)
  BY <1>1, InitializeStep
<1>2. CASE \E counter, authority \in Addresses : Increment(counter, authority)
  BY <1>2, IncrementStep
<1>3. CASE \/ UnknownInstruction \/ FailedInitialize \/ FailedIncrement
           \/ RentViolation \/ OtherFailure \/ EndSimulation
  <2>1. RollBack /\ tx.status = "running"
    BY <1>3 DEF UnknownInstruction, FailedInitialize, FailedIncrement,
                RentViolation, OtherFailure, EndSimulation, CanRunInstruction
  <2>2. QED BY <2>1, RollBackStep
<1>4. CASE \E S \in SUBSET Keys, mode \in {"send", "simulate"} :
             \E payer \in S : BeginTransaction(payer, S, mode)
  BY <1>4, BeginStep
<1>5. CASE \E from \in Keys, to \in Addresses, n \in Amounts :
             SystemTransfer(from, to, n)
  BY <1>5, SystemTransferStep
<1>6. CASE \E from \in Keys, to \in Keys, n \in Amounts, space \in Lens,
              owner \in Owners : SystemCreateAccount(from, to, n, space, owner)
  BY <1>6, SystemCreateAccountStep
<1>7. CASE \E a \in Keys, d \in ForeignData : ForeignWrite(a, d)
  BY <1>7, ForeignWriteStep
<1>8. CASE CommitTransaction
  BY <1>8, CommitStep
<1>9. CASE UNCHANGED rtVars
  BY <1>9 DEF rtVars, AnchorInv, TypeOK, Shape, Follows, Abs!absVars, CounterOf, Live
<1>10. QED
  BY <1>1, <1>2, <1>3, <1>4, <1>5, <1>6, <1>7, <1>8, <1>9
  DEF Next, ProgramInstruction, RuntimeNext

-----------------------------------------------------------------------------
(* The invariant. *)

\* Types that Later needs.
LEMMA CounterTypes ==
  ASSUME NEW accts, Sound(accts)
  PROVE  /\ CounterOf(accts).owner \in Keys \cup {System}
         /\ CounterOf(accts).count \in Nat
<1>1. /\ accts[CounterPda].data.authority \in Keys \cup {System}
      /\ accts[CounterPda].data.count \in Nat
  BY ConstantTypes, DataTypes, AnchorAssumption DEF Sound
<1>2. QED BY <1>1 DEF CounterOf

LEMMA InvInit == Init => AnchorInv /\ Abs!Init
<1> SUFFICES ASSUME Init PROVE AnchorInv /\ Abs!Init
  OBVIOUS
<1>1. /\ bank = [a \in Addresses |->
                   IF a \in Keys THEN WithLamports(Absent, Funding[a]) ELSE Absent]
      /\ working = bank /\ tx = Idle
  BY DEF Init, RuntimeInit
<1>2. ASSUME NEW a \in Addresses
      PROVE  bank[a] \in Account /\ bank[a].owner = System /\ bank[a].len = 0
  BY <1>1, ConstantTypes, FundsAssumption DEF WithLamports, Absent, Account
<1>3. bank \in [Addresses -> Account]
  BY <1>1, <1>2
<1>4. TypeOK
  BY <1>1, <1>3, ConstantTypes DEF TypeOK, Idle
<1>5. Shape(bank) /\ Shape(working)
  BY <1>1, <1>2, ConstantTypes, OwnersDiffer DEF Shape, CounterOK
<1>6. CounterOf(bank) = [owner |-> System, count |-> 0]
  BY <1>2, ConstantTypes, OwnersDiffer DEF CounterOf, Live
<1>7. QED
  BY <1>1, <1>4, <1>5, <1>6 DEF AnchorInv, Later, Abs!Init, Abs!Unowned, Idle

\* What the running transaction has made of the counter stays within what
\* GlobalCounterSpec lets its signers do.
LEMMA InvStep == AnchorInv /\ [Next]_rtVars => AnchorInv'
<1> SUFFICES ASSUME AnchorInv, [Next]_rtVars PROVE AnchorInv'
  OBVIOUS
<1>1. TypeOK' /\ Shape(bank)' /\ Shape(working)' /\ [Abs!Next]_Abs!absVars
  BY NextStep DEF Follows
<1> DEFINE c == CounterOf(bank)
           t == CounterOf(working)
<1>2. Sound(bank) /\ Sound(working)
  BY DEF AnchorInv, TypeOK, Sound
<1>3. /\ c.owner \in Keys \cup {System} /\ t.owner \in Keys \cup {System}
      /\ c.count \in Nat /\ t.count \in Nat
  BY <1>2, CounterTypes
<1>4. Later(c, t, tx.signers)
  BY DEF AnchorInv
<1>5. tx.signers = {} => t = c
  BY DEF AnchorInv, TypeOK, TxRecord
<1> HIDE DEF c, t
<1>6. Later(c', t', tx'.signers)
  <2>1. CASE \E S \in SUBSET Keys : Abs!Begin(S)
    BY <1>3, <1>5, <2>1 DEF Abs!Begin, Later, c, t
  <2>2. CASE \E u \in Keys : Abs!Claim(u)
    <3>1. t.owner = System /\ c' = c /\ tx'.signers = tx.signers
      BY <2>2 DEF Abs!Claim, Abs!Unowned, c, t
    <3>2. QED BY <1>4, <3>1 DEF Later
  <2>3. CASE Abs!CountUp
    <3>1. /\ t.owner \in tx.signers /\ c' = c /\ tx'.signers = tx.signers
          /\ t' = [owner |-> t.owner, count |-> t.count + 1]
      BY <2>3 DEF Abs!CountUp, c, t
    <3>2. QED BY <1>3, <1>4, <3>1 DEF Later
  <2>4. CASE Abs!Commit \/ Abs!Abort
    <3>1. c' = t'
      BY <2>4 DEF Abs!Commit, Abs!Abort, c, t
    <3>2. t'.count \in Int
      BY <1>3, <2>4 DEF Abs!Commit, Abs!Abort, c, t
    <3>3. QED BY <3>1, <3>2 DEF Later
  <2>5. CASE UNCHANGED Abs!absVars
    BY <1>4, <2>5 DEF Abs!absVars, c, t
  <2>6. QED BY <1>1, <2>1, <2>2, <2>3, <2>4, <2>5 DEF Abs!Next
<1>7. Later(CounterOf(bank), CounterOf(working), tx.signers)'
  BY <1>6 DEF c, t, Later
<1>8. QED BY <1>1, <1>7 DEF AnchorInv

\* In every reachable state the program's accounts have the shape of one
\* counter and a transaction has only done what its signers may do.
THEOREM AnchorInvariant == Spec => []AnchorInv
<1>1. Init => AnchorInv
  BY InvInit
<1>2. AnchorInv /\ [Next]_rtVars => AnchorInv'
  BY InvStep
<1>3. QED BY <1>1, <1>2, PTL DEF Spec

\* The records of accounts and transaction keep their types, and between
\* transactions the working copy is the bank.
THEOREM TypeCorrect == Spec => []TypeOK
<1>1. AnchorInv => TypeOK
  BY DEF AnchorInv
<1>2. QED BY <1>1, AnchorInvariant, PTL

\* No other account of the program ever reads as a counter, and the one at
\* CounterPda has a key for its authority and is paid for.
THEOREM OneCounter == Spec => []SingleFundedCounter
<1>1. AnchorInv => SingleFundedCounter
  <2> SUFFICES ASSUME AnchorInv PROVE SingleFundedCounter
    OBVIOUS
  <2>1. \A a \in Addresses : IsCounterAccount(a) => a = CounterPda
    BY DEF AnchorInv, Shape, IsCounterAccount
  <2>2. Live(working, CounterPda) =>
          /\ IsCounterAccount(CounterPda)
          /\ working[CounterPda].data.authority \in Keys
          /\ working[CounterPda].lamports >= RentMin[SPACE] + HELLO_WORLD_LAMPORTS
    BY OwnersDiffer DEF AnchorInv, Shape, CounterOK, Live, IsCounterAccount
  <2>3. QED BY <2>1, <2>2 DEF SingleFundedCounter
<1>2. QED BY <1>1, AnchorInvariant, PTL

\* Lamports sent to the address of the counter beforehand never keep anybody
\* from initializing it.
THEOREM NeverLockedOut == Spec => []InitializableUntilOwned
<1>1. AnchorInv => InitializableUntilOwned
  <2> SUFFICES ASSUME AnchorInv, NEW u \in tx.signers,
                      ~Live(working, CounterPda),
                      CanTransfer(u, RentMin[SPACE] + HELLO_WORLD_LAMPORTS)
               PROVE  InitializeError(u, CounterPda, System) = "Ok"
    BY DEF InitializableUntilOwned
  <2>1. u \in Keys /\ u \in Addresses /\ Sound(working)
    BY DEF AnchorInv, TypeOK, TxRecord, Sound, Addresses
  <2>2. Allocatable(CounterPda)
    BY <2>1 DEF Sound, Shape, CounterOK, Live, Allocatable
  <2>3. /\ working[u].lamports \in Nat /\ working[CounterPda].lamports \in Nat
    BY <2>1, ConstantTypes, DataTypes DEF Sound
  <2>4. Shortfall(CounterPda) \in Nat /\ Shortfall(CounterPda) <= RentMin[SPACE]
    BY <2>3, ConstantTypes DEF Shortfall
  <2>5. CanTransfer(u, Shortfall(CounterPda) + HELLO_WORLD_LAMPORTS)
    BY <2>3, <2>4, ConstantTypes DEF CanTransfer, HELLO_WORLD_LAMPORTS
  <2>6. QED BY <2>2, <2>5 DEF InitializeError, IsSigner
<1>2. QED BY <1>1, AnchorInvariant, PTL

\* Whoever initialized the counter first owns it in every later bank; it only
\* goes up, and only in transactions its owner signed.
THEOREM FirstOwnerStays == Spec => FirstOwnerForGood
<1>1. ASSUME AnchorInv, AnchorInv', [Next]_rtVars
      PROVE  Live(bank, CounterPda) =>
               LET before == bank[CounterPda].data
                   after  == bank'[CounterPda].data
               IN  /\ Live(bank', CounterPda)
                   /\ after.authority = before.authority
                   /\ after.count >= before.count
                   /\ after.count # before.count => before.authority \in tx.signers
  <2> DEFINE c == CounterOf(bank)
             n == CounterOf(bank')
             t == CounterOf(working)
  <2>1. [Abs!Next]_Abs!absVars
    BY <1>1, NextStep DEF Follows
  <2>2. n = CounterOf(bank)'
    BY DEF CounterOf, Live
  <2>3. Sound(bank) /\ Sound(bank')
    BY <1>1 DEF AnchorInv, TypeOK, Sound, Shape
  <2>4. n = c \/ n = t
    BY <2>1, <2>2 DEF Abs!Next, Abs!Begin, Abs!Claim, Abs!CountUp, Abs!Commit,
                      Abs!Abort, Abs!absVars
  <2>5. c.count \in Nat
    BY <2>3, CounterTypes
  <2>6. Later(c, t, tx.signers)
    BY <1>1 DEF AnchorInv
  <2> HIDE DEF c, n, t
  <2>7. c.owner # System => /\ n.owner = c.owner /\ n.count >= c.count
                            /\ n.count # c.count => c.owner \in tx.signers
    BY <2>4, <2>5, <2>6 DEF Later
  <2>8. /\ Live(bank, CounterPda)
             => /\ c.owner # System
                /\ c.owner = bank[CounterPda].data.authority
                /\ c.count = bank[CounterPda].data.count
        /\ n.owner # System
             => /\ Live(bank', CounterPda)
                /\ n.owner = bank'[CounterPda].data.authority
                /\ n.count = bank'[CounterPda].data.count
    BY <2>3, OwnedIsLive DEF Sound, c, n
  <2>9. QED BY <2>7, <2>8
<1>2. QED BY <1>1, AnchorInvariant, PTL DEF Spec, FirstOwnerForGood

\* With accounts, rent and fees hidden, every behaviour of the program is one
\* of the single counter of GlobalCounterSpec.
THEOREM Refinement == Spec => RefinesGlobalCounterSpec
<1>1. Init => Abs!Init
  BY InvInit
<1>2. AnchorInv /\ [Next]_rtVars => [Abs!Next]_Abs!absVars
  BY NextStep DEF Follows
<1>3. QED
  BY <1>1, <1>2, AnchorInvariant, PTL DEF Spec, Abs!Spec, RefinesGlobalCounterSpec

=============================================================================
