------------------------ MODULE CounterProgramProofs ------------------------
(***************************************************************************)
(* Theorems about CounterProgram, for every set of keys, derivation        *)
(* function, rent schedule and bound.                                      *)
(***************************************************************************)
EXTENDS CounterProgram, FiniteSetTheorems, TLAPS

-----------------------------------------------------------------------------
(* Addresses. *)

\* find_program_address returns an address off the curve, made from the
\* highest bump that gives one, and no other bump is that bump.
LEMMA CanonicalAddress ==
  ASSUME NEW u \in Keys
  PROVE  /\ CanonicalBump(u) \in Bumps
         /\ IsCanonical(u, CanonicalBump(u))
         /\ FindProgramAddress(u) \in Pdas
         /\ \A b \in Bumps : IsCanonical(u, b) => b = CanonicalBump(u)
<1>1. \E b \in Bumps : IsCanonical(u, b)
  BY CanonicalExists
<1>2. CanonicalBump(u) \in Bumps /\ IsCanonical(u, CanonicalBump(u))
  BY <1>1 DEF CanonicalBump
<1>3. FindProgramAddress(u) \in Pdas
  <2>1. Derive[u][CanonicalBump(u)] \in Pdas \cup {OnCurve}
    BY <1>2, DeriveType
  <2>2. QED BY <2>1, <1>2 DEF FindProgramAddress, IsCanonical
<1>4. \A b \in Bumps : IsCanonical(u, b) => b = CanonicalBump(u)
  <2>1. SUFFICES ASSUME NEW b \in Bumps, IsCanonical(u, b)
                 PROVE  b = CanonicalBump(u)
    OBVIOUS
  <2>2. b <= CanonicalBump(u) /\ CanonicalBump(u) <= b
    BY <1>2, <2>1 DEF IsCanonical
  <2>3. b \in Int /\ CanonicalBump(u) \in Int
    <3>1. Bumps \subseteq Int
      BY BumpsAssumption
    <3>2. QED BY <1>2, <3>1
  <2>4. QED BY <2>2, <2>3
<1>5. QED BY <1>2, <1>3, <1>4

\* Two users never share a counter address.
LEMMA AddressesDiffer ==
  ASSUME NEW u \in Keys, NEW v \in Keys,
         FindProgramAddress(u) = FindProgramAddress(v)
  PROVE  u = v
<1>1. /\ CanonicalBump(u) \in Bumps
      /\ CanonicalBump(v) \in Bumps
      /\ Derive[u][CanonicalBump(u)] # OnCurve
  BY CanonicalAddress DEF IsCanonical
<1>2. Derive[u][CanonicalBump(u)] = Derive[v][CanonicalBump(v)]
  BY DEF FindProgramAddress
<1>3. QED BY <1>1, <1>2, NoCollisions

-----------------------------------------------------------------------------
(* Type correctness. *)

LEMMA ConstantTypes ==
  /\ COUNTER_LEN \in Lens /\ 0 \in Lens
  /\ COUNTER_LEN \in Nat /\ COUNTER_LEN # 0
  /\ \A l \in Lens : RentMin[l] \in Nat /\ RentMin[l] > 0
  /\ System \in Owners /\ Program \in Owners /\ Other \in Owners
  /\ ZeroData \in Data
  /\ Absent \in Account
  /\ Idle \in TxRecord
  /\ \A u \in Keys : NewCounter(u) \in Data
<1>1. \A u \in Keys : NewCounter(u) \in Data
  BY CanonicalAddress, LayoutAssumption DEF NewCounter, CounterData
<1>2. QED
  BY <1>1, RentAssumption, DataAssumption, FundsAssumption, LayoutAssumption
  DEF COUNTER_LEN, Owners, Absent, Account, Idle, TxRecord

LEMMA FeeType ==
  ASSUME NEW S \in SUBSET Keys
  PROVE  FeePerSignature * Cardinality(S) \in Nat
<1>1. Cardinality(S) \in Nat
  BY FS_Subset, FS_CardinalityType, KeysAssumption
<1>2. QED BY <1>1, FundsAssumption

LEMMA TransferType ==
  ASSUME NEW accts \in [Addresses -> Account],
         NEW from \in Addresses, NEW to \in Addresses, from # to,
         NEW n \in Nat, accts[from].lamports >= n
  PROVE  Transferred(accts, from, to, n) \in [Addresses -> Account]
<1>1. /\ accts[from].lamports - n \in Nat
      /\ accts[to].lamports + n \in Nat
  BY DEF Account
<1>2. \A a \in Addresses : Transferred(accts, from, to, n)[a] \in Account
  <2>1. SUFFICES ASSUME NEW a \in Addresses
                 PROVE  Transferred(accts, from, to, n)[a] \in Account
    OBVIOUS
  <2>2. CASE a = from
    BY <1>1, <2>2 DEF Transferred, WithLamports, Account
  <2>3. CASE a = to
    BY <1>1, <2>3 DEF Transferred, WithLamports, Account
  <2>4. CASE a # from /\ a # to
    BY <2>4 DEF Transferred
  <2>5. QED BY <2>2, <2>3, <2>4
<1>3. QED BY <1>2 DEF Transferred

LEMMA PurgedType ==
  ASSUME NEW accts \in [Addresses -> Account]
  PROVE  Purged(accts) \in [Addresses -> Account]
BY ConstantTypes DEF Purged

-----------------------------------------------------------------------------
(* What the operators on accounts do to the PDAs. *)

\* What the instructions of a transaction signed by S may make of `old`.
StepOK(old, new, S) ==
  /\ new \in [Addresses -> Account]
  /\ Shape(new)
  /\ Later(old, new, S)

LEMMA DataTypes ==
  ASSUME NEW acct \in Account
  PROVE  /\ acct.lamports \in Nat
         /\ acct.data.count \in 0 .. MaxU64
         /\ acct.data.bump \in Bumps
         /\ acct.data.authority \in Keys \cup {System}
BY LayoutAssumption DEF Account, CounterData

LEMMA FollowsReflexive ==
  ASSUME NEW acct \in Account, NEW S, acct.owner = Program
  PROVE  Follows(acct, acct, S)
BY DataTypes DEF Follows

LEMMA StepReflexive ==
  ASSUME NEW accts \in [Addresses -> Account], Shape(accts), NEW S
  PROVE  StepOK(accts, accts, S)
<1>1. \A p \in Pdas : p \in Addresses
  BY DEF Addresses
<1>2. QED BY <1>1, FollowsReflexive DEF StepOK, Later, Live

LEMMA StepTransitive ==
  ASSUME NEW a1 \in [Addresses -> Account],
         NEW a2 \in [Addresses -> Account],
         NEW a3, NEW S, Later(a1, a2, S), StepOK(a2, a3, S)
  PROVE  StepOK(a1, a3, S)
<1>1. a3 \in [Addresses -> Account]
  BY DEF StepOK
<1>2. ASSUME NEW p \in Pdas, a1[p].owner = Program
      PROVE  Follows(a1[p], a3[p], S)
  <2>1. Follows(a1[p], a2[p], S) /\ Follows(a2[p], a3[p], S)
    BY <1>2 DEF Later, Live, Follows, StepOK
  <2>2. a1[p] \in Account /\ a2[p] \in Account /\ a3[p] \in Account
    BY <1>1 DEF Addresses
  <2>3. /\ a1[p].lamports \in Int /\ a2[p].lamports \in Int
        /\ a3[p].lamports \in Int /\ a1[p].data.count \in Int
        /\ a2[p].data.count \in Int /\ a3[p].data.count \in Int
    BY <2>2, DataTypes, LayoutAssumption
  <2>4. QED BY <2>1, <2>3 DEF Follows
<1>3. QED BY <1>1, <1>2 DEF StepOK, Later, Live

\* No account with lamports is lost at the commit, and a counter has some.
LEMMA PurgedKeeps ==
  ASSUME NEW accts \in [Addresses -> Account], Shape(accts)
  PROVE  /\ Shape(Purged(accts))
         /\ \A p \in Pdas : accts[p].owner = Program
              => Purged(accts)[p] = accts[p]
         /\ \A p \in Pdas : Purged(accts)[p].owner = Program
              => accts[p].owner = Program
<1>1. Absent.owner = System /\ Absent.len = 0 /\ Absent.data = ZeroData
  BY DEF Absent
<1>2. ASSUME NEW p \in Pdas
      PROVE  /\ PdaOK(Purged(accts)[p], p)
             /\ accts[p].owner = Program => Purged(accts)[p] = accts[p]
             /\ Purged(accts)[p].owner = Program => accts[p].owner = Program
  <2>1. p \in Addresses
    BY DEF Addresses
  <2>2. CASE accts[p].lamports = 0
    <3>1. Purged(accts)[p] = Absent
      BY <2>1, <2>2 DEF Purged
    <3>2. accts[p].owner # Program
      <4>1. PdaOK(accts[p], p) /\ RentMin[COUNTER_LEN] > 0
            /\ RentMin[COUNTER_LEN] \in Nat
        BY ConstantTypes DEF Shape
      <4>2. QED BY <4>1, <2>2, OwnersDiffer DEF PdaOK
    <3>3. QED BY <3>1, <3>2, <1>1, OwnersDiffer DEF PdaOK
  <2>3. CASE accts[p].lamports # 0
    BY <2>1, <2>3 DEF Purged, Shape
  <2>4. QED BY <2>2, <2>3
<1>3. ASSUME NEW k \in Keys PROVE KeyOK(Purged(accts)[k])
  <2>1. k \in Addresses
    BY DEF Addresses
  <2>2. CASE accts[k].lamports = 0
    BY <2>1, <2>2, <1>1, OwnersDiffer DEF Purged, KeyOK
  <2>3. CASE accts[k].lamports # 0
    BY <2>1, <2>3 DEF Purged, Shape
  <2>4. QED BY <2>2, <2>3
<1>4. QED BY <1>2, <1>3 DEF Shape

\* Writing into the account of an ordinary key concerns no counter.
LEMMA PutKey ==
  ASSUME NEW accts \in [Addresses -> Account], Shape(accts), NEW S,
         NEW k \in Keys, NEW r \in Account, KeyOK(r)
  PROVE  StepOK(accts, [accts EXCEPT ![k] = r], S)
<1> DEFINE new == [accts EXCEPT ![k] = r]
<1>1. k \in Addresses /\ k \notin Pdas
  BY KeysAssumption DEF Addresses
<1>2. new \in [Addresses -> Account]
  BY <1>1
<1>3. \A p \in Pdas : new[p] = accts[p]
  BY <1>1 DEF Addresses
<1>4. \A l \in Keys : KeyOK(new[l])
  BY <1>1 DEF Shape, Addresses
<1>5. Shape(new)
  BY <1>3, <1>4 DEF Shape
<1>6. Later(accts, new, S)
  BY <1>3, StepReflexive DEF Later, Live, StepOK
<1>7. QED BY <1>2, <1>5, <1>6 DEF StepOK

\* Writing into the account of a PDA.
LEMMA PutPda ==
  ASSUME NEW accts \in [Addresses -> Account], Shape(accts), NEW S,
         NEW p \in Pdas, NEW r \in Account, PdaOK(r, p),
         accts[p].owner = Program => Follows(accts[p], r, S)
  PROVE  StepOK(accts, [accts EXCEPT ![p] = r], S)
<1> DEFINE new == [accts EXCEPT ![p] = r]
<1>1. p \in Addresses /\ p \notin Keys
  BY KeysAssumption DEF Addresses
<1>2. new \in [Addresses -> Account]
  BY <1>1
<1>3. new[p] = r /\ \A q \in Addresses : q # p => new[q] = accts[q]
  BY <1>1
<1>4. Shape(new)
  BY <1>1, <1>3 DEF Shape, Addresses
<1>5. Later(accts, new, S)
  <2>1. Later(accts, accts, S)
    BY StepReflexive DEF StepOK
  <2>2. QED BY <1>3, <2>1 DEF Later, Live, Addresses
<1>6. QED BY <1>2, <1>4, <1>5 DEF StepOK

\* Lamports sent to any address leave a counter a counter.
LEMMA Credit ==
  ASSUME NEW accts \in [Addresses -> Account], Shape(accts), NEW S,
         NEW a \in Addresses, NEW n \in Nat
  PROVE  StepOK(accts,
                [accts EXCEPT ![a] = WithLamports(@, @.lamports + n)], S)
<1> DEFINE r == WithLamports(accts[a], accts[a].lamports + n)
<1>1. /\ r \in Account
      /\ r.owner = accts[a].owner /\ r.len = accts[a].len
      /\ r.data = accts[a].data /\ r.lamports = accts[a].lamports + n
  BY DEF WithLamports, Account
<1>2. /\ accts[a].lamports \in Nat /\ r.lamports >= accts[a].lamports
      /\ RentMin[COUNTER_LEN] \in Nat
  BY <1>1, DataTypes, ConstantTypes
<1>3. CASE a \in Keys
  <2>1. KeyOK(r)
    BY <1>1, <1>3 DEF KeyOK, Shape
  <2>2. QED BY <1>1, <1>3, <2>1, PutKey
<1>4. CASE a \in Pdas
  <2>1. PdaOK(r, a)
    <3>1. PdaOK(accts[a], a)
      BY <1>4 DEF Shape
    <3>2. QED BY <1>1, <1>2, <3>1 DEF PdaOK
  <2>2. accts[a].owner = Program => Follows(accts[a], r, S)
    BY <1>1, <1>2, FollowsReflexive DEF Follows
  <2>3. QED BY <1>1, <1>4, <2>1, <2>2, PutPda
<1>5. QED BY <1>3, <1>4 DEF Addresses

\* Lamports are only ever taken from an ordinary key.
LEMMA Debit ==
  ASSUME NEW accts \in [Addresses -> Account], Shape(accts), NEW S,
         NEW k \in Keys, NEW n \in Nat, accts[k].lamports >= n
  PROVE  StepOK(accts,
                [accts EXCEPT ![k] = WithLamports(@, @.lamports - n)], S)
<1> DEFINE r == WithLamports(accts[k], accts[k].lamports - n)
<1>1. k \in Addresses
  BY DEF Addresses
<1>2. r \in Account /\ r.owner = accts[k].owner /\ r.data = accts[k].data
  BY <1>1 DEF WithLamports, Account
<1>3. KeyOK(r)
  BY <1>2 DEF KeyOK, Shape
<1>4. QED BY <1>2, <1>3, PutKey

-----------------------------------------------------------------------------
(* Each kind of step preserves the invariant. *)

LEMMA InstructionStep ==
  ASSUME CounterInv, CanRunInstruction, InstructionDone, UNCHANGED bank,
         StepOK(working, working', tx.signers)
  PROVE  CounterInv'
<1>1. /\ tx \in TxRecord /\ tx.status = "running" /\ tx.ixs < MaxIxs
      /\ bank \in [Addresses -> Account] /\ working \in [Addresses -> Account]
      /\ Later(bank, working, tx.signers) /\ Shape(bank)
  BY DEF CounterInv, TypeOK, CanRunInstruction
<1>2. /\ tx' \in TxRecord /\ tx'.status = "running"
      /\ tx'.signers = tx.signers /\ tx'.signers # {}
  BY <1>1, FundsAssumption DEF CounterInv, TypeOK, InstructionDone, TxRecord
<1>3. StepOK(bank, working', tx.signers)
  BY <1>1, StepTransitive
<1>4. TypeOK'
  BY <1>1, <1>2, <1>3 DEF TypeOK, StepOK
<1>5. /\ Shape(bank)' /\ Shape(working)'
      /\ Later(bank, working, tx.signers)'
  BY <1>1, <1>2, <1>3 DEF StepOK, Shape, Later, Live
<1>6. QED BY <1>4, <1>5 DEF CounterInv

\* The transaction ends: the working copy is the bank again.
LEMMA IdleStep ==
  ASSUME bank' \in [Addresses -> Account], Shape(bank'),
         working' = bank', tx' = Idle
  PROVE  CounterInv'
<1>1. StepOK(bank', bank', tx'.signers)
  BY StepReflexive
<1>2. TypeOK'
  BY ConstantTypes DEF TypeOK, Idle
<1>3. /\ Shape(bank)' /\ Shape(working)'
      /\ Later(bank, working, tx.signers)'
  BY <1>1 DEF StepOK, Shape, Later, Live
<1>4. QED BY <1>2, <1>3 DEF CounterInv

LEMMA RollBackStep ==
  ASSUME CounterInv, RollBack
  PROVE  CounterInv'
BY IdleStep DEF RollBack, CounterInv, TypeOK

LEMMA TransferredOK ==
  ASSUME NEW accts \in [Addresses -> Account], Shape(accts), NEW S,
         NEW from \in Keys, NEW to \in Addresses, from # to,
         NEW n \in Nat, accts[from].lamports >= n
  PROVE  StepOK(accts, Transferred(accts, from, to, n), S)
<1> DEFINE mid == [accts EXCEPT ![from] = WithLamports(@, @.lamports - n)]
           new == [mid EXCEPT ![to] = WithLamports(@, @.lamports + n)]
<1>1. StepOK(accts, mid, S)
  BY Debit
<1>2. StepOK(mid, new, S)
  BY <1>1, Credit DEF StepOK
<1>3. new = Transferred(accts, from, to, n)
  <2>1. from \in Addresses /\ mid[to] = accts[to]
    BY DEF Addresses
  <2>2. new = [mid EXCEPT ![to] =
                 WithLamports(accts[to], accts[to].lamports + n)]
    BY <2>1
  <2>3. QED BY <2>1, <2>2 DEF Transferred
<1>4. mid \in [Addresses -> Account] /\ Later(accts, mid, S)
  BY <1>1 DEF StepOK
<1> HIDE DEF mid, new
<1>5. StepOK(accts, new, S)
  BY <1>2, <1>4, StepTransitive
<1>6. QED BY <1>3, <1>5

LEMMA SystemTransferStep ==
  ASSUME CounterInv, NEW from \in Keys, NEW to \in Addresses,
         NEW n \in Amounts, SystemTransfer(from, to, n)
  PROVE  CounterInv'
<1>1. n \in Nat
  BY FundsAssumption
<1>2. StepOK(working, working', tx.signers)
  BY <1>1, TransferredOK DEF SystemTransfer, CanTransfer, CounterInv, TypeOK
<1>3. QED BY <1>2, InstructionStep DEF SystemTransfer

\* Creating an account at an ordinary key.
LEMMA SystemCreateAccountStep ==
  ASSUME CounterInv, NEW from \in Keys, NEW to \in Keys, NEW n \in Amounts,
         NEW space \in Lens, NEW owner \in Owners,
         SystemCreateAccount(from, to, n, space, owner)
  PROVE  CounterInv'
<1> DEFINE r   == [lamports |-> n, owner |-> owner,
                   len |-> space, data |-> ZeroData]
           mid == [working EXCEPT ![from] = WithLamports(@, @.lamports - n)]
           new == [mid EXCEPT ![to] = r]
<1>1. n \in Nat /\ working[from].lamports >= n
  BY FundsAssumption DEF SystemCreateAccount, CreateAccountError, CanTransfer
<1>2. working \in [Addresses -> Account] /\ Shape(working)
  BY DEF CounterInv, TypeOK
<1>3. StepOK(working, mid, tx.signers)
  BY <1>1, <1>2, Debit
<1>4. r \in Account /\ KeyOK(r)
  BY <1>1, DataAssumption DEF Account, KeyOK
<1>5. StepOK(mid, new, tx.signers)
  BY <1>3, <1>4, PutKey DEF StepOK
<1>6. working' = new
  BY DEF SystemCreateAccount, AccountCreated
<1>7. StepOK(working, working', tx.signers)
  BY <1>2, <1>3, <1>5, <1>6, StepTransitive DEF StepOK
<1>8. QED BY <1>7, InstructionStep DEF SystemCreateAccount

LEMMA ForeignWriteStep ==
  ASSUME CounterInv, NEW k \in Keys, NEW d \in ForeignData,
         ForeignWrite(k, d)
  PROVE  CounterInv'
<1> DEFINE r == WithData(working[k], d)
<1>1. k \in Addresses /\ working[k] \in Account /\ d \in Data
  BY DataAssumption DEF CounterInv, TypeOK, Addresses
<1>2. r \in Account
  BY <1>1 DEF WithData, Account
<1>3. KeyOK(r)
  BY OwnersDiffer DEF KeyOK, WithData, ForeignWrite
<1>4. StepOK(working, working', tx.signers)
  BY <1>2, <1>3, PutKey DEF ForeignWrite, CounterInv, TypeOK
<1>5. QED BY <1>4, InstructionStep DEF ForeignWrite

\* create_account refuses a PDA that is anything but absent, so the account
\* initialize fills is new.
LEMMA InitializeStep ==
  ASSUME CounterInv, NEW user \in Addresses, NEW counter \in Addresses,
         NEW system \in {System, Other}, Initialize(user, counter, system)
  PROVE  CounterInv'
<1> DEFINE n   == InitialLamports
           r   == [lamports |-> n, owner |-> Program,
                   len |-> COUNTER_LEN, data |-> NewCounter(user)]
           mid == [working EXCEPT ![user] = WithLamports(@, @.lamports - n)]
           new == [mid EXCEPT ![counter] = r]
<1>1. /\ user \in tx.signers
      /\ FindProgramAddress(user) = counter
      /\ CreateAccountError(user, counter, n) = "Ok"
  BY DEF Initialize, InitializeError, Unsigned, IsSigner
<1>2. /\ ~InUse(counter) /\ working[user].lamports >= n
  BY <1>1 DEF CreateAccountError, CanTransfer
<1>3. user \in Keys
  BY <1>1 DEF CounterInv, TypeOK, TxRecord
<1>4. counter \in Pdas /\ counter # user
  BY <1>1, <1>3, CanonicalAddress, KeysAssumption
<1>5. n \in Nat /\ n = RentMin[COUNTER_LEN]
  BY ConstantTypes DEF InitialLamports
<1>6. working \in [Addresses -> Account] /\ Shape(working)
  BY DEF CounterInv, TypeOK
<1>7. StepOK(working, mid, tx.signers)
  BY <1>2, <1>3, <1>5, <1>6, Debit
<1>8. r \in Account
  BY <1>3, <1>5, ConstantTypes DEF Account
<1>9. PdaOK(r, counter)
  <2>1. /\ r.owner = Program /\ r.len = COUNTER_LEN
        /\ r.lamports >= RentMin[COUNTER_LEN]
        /\ r.data.authority = user /\ r.data.bump = CanonicalBump(user)
    BY <1>5 DEF NewCounter
  <2>2. /\ IsCanonical(user, CanonicalBump(user))
        /\ Derive[user][CanonicalBump(user)] = counter
    BY <1>1, <1>3, CanonicalAddress DEF FindProgramAddress
  <2>3. QED BY <1>3, <2>1, <2>2 DEF PdaOK
<1>10. mid[counter].owner # Program
  BY <1>2, <1>4, <1>6, OwnersDiffer DEF InUse
<1>11. StepOK(mid, new, tx.signers)
  BY <1>4, <1>7, <1>8, <1>9, <1>10, PutPda DEF StepOK
<1>12. working' = new
  BY DEF Initialize, AccountCreated
<1>13. StepOK(working, working', tx.signers)
  BY <1>6, <1>7, <1>11, <1>12, StepTransitive DEF StepOK
<1>14. QED BY <1>13, InstructionStep DEF Initialize

LEMMA IncrementStep ==
  ASSUME CounterInv, NEW user \in Addresses, NEW counter \in Addresses,
         NEW by \in 0 .. MaxU64, Increment(user, counter, by)
  PROVE  CounterInv'
<1> DEFINE acct == working[counter]
           d == [count |-> acct.data.count + by,
                 authority |-> acct.data.authority, bump |-> acct.data.bump]
           r == WithData(acct, d)
<1>1. /\ user \in tx.signers /\ acct.owner = Program
      /\ acct.len = COUNTER_LEN /\ acct.data.authority = user
      /\ ~(acct.data.count + by > MaxU64)
  BY DEF Increment, IncrementError, Unsigned, IsSigner, OwnedByProgram,
         StoredAuthorityIs, Overflows
<1>2. user \in Keys
  BY <1>1 DEF CounterInv, TypeOK, TxRecord
<1>3. working \in [Addresses -> Account] /\ Shape(working) /\ acct \in Account
  BY DEF CounterInv, TypeOK
<1>4. counter \in Pdas
  <2>1. acct.data # ZeroData
    <3>1. ZeroData.authority = System
      BY LayoutAssumption
    <3>2. System \notin Keys
      BY KeysAssumption DEF Addresses
    <3>3. QED BY <1>1, <1>2, <3>1, <3>2
  <2>2. counter \notin Keys
    BY <1>1, <1>3, <2>1 DEF Shape, KeyOK
  <2>3. QED BY <2>2 DEF Addresses
<1>5. d \in Data /\ d.count >= acct.data.count
  BY <1>1, <1>3, DataTypes, LayoutAssumption DEF CounterData
<1>6. r \in Account
  BY <1>3, <1>5 DEF WithData, Account
<1>7. /\ r.owner = acct.owner /\ r.len = acct.len
      /\ r.lamports = acct.lamports /\ r.data = d
  BY DEF WithData
<1>8. PdaOK(r, counter)
  <2>1. PdaOK(acct, counter) /\ acct.owner # System
    BY <1>1, <1>3, <1>4, OwnersDiffer DEF Shape
  <2>2. d.authority = acct.data.authority /\ d.bump = acct.data.bump
    OBVIOUS
  <2>3. QED BY <1>7, <2>1, <2>2 DEF PdaOK
<1>9. Follows(acct, r, tx.signers)
  BY <1>1, <1>3, <1>5, <1>7, DataTypes DEF Follows
<1>10. StepOK(working, working', tx.signers)
  <2>1. working' = [working EXCEPT ![counter] = r]
    BY DEF Increment, CountSetTo
  <2>2. QED BY <1>3, <1>4, <1>6, <1>8, <1>9, <2>1, PutPda
<1>11. QED BY <1>10, InstructionStep DEF Increment

\* The fee comes from an ordinary key and concerns no counter, in the bank as
\* in the working copy.
LEMMA BeginStep ==
  ASSUME CounterInv, NEW S \in SUBSET Keys, NEW payer \in S,
         NEW mode \in {"send", "simulate"}, BeginTransaction(payer, S, mode)
  PROVE  /\ CounterInv'
         /\ \A p \in Pdas : Live(bank, p) => bank'[p] = bank[p]
<1> DEFINE fee  == FeePerSignature * Cardinality(S)
           paid == [bank EXCEPT ![payer] = WithLamports(@, @.lamports - fee)]
<1>1. fee \in Nat
  BY FeeType
<1>2. bank \in [Addresses -> Account] /\ Shape(bank)
  BY DEF CounterInv, TypeOK
<1>3. /\ bank[payer].lamports >= fee
      /\ working' = Purged(paid)
      /\ bank' = IF mode = "send" THEN Purged(paid) ELSE bank
      /\ tx' = [status |-> "running", mode |-> mode, signers |-> S, ixs |-> 0]
  BY DEF BeginTransaction
<1> HIDE DEF fee
<1>4. StepOK(bank, paid, S)
  BY <1>1, <1>2, <1>3, Debit
<1>5. /\ Shape(Purged(paid))
      /\ Purged(paid) \in [Addresses -> Account]
      /\ \A p \in Pdas : paid[p].owner = Program => Purged(paid)[p] = paid[p]
  BY <1>4, PurgedKeeps, PurgedType DEF StepOK
<1>6. \A p \in Pdas : p \in Addresses /\ paid[p] = bank[p]
  BY <1>2, KeysAssumption DEF Addresses
<1>7. \A p \in Pdas : Live(bank, p) => Purged(paid)[p] = bank[p]
  BY <1>5, <1>6 DEF Live
<1>8. Later(bank, Purged(paid), S) /\ Later(Purged(paid), Purged(paid), S)
  <2>1. Later(bank, bank, S) /\ Later(Purged(paid), Purged(paid), S)
    BY <1>2, <1>5, StepReflexive DEF StepOK
  <2>2. QED BY <1>7, <2>1 DEF Later, Live
<1>9. tx' \in TxRecord /\ tx'.status = "running" /\ tx'.signers = S
  BY <1>3, FundsAssumption DEF TxRecord
<1>10. TypeOK'
  BY <1>2, <1>3, <1>5, <1>9 DEF TypeOK
<1>11. Shape(bank)' /\ Shape(working)'
  BY <1>2, <1>3, <1>5 DEF Shape
<1>12. Later(bank, working, tx.signers)'
  BY <1>3, <1>8, <1>9 DEF Later, Live
<1>13. CounterInv'
  BY <1>10, <1>11, <1>12 DEF CounterInv
<1>14. QED BY <1>3, <1>7, <1>13

LEMMA CommitStep ==
  ASSUME CounterInv, CommitTransaction
  PROVE  /\ CounterInv'
         /\ \A p \in Pdas : Live(working, p) => bank'[p] = working[p]
         /\ \A p \in Pdas : Live(bank', p) => Live(working, p)
<1>1. working \in [Addresses -> Account] /\ Shape(working)
  BY DEF CounterInv, TypeOK
<1>2. bank' = Purged(working) /\ working' = bank' /\ tx' = Idle
  BY DEF CommitTransaction
<1>3. bank' \in [Addresses -> Account] /\ Shape(bank')
  <2>1. Purged(working) \in [Addresses -> Account] /\ Shape(Purged(working))
    BY <1>1, PurgedKeeps, PurgedType
  <2>2. QED BY <1>2, <2>1 DEF Shape
<1>4. CounterInv'
  BY <1>2, <1>3, IdleStep
<1>5. QED BY <1>1, <1>2, <1>4, PurgedKeeps DEF Live

LEMMA InitStep == Init => CounterInv
<1> SUFFICES ASSUME Init PROVE CounterInv
  OBVIOUS
<1>1. /\ bank = [a \in Addresses |->
                   IF a \in Keys THEN WithLamports(Absent, Funding[a])
                                 ELSE Absent]
      /\ working = bank /\ tx = Idle
  BY DEF Init, RuntimeInit
<1>2. \A k \in Keys : WithLamports(Absent, Funding[k]) \in Account
  BY ConstantTypes, FundsAssumption DEF WithLamports, Absent, Account
<1>3. bank \in [Addresses -> Account]
  BY <1>1, <1>2, ConstantTypes
<1>4. Shape(bank)
  <2>1. \A p \in Pdas : bank[p] = Absent
    BY <1>1, KeysAssumption DEF Addresses
  <2>2. \A k \in Keys : bank[k].owner = System
    BY <1>1 DEF Addresses, WithLamports, Absent
  <2>3. QED BY <2>1, <2>2, OwnersDiffer DEF Shape, PdaOK, KeyOK, Absent
<1>5. StepOK(bank, bank, tx.signers)
  BY <1>3, <1>4, StepReflexive
<1>6. QED BY <1>1, <1>3, <1>4, <1>5, ConstantTypes
          DEF CounterInv, TypeOK, StepOK, Idle

LEMMA NextStep == CounterInv /\ [Next]_rtVars => CounterInv'
<1> SUFFICES ASSUME CounterInv, [Next]_rtVars PROVE CounterInv'
  OBVIOUS
<1>1. CASE \E user, counter \in Addresses, system \in {System, Other} :
             Initialize(user, counter, system)
  BY <1>1, InitializeStep
<1>2. CASE \E user, counter \in Addresses, by \in 0 .. MaxU64 :
             Increment(user, counter, by)
  BY <1>2, IncrementStep
<1>3. CASE \/ MalformedInstruction \/ FailedInitialize \/ FailedIncrement
           \/ RentViolation \/ OtherFailure \/ EndSimulation
  <2>1. RollBack
    BY <1>3 DEF MalformedInstruction, FailedInitialize, FailedIncrement,
                RentViolation, OtherFailure, EndSimulation
  <2>2. QED BY <2>1, RollBackStep
<1>4. CASE \E S \in SUBSET Keys, mode \in {"send", "simulate"} :
             \E payer \in S : BeginTransaction(payer, S, mode)
  BY <1>4, BeginStep
<1>5. CASE \E from \in Keys, to \in Addresses, n \in Amounts :
             SystemTransfer(from, to, n)
  BY <1>5, SystemTransferStep
<1>6. CASE \E from \in Keys, to \in Keys, n \in Amounts, space \in Lens,
              owner \in Owners : SystemCreateAccount(from, to, n, space, owner)
  BY <1>6, SystemCreateAccountStep
<1>7. CASE \E a \in Keys, d \in ForeignData : ForeignWrite(a, d)
  BY <1>7, ForeignWriteStep
<1>8. CASE CommitTransaction
  BY <1>8, CommitStep
<1>9. CASE UNCHANGED rtVars
  BY <1>9 DEF rtVars, CounterInv, TypeOK, Shape, Later, Live
<1>10. QED
  BY <1>1, <1>2, <1>3, <1>4, <1>5, <1>6, <1>7, <1>8, <1>9
  DEF Next, ProcessInstruction, RuntimeNext

\* The inductive invariant holds for every set of users, every derivation
\* function without collisions, every rent schedule and every u64 bound.
THEOREM CounterInvariant == Spec => []CounterInv
<1>1. Init => CounterInv
  BY InitStep
<1>2. CounterInv /\ [Next]_rtVars => CounterInv'
  BY NextStep
<1>3. QED BY <1>1, <1>2, PTL DEF Spec

\* What a step may do to a committed counter.
LEMMA BankStep ==
  ASSUME CounterInv, [Next]_rtVars, NEW p \in Pdas, Live(bank, p)
  PROVE  \/ bank'[p] = bank[p]
         \/ /\ CommitTransaction
            /\ Live(working, p)
            /\ bank'[p] = working[p]
<1>1. CASE CommitTransaction
  <2>1. Live(working, p)
    BY DEF CounterInv, Later, Live, Follows
  <2>2. QED BY <1>1, <2>1, CommitStep
<1>2. CASE \E S \in SUBSET Keys, mode \in {"send", "simulate"} :
             \E payer \in S : BeginTransaction(payer, S, mode)
  BY <1>2, BeginStep
<1>3. CASE UNCHANGED bank
  BY <1>3
<1>4. QED
  BY <1>1, <1>2, <1>3
  DEF Next, ProcessInstruction, RuntimeNext, rtVars, Initialize, Increment,
      MalformedInstruction, FailedInitialize, FailedIncrement, RollBack,
      RentViolation, OtherFailure, EndSimulation, SystemTransfer,
      SystemCreateAccount, ForeignWrite

-----------------------------------------------------------------------------
(* The properties that the runs check. *)

THEOREM TypeCorrect == Spec => []TypeOK
<1>1. CounterInv => TypeOK
  BY DEF CounterInv
<1>2. QED BY <1>1, CounterInvariant, PTL

\* What a live account at a PDA is.
LEMMA LivePda ==
  ASSUME NEW accts \in [Addresses -> Account], Shape(accts),
         NEW p \in Pdas, Live(accts, p)
  PROVE  /\ accts[p].len = COUNTER_LEN
         /\ accts[p].lamports >= RentMin[COUNTER_LEN]
         /\ accts[p].data.authority \in Keys
         /\ IsCanonical(accts[p].data.authority, accts[p].data.bump)
         /\ Derive[accts[p].data.authority][accts[p].data.bump] = p
         /\ accts[p].data.bump = CanonicalBump(accts[p].data.authority)
         /\ p = FindProgramAddress(accts[p].data.authority)
<1>1. PdaOK(accts[p], p) /\ accts[p].owner # System
  BY OwnersDiffer DEF Shape, Live
<1>2. /\ accts[p].data.authority \in Keys
      /\ IsCanonical(accts[p].data.authority, accts[p].data.bump)
  BY <1>1 DEF PdaOK
<1>3. accts[p].data.bump = CanonicalBump(accts[p].data.authority)
  BY <1>2, CanonicalAddress DEF IsCanonical
<1>4. QED BY <1>1, <1>3 DEF PdaOK, FindProgramAddress

\* The counter at a user's address is that user's.
LEMMA LiveCounterOf ==
  ASSUME NEW accts \in [Addresses -> Account], Shape(accts),
         NEW u \in Keys, Live(accts, FindProgramAddress(u))
  PROVE  accts[FindProgramAddress(u)].data.authority = u
BY LivePda, CanonicalAddress, AddressesDiffer

\* Every account of the program holds the counter of the key it was derived
\* from, or zeros.
THEOREM Integrity == Spec => []CounterIntegrity
<1>1. CounterInv => CounterIntegrity
  <2>1. SUFFICES ASSUME CounterInv, NEW accts \in {bank, working},
                        NEW a \in Addresses, Live(accts, a)
                 PROVE  \/ a \in Keys /\ accts[a].data = ZeroData
                        \/ /\ accts[a].len = COUNTER_LEN
                           /\ accts[a].data.authority \in Keys
                           /\ IsCanonical(accts[a].data.authority,
                                          accts[a].data.bump)
                           /\ Derive[accts[a].data.authority]
                                    [accts[a].data.bump] = a
    BY DEF CounterIntegrity
  <2>2. accts \in [Addresses -> Account] /\ Shape(accts)
    BY <2>1 DEF CounterInv, TypeOK
  <2>3. CASE a \in Keys
    BY <2>1, <2>2, <2>3 DEF Shape, KeyOK, Live
  <2>4. CASE a \in Pdas
    BY <2>1, <2>2, <2>4, LivePda
  <2>5. QED BY <2>3, <2>4 DEF Addresses
<1>2. QED BY <1>1, CounterInvariant, PTL

THEOREM RentKept == Spec => []LiveCounterRentExempt
<1>1. CounterInv => LiveCounterRentExempt
  BY LivePda DEF CounterInv, TypeOK, LiveCounterRentExempt
<1>2. QED BY <1>1, CounterInvariant, PTL

\* The account at another user's address holds that user's key.
LEMMA OthersRefusedInv == CounterInv => OthersGetInvalidAccountOwner
<1>1. SUFFICES ASSUME CounterInv, NEW u \in tx.signers, NEW v \in Keys,
                      NEW by \in 0 .. MaxU64, u # v,
                      Live(working, FindProgramAddress(v))
               PROVE  IncrementError(u, FindProgramAddress(v), by)
                        = "InvalidAccountOwner"
  BY DEF OthersGetInvalidAccountOwner
<1> DEFINE p == FindProgramAddress(v)
<1>2. p \in Pdas
  BY CanonicalAddress
<1>3. working \in [Addresses -> Account] /\ Shape(working)
  BY <1>1 DEF CounterInv, TypeOK
<1>4. working[p].owner = Program /\ working[p].len = COUNTER_LEN
  BY <1>1, <1>2, <1>3, LivePda DEF Live
<1>5. working[p].data.authority # u
  BY <1>1, <1>3, LiveCounterOf
<1> HIDE DEF p
<1>6. IncrementError(u, p, by) = "InvalidAccountOwner"
  BY <1>4, <1>5
  DEF IncrementError, Unsigned, IsSigner, OwnedByProgram, StoredAuthorityIs
<1>7. QED BY <1>6 DEF p

\* Somebody else's counter is refused with InvalidAccountOwner.
THEOREM OthersRefused == Spec => []OthersGetInvalidAccountOwner
BY OthersRefusedInv, CounterInvariant, PTL

\* The stored bump is the one increment derives the address from.
LEMMA OwnerServedInv == CounterInv => OwnerCanIncrement
<1>1. SUFFICES ASSUME CounterInv, NEW u \in tx.signers,
                      NEW by \in 0 .. MaxU64,
                      Live(working, FindProgramAddress(u)),
                      working[FindProgramAddress(u)].data.count + by <= MaxU64
               PROVE  IncrementError(u, FindProgramAddress(u), by) = "Ok"
  BY DEF OwnerCanIncrement
<1> DEFINE p == FindProgramAddress(u)
<1>2. u \in Keys
  BY <1>1 DEF CounterInv, TypeOK, TxRecord
<1>3. p \in Pdas
  BY <1>2, CanonicalAddress
<1>4. working \in [Addresses -> Account] /\ Shape(working)
  BY <1>1 DEF CounterInv, TypeOK
<1>5. working[p].data.authority = u
  BY <1>1, <1>2, <1>4, LiveCounterOf
<1>6. /\ working[p].owner = Program /\ working[p].len = COUNTER_LEN
      /\ Derive[u][working[p].data.bump] = p
  BY <1>1, <1>3, <1>4, <1>5, LivePda DEF Live
<1>7. ~(working[p].data.count + by > MaxU64)
  <2>1. working[p] \in Account
    BY <1>3, <1>4 DEF Addresses
  <2>2. working[p].data.count \in Int /\ by \in Int /\ MaxU64 \in Int
    BY <2>1, DataTypes, LayoutAssumption
  <2>3. QED BY <1>1, <2>2
<1> HIDE DEF p
<1>8. IncrementError(u, p, by) = "Ok"
  BY <1>5, <1>6, <1>7
  DEF IncrementError, Unsigned, IsSigner, OwnedByProgram,
      StoredAuthorityIs, IsPdaOf, Overflows
<1>9. QED BY <1>8 DEF p

\* The owner's increment is never refused while the sum fits.
THEOREM OwnerServed == Spec => []OwnerCanIncrement
BY OwnerServedInv, CounterInvariant, PTL

\* The owner check of increment refuses nothing that the others accept.
THEOREM NoLookAlike == Spec => []OwnerCheckImplied
<1>1. CounterInv => OwnerCheckImplied
  <2>1. SUFFICES ASSUME CounterInv, NEW u \in tx.signers, NEW a \in Addresses,
                        working[a].len = COUNTER_LEN,
                        StoredAuthorityIs(u, a), IsPdaOf(u, a)
                 PROVE  OwnedByProgram(a)
    BY DEF OwnerCheckImplied
  <2>2. u \in Keys /\ working \in [Addresses -> Account] /\ Shape(working)
    BY <2>1 DEF CounterInv, TypeOK, TxRecord
  <2>3. working[a].data.bump \in Bumps
    BY <2>2, DataTypes
  <2>4. a \in Pdas
    <3>1. Derive[u][working[a].data.bump] = a
      BY <2>1 DEF IsPdaOf
    <3>2. Derive[u][working[a].data.bump] \in Pdas \cup {OnCurve}
      BY <2>2, <2>3, DeriveType
    <3>3. a # OnCurve
      BY DeriveType
    <3>4. QED BY <3>1, <3>2, <3>3
  <2>5. PdaOK(working[a], a) /\ working[a].len # 0
    BY <2>1, <2>2, <2>4, ConstantTypes DEF Shape
  <2>6. QED BY <2>5 DEF PdaOK, OwnedByProgram
<1>2. QED BY <1>1, CounterInvariant, PTL

\* create_account accepts exactly the absent account.
LEMMA InitializeWhenAbsentInv == CounterInv => InitializeExactlyWhenAbsent
<1>1. SUFFICES ASSUME CounterInv, NEW u \in tx.signers
               PROVE  InitializeError(u, FindProgramAddress(u), System) = "Ok"
                        <=> /\ working[FindProgramAddress(u)] = Absent
                            /\ CanTransfer(u, InitialLamports)
  BY DEF InitializeExactlyWhenAbsent
<1> DEFINE p == FindProgramAddress(u)
<1>2. p \in Pdas
  BY <1>1, CanonicalAddress DEF CounterInv, TypeOK, TxRecord
<1>3. PdaOK(working[p], p) /\ working[p] \in Account
  BY <1>1, <1>2 DEF CounterInv, TypeOK, Shape, Addresses
<1> HIDE DEF p
<1>4. ~InUse(p) <=> working[p] = Absent
  <2>1. ASSUME ~InUse(p) PROVE working[p] = Absent
    <3>1. /\ working[p].lamports = 0 /\ working[p].len = 0
          /\ working[p].owner = System
      BY <1>3, <2>1, DataTypes DEF InUse
    <3>2. working[p].data = ZeroData
      BY <1>3, <3>1, OwnersDiffer DEF PdaOK
    <3>3. QED BY <1>3, <3>1, <3>2 DEF Absent, Account
  <2>2. ASSUME working[p] = Absent PROVE ~InUse(p)
    BY <2>2 DEF InUse, Absent
  <2>3. QED BY <2>1, <2>2
<1>5. working[p] = Absent => DataIsEmpty(p)
  BY DEF Absent, DataIsEmpty
<1>6. InitializeError(u, p, System) = "Ok"
        <=> DataIsEmpty(p) /\ ~InUse(p) /\ CanTransfer(u, InitialLamports)
  BY DEF InitializeError, CreateAccountError, Unsigned, IsSigner, p
<1>7. QED BY <1>4, <1>5, <1>6 DEF p

\* initialize succeeds on an absent account with the rent at hand, and on no
\* other.
THEOREM InitializeWhenAbsent == Spec => []InitializeExactlyWhenAbsent
BY InitializeWhenAbsentInv, CounterInvariant, PTL

\* Only its authority's signature changes a committed counter.
THEOREM AuthorityOnly == Spec => OwnCounterOnly
<1>1. CounterInv /\ [Next]_rtVars =>
        [\A p \in Pdas :
           Live(bank, p) /\ bank'[p].data # bank[p].data =>
             /\ bank[p].data.authority \in tx.signers
             /\ tx.mode = "send"]_rtVars
  <2>1. SUFFICES ASSUME CounterInv, [Next]_rtVars, NEW p \in Pdas,
                        Live(bank, p), bank'[p].data # bank[p].data
                 PROVE  /\ bank[p].data.authority \in tx.signers
                        /\ tx.mode = "send"
    OBVIOUS
  <2>2. CommitTransaction /\ bank'[p] = working[p]
    BY <2>1, BankStep
  <2>3. Follows(bank[p], working[p], tx.signers)
    BY <2>1 DEF CounterInv, Later
  <2>4. QED BY <2>1, <2>2, <2>3 DEF Follows, CommitTransaction
<1>2. QED BY <1>1, CounterInvariant, PTL DEF Spec, OwnCounterOnly

\* A committed counter stays, keeps its identity and its rent, and never
\* goes down.
THEOREM Permanent == Spec => CounterPermanent
<1>1. CounterInv /\ [Next]_rtVars =>
        [\A p \in Pdas : Live(bank, p) =>
           /\ Live(bank', p)
           /\ bank'[p].data.authority = bank[p].data.authority
           /\ bank'[p].data.bump      = bank[p].data.bump
           /\ bank'[p].data.count    >= bank[p].data.count
           /\ bank'[p].lamports      >= bank[p].lamports]_rtVars
  <2>1. SUFFICES ASSUME CounterInv, [Next]_rtVars, NEW p \in Pdas,
                        Live(bank, p)
                 PROVE  /\ Live(bank', p)
                        /\ bank'[p].data.authority = bank[p].data.authority
                        /\ bank'[p].data.bump      = bank[p].data.bump
                        /\ bank'[p].data.count    >= bank[p].data.count
                        /\ bank'[p].lamports      >= bank[p].lamports
    OBVIOUS
  <2>2. Follows(bank[p], bank[p], tx.signers)
    BY <2>1, FollowsReflexive DEF CounterInv, TypeOK, Addresses, Live
  <2>3. Follows(bank[p], working[p], tx.signers)
    BY <2>1 DEF CounterInv, Later
  <2>4. bank'[p] = bank[p] \/ bank'[p] = working[p]
    BY <2>1, BankStep
  <2>5. QED BY <2>2, <2>3, <2>4 DEF Follows, Live
<1>2. QED BY <1>1, CounterInvariant, PTL DEF Spec, CounterPermanent

-----------------------------------------------------------------------------
(* CounterProgram implements CounterSpec. *)

\* Counts read the same where the counter accounts are the same.
LEMMA SameCounts ==
  ASSUME NEW a1, NEW a2,
         \A p \in Pdas : Live(a1, p) <=> Live(a2, p),
         \A p \in Pdas : Live(a1, p) => a1[p].data = a2[p].data
  PROVE  CountOf(a1) = CountOf(a2)
<1>1. \A u \in Keys : FindProgramAddress(u) \in Pdas
  BY CanonicalAddress
<1>2. QED BY <1>1 DEF CountOf

\* System instructions and other programs leave every count alone.
LEMMA PutKeyCounts ==
  ASSUME NEW accts \in [Addresses -> Account], NEW k \in Keys, NEW r
  PROVE  CountOf([accts EXCEPT ![k] = r]) = CountOf(accts)
<1>1. \A p \in Pdas : p \in Addresses /\ [accts EXCEPT ![k] = r][p] = accts[p]
  BY KeysAssumption DEF Addresses
<1>2. QED BY <1>1, SameCounts DEF Live

LEMMA TransferredCounts ==
  ASSUME NEW accts \in [Addresses -> Account],
         NEW from \in Keys, NEW to \in Addresses, from # to, NEW n
  PROVE  CountOf(Transferred(accts, from, to, n)) = CountOf(accts)
<1> DEFINE new == Transferred(accts, from, to, n)
<1>1. ASSUME NEW p \in Pdas
      PROVE  new[p].owner = accts[p].owner /\ new[p].data = accts[p].data
  <2>1. p \in Addresses /\ p # from /\ from \in Addresses
    BY KeysAssumption DEF Addresses
  <2>2. CASE p = to
    BY <2>1, <2>2 DEF Transferred, WithLamports
  <2>3. CASE p # to
    BY <2>1, <2>3 DEF Transferred
  <2>4. QED BY <2>2, <2>3
<1> HIDE DEF new
<1>2. CountOf(new) = CountOf(accts)
  BY <1>1, SameCounts DEF Live
<1>3. QED BY <1>2 DEF new

LEMMA PurgedCounts ==
  ASSUME NEW accts \in [Addresses -> Account], Shape(accts)
  PROVE  CountOf(Purged(accts)) = CountOf(accts)
<1>1. \A p \in Pdas : Live(Purged(accts), p) <=> Live(accts, p)
  BY PurgedKeeps DEF Live
<1>2. \A p \in Pdas : Live(accts, p) => Purged(accts)[p] = accts[p]
  BY PurgedKeeps DEF Live
<1>3. QED BY <1>1, <1>2, SameCounts

-----------------------------------------------------------------------------
(* Every step of the program is a step of CounterSpec or changes nothing   *)
(* there.                                                                  *)

LEMMA RefineInit == Init => Abs!Init
<1> SUFFICES ASSUME Init PROVE Abs!Init
  OBVIOUS
<1>1. working = bank /\ tx.signers = {}
  BY DEF Init, RuntimeInit, Idle
<1>2. ASSUME NEW u \in Keys PROVE ~Live(bank, FindProgramAddress(u))
  <2>1. FindProgramAddress(u) \in Pdas
    BY CanonicalAddress
  <2>2. bank[FindProgramAddress(u)] = Absent
    BY <2>1, KeysAssumption DEF Init, RuntimeInit, Addresses
  <2>3. QED BY <2>2, OwnersDiffer DEF Live, Absent
<1>3. CountOf(bank) = [u \in Keys |-> -1]
  BY <1>2 DEF CountOf
<1>4. QED BY <1>1, <1>3 DEF Abs!Init, Abs!NoCounter

\* A step inside a transaction that touches no counter.
LEMMA RefineStutter ==
  ASSUME CounterInv, InstructionDone, UNCHANGED bank,
         CountOf(working') = CountOf(working)
  PROVE  UNCHANGED Abs!absVars
<1>1. tx'.signers = tx.signers
  BY DEF InstructionDone, CounterInv, TypeOK, TxRecord
<1>2. CountOf(bank)' = CountOf(bank) /\ CountOf(working)' = CountOf(working)
  BY DEF CountOf, Live
<1>3. QED BY <1>1, <1>2 DEF Abs!absVars

LEMMA RefineInitialize ==
  ASSUME CounterInv, NEW user \in Addresses, NEW counter \in Addresses,
         NEW system \in {System, Other}, Initialize(user, counter, system)
  PROVE  Abs!Open(user) /\ user \in Keys
<1> DEFINE old == CountOf(working)
           new == CountOf(working')
<1>1. /\ user \in tx.signers
      /\ FindProgramAddress(user) = counter
      /\ CreateAccountError(user, counter, InitialLamports) = "Ok"
      /\ working' = AccountCreated(user, counter, InitialLamports,
                                   COUNTER_LEN, Program, NewCounter(user))
      /\ tx' = [tx EXCEPT !.ixs = @ + 1]
      /\ bank' = bank
  BY DEF Initialize, InitializeError, Unsigned, IsSigner, InstructionDone
<1>2. user \in Keys /\ tx'.signers = tx.signers
  BY <1>1 DEF CounterInv, TypeOK, TxRecord
<1>3. counter \in Pdas /\ counter # user /\ user \in Addresses
  BY <1>1, <1>2, CanonicalAddress, KeysAssumption
<1>4. working \in [Addresses -> Account]
  BY DEF CounterInv, TypeOK
<1>5. ~Live(working, counter)
  BY <1>1, OwnersDiffer DEF Live, CreateAccountError, InUse
<1>6. /\ working'[counter].owner = Program
      /\ working'[counter].data.count = 0
  BY <1>1, <1>3, <1>4 DEF AccountCreated, NewCounter
<1>7. ASSUME NEW p \in Pdas \ {counter} PROVE working'[p] = working[p]
  <2>1. p \in Addresses /\ p # user /\ p # counter
    BY <1>2, KeysAssumption DEF Addresses
  <2>2. QED BY <1>1, <1>3, <1>4, <2>1 DEF AccountCreated
<1>8. old[user] = -1
  BY <1>1, <1>2, <1>5 DEF CountOf
<1>9. new = [old EXCEPT ![user] = 0]
  <2>1. new[user] = 0
    BY <1>1, <1>2, <1>6 DEF CountOf, Live
  <2>2. ASSUME NEW u \in Keys, u # user PROVE new[u] = old[u]
    <3>1. FindProgramAddress(u) \in Pdas \ {counter}
      BY <1>1, <1>2, <2>2, CanonicalAddress, AddressesDiffer
    <3>2. QED BY <1>7, <3>1 DEF CountOf, Live
  <2>3. QED BY <1>2, <2>1, <2>2 DEF CountOf
<1>10. CountOf(bank)' = CountOf(bank) /\ CountOf(working)' = new
  BY <1>1 DEF CountOf, Live
<1>11. QED BY <1>1, <1>2, <1>8, <1>9, <1>10 DEF Abs!Open, Abs!NoCounter

LEMMA RefineIncrement ==
  ASSUME CounterInv, NEW user \in Addresses, NEW counter \in Addresses,
         NEW by \in 0 .. MaxU64, Increment(user, counter, by)
  PROVE  Abs!Add(user, by) /\ user \in Keys
<1> DEFINE old == CountOf(working)
           new == CountOf(working')
           n   == working[counter].data.count + by
<1>1. /\ user \in tx.signers
      /\ working[counter].owner = Program
      /\ Derive[user][working[counter].data.bump] = counter
      /\ working[counter].data.authority = user
      /\ ~(n > MaxU64)
      /\ working' = CountSetTo(counter, n)
      /\ tx' = [tx EXCEPT !.ixs = @ + 1]
      /\ bank' = bank
  BY DEF Increment, IncrementError, Unsigned, IsSigner, OwnedByProgram,
         IsPdaOf, StoredAuthorityIs, Overflows, InstructionDone
<1>2. user \in Keys /\ tx'.signers = tx.signers
  BY <1>1 DEF CounterInv, TypeOK, TxRecord
<1>3. working \in [Addresses -> Account] /\ Shape(working)
  BY DEF CounterInv, TypeOK
<1>4. counter \in Pdas
  <2>1. working[counter].data.bump \in Bumps
    BY <1>3, DataTypes
  <2>2. Derive[user][working[counter].data.bump] \in Pdas \cup {OnCurve}
    BY <1>2, <2>1, DeriveType
  <2>3. QED BY <1>1, <2>2, DeriveType
<1>5. counter = FindProgramAddress(user)
  BY <1>1, <1>3, <1>4, LivePda DEF Live
<1>6. n \in Nat /\ n <= MaxU64 /\ working[counter].data.count \in Nat
  BY <1>1, <1>3, DataTypes, LayoutAssumption
<1>7. /\ working'[counter].owner = Program
      /\ working'[counter].data.count = n
  BY <1>1, <1>3 DEF CountSetTo, WithData
<1>8. \A p \in Pdas \ {counter} : working'[p] = working[p]
  BY <1>1, <1>3 DEF CountSetTo, Addresses
<1>9. old[user] = working[counter].data.count
  BY <1>1, <1>2, <1>5 DEF CountOf, Live
<1>10. new = [old EXCEPT ![user] = n]
  <2>1. new[user] = n
    BY <1>2, <1>5, <1>7 DEF CountOf, Live
  <2>2. ASSUME NEW u \in Keys, u # user PROVE new[u] = old[u]
    <3>1. FindProgramAddress(u) \in Pdas \ {counter}
      BY <1>2, <1>5, <2>2, CanonicalAddress, AddressesDiffer
    <3>2. QED BY <1>8, <3>1 DEF CountOf, Live
  <2>3. QED BY <1>2, <2>1, <2>2 DEF CountOf
<1>11. CountOf(bank)' = CountOf(bank) /\ CountOf(working)' = new
  BY <1>1 DEF CountOf, Live
<1> HIDE DEF old, new
<1>12. /\ old[user] # -1
       /\ old[user] + by <= MaxU64
       /\ new = [old EXCEPT ![user] = @ + by]
  BY <1>6, <1>9, <1>10
<1>13. QED BY <1>1, <1>2, <1>11, <1>12 DEF Abs!Add, Abs!NoCounter, old

LEMMA RefineBegin ==
  ASSUME CounterInv, NEW S \in SUBSET Keys, NEW payer \in S,
         NEW mode \in {"send", "simulate"}, BeginTransaction(payer, S, mode)
  PROVE  Abs!Begin(S)
<1> DEFINE fee  == FeePerSignature * Cardinality(S)
           paid == [bank EXCEPT ![payer] = WithLamports(@, @.lamports - fee)]
<1>1. fee \in Nat
  BY FeeType
<1>2. /\ tx.status = "idle" /\ bank[payer].lamports >= fee
      /\ working' = Purged(paid)
      /\ bank' = IF mode = "send" THEN Purged(paid) ELSE bank
      /\ tx'.signers = S
  BY DEF BeginTransaction
<1> HIDE DEF fee
<1>3. /\ bank \in [Addresses -> Account] /\ Shape(bank)
      /\ working = bank /\ tx.signers = {}
  BY <1>2 DEF CounterInv, TypeOK, Idle
<1>4. paid \in [Addresses -> Account] /\ Shape(paid)
  BY <1>1, <1>2, <1>3, Debit DEF StepOK
<1>5. CountOf(paid) = CountOf(bank)
  BY <1>3, PutKeyCounts
<1>6. CountOf(Purged(paid)) = CountOf(bank)
  BY <1>4, <1>5, PurgedCounts
<1> HIDE DEF paid
<1>7. CountOf(bank') = CountOf(bank) /\ CountOf(working') = CountOf(working)
  BY <1>2, <1>3, <1>6
<1>8. CountOf(bank)' = CountOf(bank) /\ CountOf(working)' = CountOf(working)
  BY <1>7 DEF CountOf, Live
<1>9. QED BY <1>2, <1>3, <1>8 DEF Abs!Begin

LEMMA RefineCommit ==
  ASSUME CounterInv, CommitTransaction
  PROVE  Abs!Commit
<1>1. /\ working \in [Addresses -> Account] /\ Shape(working)
      /\ tx.signers # {}
  BY DEF CounterInv, TypeOK, CommitTransaction
<1>2. /\ bank' = Purged(working) /\ working' = Purged(working)
      /\ tx'.signers = {}
  BY DEF CommitTransaction, Idle
<1>3. CountOf(bank') = CountOf(working) /\ CountOf(working') = CountOf(working)
  BY <1>1, <1>2, PurgedCounts
<1>4. CountOf(bank)' = CountOf(working) /\ CountOf(working)' = CountOf(working)
  BY <1>3 DEF CountOf, Live
<1>5. QED BY <1>1, <1>2, <1>4 DEF Abs!Commit

LEMMA RefineRollBack ==
  ASSUME CounterInv, RollBack, tx.status = "running"
  PROVE  Abs!Abort
<1>1. tx.signers # {} /\ tx'.signers = {}
  BY DEF CounterInv, TypeOK, RollBack, Idle
<1>2. CountOf(bank)' = CountOf(bank) /\ CountOf(working)' = CountOf(bank)
  BY DEF RollBack, CountOf, Live
<1>3. QED BY <1>1, <1>2 DEF Abs!Abort

LEMMA RefineNext ==
  CounterInv /\ [Next]_rtVars => [Abs!Next]_Abs!absVars
<1> SUFFICES ASSUME CounterInv, [Next]_rtVars
             PROVE  [Abs!Next]_Abs!absVars
  OBVIOUS
<1>1. CASE \E user, counter \in Addresses, system \in {System, Other} :
             Initialize(user, counter, system)
  BY <1>1, RefineInitialize DEF Abs!Next
<1>2. CASE \E user, counter \in Addresses, by \in 0 .. MaxU64 :
             Increment(user, counter, by)
  BY <1>2, RefineIncrement DEF Abs!Next
<1>3. CASE \/ MalformedInstruction \/ FailedInitialize \/ FailedIncrement
           \/ RentViolation \/ OtherFailure \/ EndSimulation
  <2>1. RollBack /\ tx.status = "running"
    BY <1>3 DEF MalformedInstruction, FailedInitialize, FailedIncrement,
                RentViolation, OtherFailure, EndSimulation, CanRunInstruction
  <2>2. QED BY <2>1, RefineRollBack DEF Abs!Next
<1>4. CASE \E S \in SUBSET Keys, mode \in {"send", "simulate"} :
             \E payer \in S : BeginTransaction(payer, S, mode)
  <2>1. \E S \in SUBSET Keys : Abs!Begin(S)
    BY <1>4, RefineBegin
  <2>2. QED BY <2>1 DEF Abs!Next
<1>5. CASE \E from \in Keys, to \in Addresses, n \in Amounts :
             SystemTransfer(from, to, n)
  <2>1. CountOf(working') = CountOf(working)
    BY <1>5, TransferredCounts DEF SystemTransfer, CounterInv, TypeOK
  <2>2. UNCHANGED Abs!absVars
    BY <1>5, <2>1, RefineStutter DEF SystemTransfer
  <2>3. QED BY <2>2
<1>6. CASE \E from \in Keys, to \in Keys, n \in Amounts, space \in Lens,
              owner \in Owners : SystemCreateAccount(from, to, n, space, owner)
  <2>1. PICK from \in Keys, to \in Keys, n \in Amounts, space \in Lens,
             owner \in Owners : SystemCreateAccount(from, to, n, space, owner)
    BY <1>6
  <2> DEFINE mid == [working EXCEPT ![from] = WithLamports(@, @.lamports - n)]
             r   == [lamports |-> n, owner |-> owner,
                     len |-> space, data |-> ZeroData]
  <2>2. working \in [Addresses -> Account] /\ Shape(working)
    BY DEF CounterInv, TypeOK
  <2>3. n \in Nat /\ working[from].lamports >= n
    BY <2>1, FundsAssumption
    DEF SystemCreateAccount, CreateAccountError, CanTransfer
  <2>4. mid \in [Addresses -> Account] /\ CountOf(mid) = CountOf(working)
    BY <2>2, <2>3, Debit, PutKeyCounts DEF StepOK
  <2> HIDE DEF mid
  <2>5. CountOf([mid EXCEPT ![to] = r]) = CountOf(mid)
    BY <2>4, PutKeyCounts
  <2>6. working' = [mid EXCEPT ![to] = r]
    BY <2>1 DEF SystemCreateAccount, AccountCreated, mid
  <2>7. UNCHANGED Abs!absVars
    BY <2>1, <2>4, <2>5, <2>6, RefineStutter DEF SystemCreateAccount
  <2>8. QED BY <2>7
<1>7. CASE \E a \in Keys, d \in ForeignData : ForeignWrite(a, d)
  <2>1. PICK a \in Keys, d \in ForeignData : ForeignWrite(a, d)
    BY <1>7
  <2>2. working \in [Addresses -> Account]
    BY DEF CounterInv, TypeOK
  <2>3. working' = [working EXCEPT ![a] = WithData(working[a], d)]
    BY <2>1 DEF ForeignWrite
  <2>4. CountOf(working') = CountOf(working)
    BY <2>2, <2>3, PutKeyCounts
  <2>5. UNCHANGED Abs!absVars
    BY <2>1, <2>4, RefineStutter DEF ForeignWrite
  <2>6. QED BY <2>5
<1>8. CASE CommitTransaction
  BY <1>8, RefineCommit DEF Abs!Next
<1>9. CASE UNCHANGED rtVars
  BY <1>9 DEF rtVars, Abs!absVars, CountOf, Live
<1>10. QED
  BY <1>1, <1>2, <1>3, <1>4, <1>5, <1>6, <1>7, <1>8, <1>9
  DEF Next, ProcessInstruction, RuntimeNext

\* Every behaviour of the program on the accounts is a behaviour of the
\* per-user counters of CounterSpec.
THEOREM Refinement == Spec => RefinesCounterSpec
<1>1. Init => Abs!Init
  BY RefineInit
<1>2. CounterInv /\ [Next]_rtVars => [Abs!Next]_Abs!absVars
  BY RefineNext
<1>3. QED
  BY <1>1, <1>2, CounterInvariant, PTL DEF Spec, Abs!Spec, RefinesCounterSpec

=============================================================================
