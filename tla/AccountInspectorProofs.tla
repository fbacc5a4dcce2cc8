----------------------- MODULE AccountInspectorProofs -----------------------
(***************************************************************************)
(* Theorems about AccountInspector, for all rent parameters a cluster may  *)
(* have and all accounts.                                                  *)
(***************************************************************************)
EXTENDS AccountInspector, SequenceTheorems, TLAPS

-----------------------------------------------------------------------------
(* Arithmetic of the rent. *)

LEMMA ProductTimes ==
  ASSUME NEW a \in Nat, NEW b \in Nat, NEW c \in Nat
  PROVE  a * b * c = a * (b * c) /\ b * c \in Nat
OBVIOUS

LEMMA WholeQuotient ==
  ASSUME NEW n \in Nat, NEW d \in Nat \ {0}, n % d = 0
  PROVE  n = (n \div d) * d /\ n \div d \in Nat
OBVIOUS

LEMMA ProductOfMultiple ==
  ASSUME NEW n \in Nat, NEW d \in Nat, NEW o \in Nat, NEW k \in Nat, n = k * d
  PROVE  o * n = (o * k) * d /\ o * k \in Nat
OBVIOUS

LEMMA QuotientOfMultiple ==
  ASSUME NEW m \in Nat, NEW d \in Nat \ {0}
  PROVE  (m * d) \div d = m
OBVIOUS

LEMMA SameProduct ==
  ASSUME NEW a \in Nat, NEW b \in Nat, NEW k \in Nat \ {0}
  PROVE  a * k = b * k <=> a = b
OBVIOUS

LEMMA NextProduct ==
  ASSUME NEW o \in Nat, NEW k \in Nat
  PROVE  /\ (o + 1) * k - (o + 0) * k = k
         /\ (o + 0) * k = o * k /\ o * k \in Nat
OBVIOUS

\* What a byte costs when the rate is whole.
PerByte(p) == (p.rate * p.num) \div p.den

\* With a whole rate the minimum is linear in the bytes.
LEMMA LinearMinimum ==
  ASSUME NEW p \in Params, WholeRate(p), NEW o \in Nat, NEW s \in Nat
  PROVE  PerByte(p) \in Nat \ {0} /\ MinimumBalance(o, p, s) = (o + s) * PerByte(p)
<1>1. p.rate \in Nat /\ p.num \in Nat /\ p.den \in Nat \ {0}
  BY ParamsAssumption
<1> DEFINE n == p.rate * p.num
           k == n \div p.den
<1>2. n \in Nat /\ n > 0 /\ n % p.den = 0
  BY <1>1, ProductTimes DEF WholeRate
<1>3. (o + s) * p.rate * p.num = (o + s) * n /\ o + s \in Nat
  BY <1>1, ProductTimes
<1> HIDE DEF n
<1>4. n = k * p.den /\ k \in Nat
  BY <1>1, <1>2, WholeQuotient
<1>5. k # 0
  BY <1>1, <1>2, <1>4
<1> HIDE DEF k
<1>6. (o + s) * n = ((o + s) * k) * p.den /\ (o + s) * k \in Nat
  BY <1>1, <1>2, <1>3, <1>4, ProductOfMultiple
<1>7. ((o + s) * n) \div p.den = (o + s) * k
  BY <1>1, <1>6, QuotientOfMultiple
<1>8. MinimumBalance(o, p, s) = ((o + s) * n) \div p.den
  BY <1>3 DEF MinimumBalance
<1>9. PerByte(p) = k
  BY DEF PerByte, k, n
<1>10. QED BY <1>4, <1>5, <1>7, <1>8, <1>9

-----------------------------------------------------------------------------
(* The invariant. *)

LEMMA FiveCommands == Len(Commands) = 5
BY DEF Commands

LEMMA CommandsInOrder ==
  /\ Commands[1] = "account" /\ Commands[2] = "rent sysvar" /\ Commands[3] = "rent space"
  /\ Commands[4] = "rent 0" /\ Commands[5] = "rent 1"
BY DEF Commands

\* What has returned when the n-th command has.
LEMMA Returned ==
  ASSUME NEW n \in {1, 2, 3, 4, 5}
  PROVE  /\ Commands[n] \in Names
         /\ n - 1 >= 1 <=> n \notin {1}
         /\ n - 1 >= 2 <=> n \notin {1, 2}
         /\ n - 1 >= 3 <=> n \notin {1, 2, 3}
         /\ n - 1 >= 4 <=> n = 5
         /\ ~(n - 1 >= 5)
         /\ n >= 1
         /\ n >= 2 <=> n \notin {1}
         /\ n >= 3 <=> n \notin {1, 2}
         /\ n >= 4 <=> n \notin {1, 2, 3}
         /\ n >= 5 <=> n = 5
<1>1. Commands[n] \in Names
  BY CommandsInOrder DEF Names
<1>2. QED BY <1>1

LEMMA InvInit == Init => InspectorInv
<1> SUFFICES ASSUME Init PROVE InspectorInv
  OBVIOUS
<1>1. Len(reads) = 0 /\ reads \in Seq(Names)
  BY EmptySeq DEF Init
<1>2. TypeOK
  <2>1. Len(reads) <= Len(Commands)
    BY <1>1, FiveCommands
  <2>2. DOMAIN seen = Names /\ DOMAIN paramsAt = Names
    BY DEF Init
  <2>3. QED BY <1>1, <2>1, <2>2 DEF Init, TypeOK
<1>3. AnswersExplained
  BY <1>1 DEF AnswersExplained
<1>4. VerdictsStand
  BY DEF Init, VerdictsStand
<1>5. QED BY <1>2, <1>3, <1>4 DEF InspectorInv

\* The command that returns is the one its place says, and no answer before it
\* is touched.
LEMMA ReadOneStep ==
  ASSUME InspectorInv, ReadOne
  PROVE  InspectorInv'
<1> DEFINE n == Len(reads) + 1
<1>1. TypeOK /\ AnswersExplained /\ VerdictsStand
  BY DEF InspectorInv
<1>2. /\ Busy /\ reads' = Append(reads, Next1)
      /\ seen' = [seen EXCEPT ![Next1] = Answer(Next1)]
      /\ paramsAt' = [paramsAt EXCEPT ![Next1] = cluster.params]
      /\ UNCHANGED <<cluster, check>>
  BY DEF ReadOne
<1>3. /\ cluster.params \in Params /\ cluster.account \in Accounts
      /\ reads \in Seq(Names) /\ Len(reads) \in Nat
  BY <1>1, LenProperties DEF TypeOK
<1>4. n \in {1, 2, 3, 4, 5} /\ Next1 = Commands[n] /\ Next1 \in Names
  <2>1. Len(reads) < 5
    BY <1>2, FiveCommands DEF Busy
  <2>2. n \in {1, 2, 3, 4, 5}
    BY <1>3, <2>1
  <2>3. Next1 = Commands[n]
    BY DEF Next1
  <2> HIDE DEF n
  <2>4. QED BY <2>2, <2>3, Returned
<1>5. reads' \in Seq(Names) /\ Len(reads') = n
  BY <1>2, <1>3, <1>4, AppendProperties
<1>6. TypeOK'
  <2>1. Len(reads') <= Len(Commands)
    BY <1>4, <1>5, FiveCommands
  <2>2. DOMAIN seen' = Names /\ DOMAIN paramsAt' = Names
    BY <1>1, <1>2 DEF TypeOK
  <2>3. QED BY <1>1, <1>2, <1>5, <2>1, <2>2 DEF TypeOK
<1>7. /\ seen'[Next1] = Answer(Next1) /\ paramsAt'[Next1] = cluster.params
      /\ \A c \in Names \ {Next1} : seen'[c] = seen[c] /\ paramsAt'[c] = paramsAt[c]
  BY <1>1, <1>2, <1>4 DEF TypeOK
<1> HIDE DEF n
<1>8. AnswersExplained'
  <2>1. n \in {1, 2, 3, 4, 5} /\ Len(reads) = n - 1 /\ Len(reads') = n
    BY <1>3, <1>4, <1>5 DEF n
  <2>2. CASE n = 1
    <3>1. Next1 = "account"
      BY <1>4, <2>2, CommandsInOrder
    <3>2. paramsAt'["account"] \in Params /\ seen'["account"] = Answer("account")
      BY <1>3, <1>7, <3>1
    <3>3. seen'["account"] \in Accounts
      BY <1>3, <3>2 DEF Answer
    <3>4. ~(Len(reads') >= 2) /\ ~(Len(reads') >= 3) /\ ~(Len(reads') >= 4) /\ ~(Len(reads') >= 5)
      BY <2>1, <2>2, Returned
    <3>5. QED BY <1>1, <3>2, <3>3, <3>4 DEF AnswersExplained
  <2>3. CASE n = 2
    <3>1. Next1 = "rent sysvar"
      BY <1>4, <2>3, CommandsInOrder
    <3>2. paramsAt'["rent sysvar"] \in Params /\ seen'["rent sysvar"] = Answer("rent sysvar")
      BY <1>3, <1>7, <3>1
    <3>3. seen'["rent sysvar"] = paramsAt'["rent sysvar"]
      BY <1>7, <3>1, <3>2 DEF Answer
    <3>4. \A c \in {"account"} : seen'[c] = seen[c] /\ paramsAt'[c] = paramsAt[c]
      BY <1>7, <3>1 DEF Names
    <3>5. Len(reads) >= 1 /\ ~(Len(reads') >= 3) /\ ~(Len(reads') >= 4) /\ ~(Len(reads') >= 5)
      BY <2>1, <2>3, Returned
    <3>6. QED BY <1>1, <3>2, <3>3, <3>4, <3>5 DEF AnswersExplained
  <2>4. CASE n = 3
    <3>1. Next1 = "rent space"
      BY <1>4, <2>4, CommandsInOrder
    <3>2. paramsAt'["rent space"] \in Params /\ seen'["rent space"] = Answer("rent space")
      BY <1>3, <1>7, <3>1
    <3>3. seen'["rent space"] = RentAt("rent space", seen["account"].space)'
      <4>1. seen'["account"] = seen["account"] /\ paramsAt'["rent space"] = cluster.params
        BY <1>7, <3>1 DEF Names
      <4>2. QED BY <3>2, <4>1 DEF Answer, AskedSpace, RpcRent, RentAt
    <3>4. \A c \in {"account", "rent sysvar"} : seen'[c] = seen[c] /\ paramsAt'[c] = paramsAt[c]
      BY <1>7, <3>1 DEF Names
    <3>5. Len(reads) >= 1 /\ Len(reads) >= 2 /\ ~(Len(reads') >= 4) /\ ~(Len(reads') >= 5)
      BY <2>1, <2>4, Returned
    <3>6. QED BY <1>1, <3>2, <3>3, <3>4, <3>5 DEF AnswersExplained
  <2>5. CASE n = 4
    <3>1. Next1 = "rent 0"
      BY <1>4, <2>5, CommandsInOrder
    <3>2. paramsAt'["rent 0"] \in Params /\ seen'["rent 0"] = Answer("rent 0")
      BY <1>3, <1>7, <3>1
    <3>3. seen'["rent 0"] = RentAt("rent 0", 0)'
      <4>1. paramsAt'["rent 0"] = cluster.params
        BY <1>7, <3>1
      <4>2. QED BY <3>2, <4>1 DEF Answer, RpcRent, RentAt
    <3>4. \A c \in {"account", "rent sysvar", "rent space"} : seen'[c] = seen[c] /\ paramsAt'[c] = paramsAt[c]
      BY <1>7, <3>1 DEF Names
    <3>5. RentAt("rent space", seen["account"].space)' = RentAt("rent space", seen["account"].space)
      BY <3>4 DEF RentAt
    <3>6. Len(reads) >= 1 /\ Len(reads) >= 2 /\ Len(reads) >= 3 /\ ~(Len(reads') >= 5)
      BY <2>1, <2>5, Returned
    <3>7. QED BY <1>1, <3>2, <3>3, <3>4, <3>5, <3>6 DEF AnswersExplained
  <2>6. CASE n = 5
    <3>1. Next1 = "rent 1"
      BY <1>4, <2>6, CommandsInOrder
    <3>2. paramsAt'["rent 1"] \in Params /\ seen'["rent 1"] = Answer("rent 1")
      BY <1>3, <1>7, <3>1
    <3>3. seen'["rent 1"] = RentAt("rent 1", 1)'
      <4>1. paramsAt'["rent 1"] = cluster.params
        BY <1>7, <3>1
      <4>2. QED BY <3>2, <4>1 DEF Answer, RpcRent, RentAt
    <3>4. \A c \in {"account", "rent sysvar", "rent space", "rent 0"} : seen'[c] = seen[c] /\ paramsAt'[c] = paramsAt[c]
      BY <1>7, <3>1 DEF Names
    <3>5. /\ RentAt("rent space", seen["account"].space)' = RentAt("rent space", seen["account"].space)
          /\ RentAt("rent 0", 0)' = RentAt("rent 0", 0)
      BY <3>4 DEF RentAt
    <3>6. Len(reads) >= 1 /\ Len(reads) >= 2 /\ Len(reads) >= 3 /\ Len(reads) >= 4
      BY <2>1, <2>6, Returned
    <3>7. QED BY <1>1, <3>2, <3>3, <3>4, <3>5, <3>6 DEF AnswersExplained
  <2>7. QED BY <2>1, <2>2, <2>3, <2>4, <2>5, <2>6
<1>9. VerdictsStand'
  BY <1>1, <1>2 DEF VerdictsStand
<1>10. QED BY <1>6, <1>8, <1>9 DEF InspectorInv

LEMMA InvStep == InspectorInv /\ [Next]_vars => InspectorInv'
<1> SUFFICES ASSUME InspectorInv, [Next]_vars PROVE InspectorInv'
  OBVIOUS
<1>1. TypeOK /\ AnswersExplained /\ VerdictsStand
  BY DEF InspectorInv
<1>2. CASE ReadOne
  BY <1>2, ReadOneStep
<1>3. CASE CrossCheck
  <2>1. ~Busy /\ check' = Verdicts /\ UNCHANGED <<cluster, reads, seen, paramsAt>>
    BY <1>3 DEF CrossCheck
  <2>2. TypeOK' /\ AnswersExplained'
    BY <1>1, <2>1 DEF TypeOK, AnswersExplained, RentAt
  <2>3. Verdicts' = Verdicts /\ (Busy' <=> Busy)
    BY <2>1 DEF Verdicts, Minimum, Busy
  <2>4. VerdictsStand'
    BY <2>1, <2>3 DEF VerdictsStand
  <2>5. QED BY <2>2, <2>4 DEF InspectorInv
<1>4. CASE ParametersChange \/ AccountChanges \/ UNCHANGED vars
  <2>1. UNCHANGED <<reads, seen, check, paramsAt>>
    BY <1>4 DEF ParametersChange, AccountChanges, vars
  <2>2. cluster' \in [params : Params, account : Accounts]
    BY <1>1, <1>4 DEF ParametersChange, AccountChanges, vars, TypeOK
  <2>3. TypeOK' /\ AnswersExplained'
    BY <1>1, <2>1, <2>2 DEF TypeOK, AnswersExplained, RentAt
  <2>4. Verdicts' = Verdicts /\ (Busy' <=> Busy)
    BY <2>1 DEF Verdicts, Minimum, Busy
  <2>5. VerdictsStand'
    BY <1>1, <2>1, <2>4 DEF VerdictsStand
  <2>6. QED BY <2>3, <2>5 DEF InspectorInv
<1>5. QED BY <1>2, <1>3, <1>4 DEF Next

-----------------------------------------------------------------------------
(* The theorems. *)

\* Every answer stays that of its moment, whatever the cluster does after it.
THEOREM InspectorInvariant == Spec => []InspectorInv
<1>1. QED BY InvInit, InvStep, PTL DEF Spec

LEMMA AllAnswered ==
  ASSUME InspectorInv, check # <<>>
  PROVE  /\ seen["account"] \in Accounts
         /\ \A c \in Names : paramsAt[c] \in Params
         /\ seen["rent sysvar"] = paramsAt["rent sysvar"]
         /\ seen["rent space"] = RentAt("rent space", seen["account"].space)
         /\ seen["rent 0"] = RentAt("rent 0", 0)
         /\ seen["rent 1"] = RentAt("rent 1", 1)
         /\ check[1] = Verdict(seen["rent space"] = Minimum)
         /\ check[2] = Verdict(Overhead128(seen["rent 0"], seen["rent 1"]))
         /\ check[3] = Exempt(seen["account"].lamports, Minimum)
<1>1. ~Busy /\ check = Verdicts
  BY DEF InspectorInv, VerdictsStand
<1>2. Len(reads) = 5
  <2>1. reads \in Seq(Names) /\ Len(reads) <= 5 /\ ~(Len(reads) < 5)
    BY <1>1, FiveCommands DEF InspectorInv, TypeOK, Busy
  <2>2. Len(reads) \in Nat
    BY <2>1, LenProperties
  <2>3. \A n \in Nat : n <= 5 /\ ~(n < 5) => n = 5
    OBVIOUS
  <2>4. QED BY <2>1, <2>2, <2>3
<1>3. /\ Len(reads) >= 1 /\ Len(reads) >= 2 /\ Len(reads) >= 3
      /\ Len(reads) >= 4 /\ Len(reads) >= 5
  BY <1>2
<1>4. AnswersExplained
  BY DEF InspectorInv
<1>5. QED BY <1>1, <1>3, <1>4 DEF AnswersExplained, Verdicts, Names

\* The first two cross-checks decide the overhead, for all whole rates.
THEOREM OverheadDecided == Spec => []ChecksDecideOverhead
<1>1. InspectorInv => ChecksDecideOverhead
  <2> DEFINE p == paramsAt["rent sysvar"]
             o == p.overhead
             s == seen["account"].space
             k == PerByte(p)
             got == seen["rent space"]
             zero == seen["rent 0"]
             one == seen["rent 1"]
  <2>1. SUFFICES ASSUME InspectorInv, check # <<>>,
                        Unchanged({"rent sysvar", "rent space", "rent 0", "rent 1"}),
                        WholeRate(p)
                 PROVE  check[1] = Verdict(o = 128) /\ check[2] = Verdict(o = 128)
    BY DEF ChecksDecideOverhead
  <2>2. p \in Params /\ o \in Nat /\ s \in Nat
    BY <2>1, AllAnswered, ParamsAssumption DEF Names
  <2>3. paramsAt["rent space"] = p /\ paramsAt["rent 0"] = p /\ paramsAt["rent 1"] = p
    BY <2>1 DEF Unchanged
  <2>4. /\ seen["rent space"] = MinimumBalance(o, p, s)
        /\ seen["rent 0"] = MinimumBalance(o, p, 0)
        /\ seen["rent 1"] = MinimumBalance(o, p, 1)
        /\ Minimum = MinimumBalance(128, p, s)
    BY <2>1, <2>3, AllAnswered DEF RentAt, Minimum, STORAGE_OVERHEAD
  <2> HIDE DEF p, o, s
  <2>5. k \in Nat \ {0}
    BY <2>1, <2>2, LinearMinimum
  <2>6. /\ got = (o + s) * k /\ Minimum = (128 + s) * k
        /\ zero = (o + 0) * k /\ one = (o + 1) * k
    BY <2>1, <2>2, <2>4, LinearMinimum
  <2> HIDE DEF k, got, zero, one
  <2>7. got = Minimum <=> o = 128
    <3>1. o + s \in Nat /\ 128 + s \in Nat /\ (o + s = 128 + s <=> o = 128)
      BY <2>2
    <3>2. (o + s) * k = (128 + s) * k <=> o + s = 128 + s
      BY <2>5, <3>1, SameProduct
    <3>3. QED BY <2>6, <3>1, <3>2
  <2>8. Overhead128(zero, one) <=> o = 128
    <3>1. one - zero = k /\ zero = o * k /\ o * k \in Nat
      BY <2>2, <2>5, <2>6, NextProduct
    <3>2. one # zero
      BY <2>2, <2>5, <2>6, SameProduct
    <3>3. o * k = 128 * k <=> o = 128
      BY <2>2, <2>5, SameProduct
    <3>4. QED BY <3>1, <3>2, <3>3 DEF Overhead128, STORAGE_OVERHEAD
  <2>9. check[1] = Verdict(got = Minimum) /\ check[2] = Verdict(Overhead128(zero, one))
    BY <2>1, AllAnswered DEF got, zero, one
  <2>10. QED BY <2>7, <2>8, <2>9 DEF Verdict
<1>2. QED BY <1>1, InspectorInvariant, PTL

\* The verdict on the account is the cluster's, for all rates.
THEOREM ExemptDecided == Spec => []ExemptAsTheClusterSays
<1>1. InspectorInv => ExemptAsTheClusterSays
  <2> DEFINE a == seen["account"]
             p == paramsAt["account"]
  <2>1. SUFFICES ASSUME InspectorInv, check # <<>>,
                        Unchanged({"account", "rent sysvar", "rent space"}), check[1] = "OK"
                 PROVE  check[3] = (a.lamports >= MinimumBalance(p.overhead, p, a.space))
    BY DEF ExemptAsTheClusterSays
  <2>2. paramsAt["rent space"] = p
    BY <2>1 DEF Unchanged
  <2>3. seen["rent space"] = MinimumBalance(p.overhead, p, a.space)
    BY <2>1, <2>2, AllAnswered DEF RentAt
  <2>4. seen["rent space"] = Minimum
    BY <2>1, AllAnswered DEF Verdict
  <2>5. QED BY <2>1, <2>3, <2>4, AllAnswered DEF Exempt
<1>2. QED BY <1>1, InspectorInvariant, PTL

=============================================================================
