------------------------- MODULE TokenScriptsProofs -------------------------
(***************************************************************************)
(* The theorems about the clients of exercises 06 and 03: main's view of   *)
(* the ledger is right after every call of its script, so what it prints   *)
(* is what it made, and it fails only where somebody else can make it.     *)
(***************************************************************************)
EXTENDS SplTokenClient, FourPrograms, TokenClientProofs

-----------------------------------------------------------------------------
(* Where main is in its script. *)

LEMMA Position ==
  ASSUME NEW S, NEW s \in Seq(S), NEW n \in 0 .. Len(s),
         NEW t, t = SubSeq(s, n + 1, Len(s))
  PROVE  /\ Len(t) = Len(s) - n
         /\ t = <<>> <=> n = Len(s)
         /\ n < Len(s) => /\ Head(t) = s[n + 1]
                          /\ Tail(t) = SubSeq(s, n + 2, Len(s))
                          /\ Len(Tail(t)) = Len(s) - (n + 1)
<1>1. Len(s) \in Nat
  OBVIOUS
<1>2. /\ t \in Seq(S) /\ Len(t) = Len(s) - n
      /\ \A i \in 1 .. Len(s) - n : t[i] = s[n + i]
  BY <1>1, SubSeqProperties
<1>3. t = <<>> <=> n = Len(s)
  <2>1. t = <<>> => Len(t) = 0
    BY EmptySeq
  <2>2. t # <<>> => Len(t) \in Nat \ {0}
    BY <1>2, EmptySeq
  <2>3. QED BY <1>1, <1>2, <2>1, <2>2
<1>4. ASSUME n < Len(s)
      PROVE  /\ Head(t) = s[n + 1]
             /\ Tail(t) = SubSeq(s, n + 2, Len(s))
             /\ Len(Tail(t)) = Len(s) - (n + 1)
  <2> DEFINE u == SubSeq(s, n + 2, Len(s))
  <2>1. t # <<>> /\ 1 \in 1 .. Len(s) - n
    BY <1>1, <1>3, <1>4
  <2>2. Head(t) = s[n + 1]
    BY <1>2, <2>1
  <2>3. /\ Tail(t) \in Seq(S) /\ Len(Tail(t)) = Len(t) - 1
        /\ \A i \in 1 .. Len(Tail(t)) : Tail(t)[i] = t[i + 1]
    BY <1>2, <2>1, HeadTailProperties
  <2>4. /\ u \in Seq(S) /\ Len(u) = Len(s) - (n + 1)
        /\ \A i \in 1 .. Len(u) : u[i] = s[n + 1 + i]
    BY <1>1, <1>4, SubSeqProperties
  <2>5. Len(Tail(t)) = Len(s) - (n + 1)
    BY <1>1, <1>2, <2>3
  <2> HIDE DEF u
  <2>6. \A i \in 1 .. Len(u) : Tail(t)[i] = u[i]
    BY <1>1, <1>2, <1>4, <2>3, <2>4, <2>5
  <2>7. Tail(t) = u
    BY <2>3, <2>4, <2>5, <2>6, SeqEqual
  <2>8. QED BY <2>2, <2>5, <2>7 DEF u
<1>5. QED BY <1>2, <1>3, <1>4

LEMMA WholeSubSeq ==
  ASSUME NEW S, NEW s \in Seq(S)
  PROVE  SubSeq(s, 0 + 1, Len(s)) = s
<1> DEFINE u == SubSeq(s, 0 + 1, Len(s))
<1>1. Len(s) \in Nat /\ \A i \in 0 + 1 .. Len(s) : s[i] \in S
  BY ElementOfSeq
<1>2. /\ u \in Seq(S) /\ Len(u) = Len(s)
      /\ \A i \in 1 .. Len(s) : u[i] = s[i]
  BY <1>1, SubSeqProperties
<1> HIDE DEF u
<1>3. u = s
  BY <1>2, SeqEqual
<1>4. QED BY <1>3 DEF u

-----------------------------------------------------------------------------
(* What the decoders cut out of an account. *)

LEMMA AccountOffsets ==
  /\ DOMAIN AccountLayout = 1 .. 8
  /\ LET o == Offsets(AccountLayout)
     IN  /\ o[1] = 0 /\ o[2] = 32 /\ o[3] = 64 /\ o[4] = 72 /\ o[5] = 108
         /\ o[6] = 109 /\ o[7] = 121 /\ o[8] = 129 /\ o[9] = 165
<1> DEFINE w == <<32, 32, 8, 36, 1, 12, 8, 36>>
           P(o) == o = [i \in 1 .. 9 |-> IF i = 1 THEN 0 ELSE o[i - 1] + w[i - 1]]
           g == [i \in 1 .. 9 |->
                   IF i = 1 THEN 0 ELSE IF i = 2 THEN 32 ELSE IF i = 3 THEN 64
                   ELSE IF i = 4 THEN 72 ELSE IF i = 5 THEN 108 ELSE IF i = 6 THEN 109
                   ELSE IF i = 7 THEN 121 ELSE IF i = 8 THEN 129 ELSE 165]
<1>1. /\ Len(AccountLayout) = 8 /\ DOMAIN AccountLayout = 1 .. 8
      /\ \A i \in 1 .. 8 : AccountLayout[i][2] = w[i]
  BY DEF AccountLayout
<1>2. P(g)
  <2>1. \A i \in 1 .. 9 : g[i] = IF i = 1 THEN 0 ELSE g[i - 1] + w[i - 1]
    OBVIOUS
  <2>2. g = [i \in 1 .. 9 |-> g[i]]
    OBVIOUS
  <2> HIDE DEF g, w
  <2>3. QED BY <2>1, <2>2
<1>3. Offsets(AccountLayout) = CHOOSE o : P(o)
  <2>1. \A o : P(o) <=>
          o = [i \in 1 .. Len(AccountLayout) + 1 |->
                 IF i = 1 THEN 0 ELSE o[i - 1] + AccountLayout[i - 1][2]]
    <3> HIDE DEF w
    <3>1. \A i \in 1 .. 9 : i # 1 => AccountLayout[i - 1][2] = w[i - 1]
      BY <1>1
    <3>2. QED BY <1>1, <3>1
  <2>2. QED BY <2>1 DEF Offsets
<1> HIDE DEF P
<1>4. P(Offsets(AccountLayout))
  BY <1>2, <1>3
<1>5. QED BY <1>1, <1>4 DEF P

LEMMA MintOffsets ==
  /\ DOMAIN MintLayout = 1 .. 5
  /\ LET o == Offsets(MintLayout)
     IN  o[1] = 0 /\ o[2] = 36 /\ o[3] = 44 /\ o[4] = 45 /\ o[5] = 46 /\ o[6] = 82
<1> DEFINE w == <<36, 8, 1, 1, 36>>
           P(o) == o = [i \in 1 .. 6 |-> IF i = 1 THEN 0 ELSE o[i - 1] + w[i - 1]]
           g == [i \in 1 .. 6 |->
                   IF i = 1 THEN 0 ELSE IF i = 2 THEN 36 ELSE IF i = 3 THEN 44
                   ELSE IF i = 4 THEN 45 ELSE IF i = 5 THEN 46 ELSE 82]
<1>1. /\ Len(MintLayout) = 5 /\ DOMAIN MintLayout = 1 .. 5
      /\ \A i \in 1 .. 5 : MintLayout[i][2] = w[i]
  BY DEF MintLayout
<1>2. P(g)
  <2>1. \A i \in 1 .. 6 : g[i] = IF i = 1 THEN 0 ELSE g[i - 1] + w[i - 1]
    OBVIOUS
  <2>2. g = [i \in 1 .. 6 |-> g[i]]
    OBVIOUS
  <2> HIDE DEF g, w
  <2>3. QED BY <2>1, <2>2
<1>3. Offsets(MintLayout) = CHOOSE o : P(o)
  <2>1. \A o : P(o) <=>
          o = [i \in 1 .. Len(MintLayout) + 1 |->
                 IF i = 1 THEN 0 ELSE o[i - 1] + MintLayout[i - 1][2]]
    <3> HIDE DEF w
    <3>1. \A i \in 1 .. 6 : i # 1 => MintLayout[i - 1][2] = w[i - 1]
      BY <1>1
    <3>2. QED BY <1>1, <3>1
  <2>2. QED BY <2>1 DEF Offsets
<1> HIDE DEF P
<1>4. P(Offsets(MintLayout))
  BY <1>2, <1>3
<1>5. QED BY <1>1, <1>4 DEF P

\* Bytes between two offsets are one field; a name the data does not have is
\* an optional value that is not set.
LEMMA FieldBytes ==
  ASSUME NEW d, NEW layout, layout = IF d.kind = "mint" THEN MintLayout ELSE AccountLayout,
         NEW i \in DOMAIN layout,
         \A j \in DOMAIN layout : Offsets(layout)[j] = Offsets(layout)[i] => j = i,
         NEW name, name = layout[i][1]
  PROVE  BytesOf(d, Offsets(layout)[i], Offsets(layout)[i + 1])
           = IF name \in DOMAIN d THEN d[name] ELSE "none"
<1> DEFINE from == Offsets(layout)[i]
           to == Offsets(layout)[i + 1]
           hit(j) == Offsets(layout)[j] = from /\ Offsets(layout)[j + 1] = to
<1>1. \A j \in DOMAIN layout : hit(j) <=> j = i
  OBVIOUS
<1> HIDE DEF from, to
<1>2. (\E j \in DOMAIN layout : hit(j)) /\ i = CHOOSE j \in DOMAIN layout : hit(j)
  <2> HIDE DEF hit
  <2>1. QED BY <1>1
<1>3. BytesOf(d, from, to) =
        IF \E j \in DOMAIN layout : hit(j)
        THEN LET nm == layout[CHOOSE j \in DOMAIN layout : hit(j)][1]
             IN  IF nm \in DOMAIN d THEN d[nm] ELSE "none"
        ELSE "garbage"
  BY Zenon DEF BytesOf
<1> HIDE DEF hit
<1>4. BytesOf(d, from, to) = IF name \in DOMAIN d THEN d[name] ELSE "none"
  BY <1>2, <1>3
<1>5. QED BY <1>4 DEF from, to

LEMMA AccountBytes ==
  ASSUME NEW m, NEW w, NEW n, NEW h
  PROVE  LET d == Fields(m, w, n, h)
         IN  /\ BytesOf(d, 0, 32) = m /\ BytesOf(d, 32, 64) = w
             /\ BytesOf(d, 64, 72) = n /\ BytesOf(d, 72, 108) = "none"
             /\ BytesOf(d, 108, 109) = "Initialized" /\ BytesOf(d, 109, 121) = "none"
             /\ BytesOf(d, 121, 129) = "none" /\ BytesOf(d, 129, 165) = "none"
<1> DEFINE d == Fields(m, w, n, h)
           o == Offsets(AccountLayout)
           at(name) == IF name \in DOMAIN d THEN d[name] ELSE "none"
<1>1. /\ d.kind = "account" /\ at("mint") = m /\ at("owner") = w /\ at("amount") = n
      /\ at("delegate") = "none" /\ at("state") = "Initialized"
      /\ at("is_native") = "none" /\ at("delegated_amount") = "none"
      /\ at("close_authority") = "none"
  BY DEF Fields
<1>2. /\ o[1] = 0 /\ o[2] = 32 /\ o[3] = 64 /\ o[4] = 72 /\ o[5] = 108
      /\ o[6] = 109 /\ o[7] = 121 /\ o[8] = 129 /\ o[9] = 165
      /\ DOMAIN AccountLayout = 1 .. 8
  BY AccountOffsets
<1> HIDE DEF d, o
<1>3. AccountLayout = IF d.kind = "mint" THEN MintLayout ELSE AccountLayout
  BY <1>1
<1>4. \A i \in 1 .. 8 : \A j \in 1 .. 8 : o[j] = o[i] => j = i
  BY <1>2
<1> HIDE DEF at
<1>5. ASSUME NEW i \in 1 .. 8
      PROVE  BytesOf(d, o[i], o[i + 1]) = at(AccountLayout[i][1])
  <2>1. i \in DOMAIN AccountLayout
    BY <1>2
  <2>2. \A j \in DOMAIN AccountLayout :
          Offsets(AccountLayout)[j] = Offsets(AccountLayout)[i] => j = i
    BY <1>2, <1>4 DEF o
  <2>3. BytesOf(d, Offsets(AccountLayout)[i], Offsets(AccountLayout)[i + 1])
          = IF AccountLayout[i][1] \in DOMAIN d THEN d[AccountLayout[i][1]] ELSE "none"
    BY <1>3, <2>1, <2>2, FieldBytes
  <2>4. QED BY <2>3, Zenon DEF o, at
<1>6. /\ AccountLayout[1][1] = "mint" /\ AccountLayout[2][1] = "owner"
      /\ AccountLayout[3][1] = "amount" /\ AccountLayout[4][1] = "delegate"
      /\ AccountLayout[5][1] = "state" /\ AccountLayout[6][1] = "is_native"
      /\ AccountLayout[7][1] = "delegated_amount" /\ AccountLayout[8][1] = "close_authority"
  BY DEF AccountLayout
<1>7. /\ BytesOf(d, o[1], o[2]) = at("mint") /\ BytesOf(d, o[2], o[3]) = at("owner")
      /\ BytesOf(d, o[3], o[4]) = at("amount") /\ BytesOf(d, o[4], o[5]) = at("delegate")
      /\ BytesOf(d, o[5], o[6]) = at("state") /\ BytesOf(d, o[6], o[7]) = at("is_native")
      /\ BytesOf(d, o[7], o[8]) = at("delegated_amount")
      /\ BytesOf(d, o[8], o[9]) = at("close_authority")
  BY <1>5, <1>6
<1>8. QED BY <1>1, <1>2, <1>7 DEF d

-----------------------------------------------------------------------------
(* The client of exercise 06. *)

AliceAta == AtaOf(Alice)
BobAta   == AtaOf(Bob)

\* The calls of its script.
LEMMA SplCalls ==
  /\ Len(SplScript) = 14
  /\ SplScript[1]  = Sent(<<NewMint, InitMint>>, {mint})
  /\ SplScript[2]  = ShowMint("new_mint")
  /\ SplScript[3]  = Sent(<<OpenAta(Alice)>>, {})
  /\ SplScript[4]  = ShowTokenAccount("new_account", AliceAta)
  /\ SplScript[5]  = Sent(<<Issue(1000000000)>>, {})
  /\ SplScript[6]  = ShowMint("minted")
  /\ SplScript[7]  = ShowTokenAccount("funded", AliceAta)
  /\ SplScript[8]  = Simulate("too_early", Pay(1))
  /\ SplScript[9]  = Sent(<<OpenAta(Bob), Pay(250000000)>>, {})
  /\ SplScript[10] = ShowTokenAccount("sender", AliceAta)
  /\ SplScript[11] = ShowTokenAccount("receiver", BobAta)
  /\ SplScript[12] = Read("mint", mint, [supply |-> <<36, 44>>])
  /\ SplScript[13] = Read("alice", AliceAta, AmountBytes)
  /\ SplScript[14] = Read("bob", BobAta, AmountBytes)
<1> DEFINE a1 == Sent(<<NewMint, InitMint>>, {mint})
           a2 == ShowMint("new_mint")
           a3 == Sent(<<OpenAta(Alice)>>, {})
           a4 == ShowTokenAccount("new_account", AliceAta)
           a5 == Sent(<<Issue(1000000000)>>, {})
           a6 == ShowMint("minted")
           a7 == ShowTokenAccount("funded", AliceAta)
           a8 == Simulate("too_early", Pay(1))
           a9 == Sent(<<OpenAta(Bob), Pay(250000000)>>, {})
           a10 == ShowTokenAccount("sender", AliceAta)
           a11 == ShowTokenAccount("receiver", BobAta)
           a12 == Read("mint", mint, [supply |-> <<36, 44>>])
           a13 == Read("alice", AliceAta, AmountBytes)
           a14 == Read("bob", BobAta, AmountBytes)
<1>1. SplScript = <<a1, a2>> \o <<a3, a4, a5, a6, a7>> \o <<a8>>
                    \o <<a9, a10, a11>> \o <<a12, a13, a14>>
  BY SMT DEF SplScript, CreateMint, FundAlice, TooEarly, PayBob, Invariant,
     AliceAta, BobAta
<1> HIDE DEF a1, a2, a3, a4, a5, a6, a7, a8, a9, a10, a11, a12, a13, a14
<1>2. /\ Len(SplScript) = 14
      /\ SplScript[1] = a1 /\ SplScript[2] = a2 /\ SplScript[3] = a3
      /\ SplScript[4] = a4 /\ SplScript[5] = a5 /\ SplScript[6] = a6
      /\ SplScript[7] = a7 /\ SplScript[8] = a8 /\ SplScript[9] = a9
      /\ SplScript[10] = a10 /\ SplScript[11] = a11 /\ SplScript[12] = a12
      /\ SplScript[13] = a13 /\ SplScript[14] = a14
  BY <1>1
<1>3. SplScript[1]  = Sent(<<NewMint, InitMint>>, {mint})
  BY <1>2, SMT DEF a1
<1>4. SplScript[2]  = ShowMint("new_mint")
  BY <1>2, SMT DEF a2
<1>5. SplScript[3]  = Sent(<<OpenAta(Alice)>>, {})
  BY <1>2, SMT DEF a3
<1>6. SplScript[4]  = ShowTokenAccount("new_account", AliceAta)
  BY <1>2, SMT DEF a4
<1>7. SplScript[5]  = Sent(<<Issue(1000000000)>>, {})
  BY <1>2, SMT DEF a5
<1>8. SplScript[6]  = ShowMint("minted")
  BY <1>2, SMT DEF a6
<1>9. SplScript[7]  = ShowTokenAccount("funded", AliceAta)
  BY <1>2, SMT DEF a7
<1>10. SplScript[8]  = Simulate("too_early", Pay(1))
  BY <1>2, SMT DEF a8
<1>11. SplScript[9]  = Sent(<<OpenAta(Bob), Pay(250000000)>>, {})
  BY <1>2, SMT DEF a9
<1>12. SplScript[10] = ShowTokenAccount("sender", AliceAta)
  BY <1>2, SMT DEF a10
<1>13. SplScript[11] = ShowTokenAccount("receiver", BobAta)
  BY <1>2, SMT DEF a11
<1>14. SplScript[12] = Read("mint", mint, [supply |-> <<36, 44>>])
  BY <1>2, SMT DEF a12
<1>15. SplScript[13] = Read("alice", AliceAta, AmountBytes)
  BY <1>2, SMT DEF a13
<1>16. SplScript[14] = Read("bob", BobAta, AmountBytes)
  BY <1>2, SMT DEF a14
<1>17. QED
  BY <1>2, <1>3, <1>4, <1>5, <1>6, <1>7, <1>8, <1>9, <1>10, <1>11, <1>12, <1>13, <1>14, <1>15, <1>16, SMT

LEMMA SplScriptIsSeq == \E S : SplScript \in Seq(S)
<1> DEFINE X1 == {CreateMint[i] : i \in 1 .. 2}
           X2 == {FundAlice[i] : i \in 1 .. 5}
           X3 == {TooEarly[i] : i \in 1 .. 1}
           X4 == {PayBob[i] : i \in 1 .. 3}
           X5 == {Invariant[i] : i \in 1 .. 3}
           S == X1 \cup X2 \cup X3 \cup X4 \cup X5
<1>1. /\ CreateMint \in Seq(X1) /\ FundAlice \in Seq(X2) /\ TooEarly \in Seq(X3)
      /\ PayBob \in Seq(X4) /\ Invariant \in Seq(X5)
  BY DEF CreateMint, FundAlice, TooEarly, PayBob, Invariant
<1> HIDE DEF X1, X2, X3, X4, X5
<1>2. /\ CreateMint \in Seq(S) /\ FundAlice \in Seq(S) /\ TooEarly \in Seq(S)
      /\ PayBob \in Seq(S) /\ Invariant \in Seq(S)
  BY <1>1
<1> HIDE DEF S
<1>3. SplScript \in Seq(S)
  BY <1>2 DEF SplScript
<1>4. QED BY <1>3

SplSupply(n) == IF n < 5 THEN 0 ELSE 1000000000

\* main's view after n calls.
LEMMA SplMintIs ==
  ASSUME NEW n \in Nat
  PROVE  LET d == SplMint(n)
         IN  /\ d = [kind |-> "mint", authority |-> Alice, decimals |-> DECIMALS,
                     is_initialized |-> TRUE, supply |-> SplSupply(n), fee |-> NoFee]
             /\ d.kind = "mint" /\ d.authority = Alice /\ d.decimals = DECIMALS
             /\ d.supply = SplSupply(n) /\ d.fee = NoFee
<1> DEFINE k == SplSupply(n)
           f == NoFee
           dec == DECIMALS
           yes == TRUE
           e == [kind |-> "mint", authority |-> Alice, decimals |-> dec,
                 is_initialized |-> yes, supply |-> 0, fee |-> f]
           x == [kind |-> "mint", authority |-> Alice, decimals |-> dec,
                 is_initialized |-> yes, supply |-> k, fee |-> f]
<1>1. SplMint(n) = [e EXCEPT !.supply = k]
  BY SMT DEF SplMint, Mint, SplSupply
<1> HIDE DEF k, f, dec, yes
<1>2. [e EXCEPT !.supply = k] = x
  OBVIOUS
<1>3. /\ x.kind = "mint" /\ x.authority = Alice /\ x.decimals = dec
      /\ x.supply = k /\ x.fee = f
  OBVIOUS
<1> HIDE DEF x, e
<1>4. /\ SplMint(n) = x
      /\ SplMint(n).kind = "mint" /\ SplMint(n).authority = Alice
      /\ SplMint(n).decimals = dec /\ SplMint(n).supply = k /\ SplMint(n).fee = f
  BY <1>1, <1>2, <1>3, Zenon
<1>5. QED BY <1>4, SMT DEF k, f, dec, yes, x

LEMMA SplViewIs ==
  ASSUME NEW n \in Nat
  PROVE  LET v == SplView(n)
         IN  /\ v.plain = {} /\ v.floor = 0
             /\ DOMAIN v.mints = IF n < 1 THEN {} ELSE {mint}
             /\ n >= 1 => /\ mint \in DOMAIN v.mints
                          /\ v.mints[mint].program = "Token"
                          /\ v.mints[mint].data = SplMint(n)
                          /\ v.mints[mint].held = SplHeld(n)
                          /\ v.mints[mint].cap = 0
             /\ v.open = (IF n < 3 THEN {} ELSE {<<Alice, mint>>})
                           \cup (IF n < 9 THEN {} ELSE {<<Bob, mint>>})
<1> DEFINE d == SplMint(n)
           h == SplHeld(n)
           t == "Token"
           c == 0
           r == Row(t, d, h, c)
           D == IF n < 1 THEN {} ELSE {mint}
           o == (IF n < 3 THEN {} ELSE {<<Alice, mint>>})
                  \cup (IF n < 9 THEN {} ELSE {<<Bob, mint>>})
           ms == [m \in D |-> r]
<1>1. SplView(n) = [plain |-> {}, floor |-> c, mints |-> ms, open |-> o]
  BY SMT DEF SplView
<1> HIDE DEF d, h, t, c, o, r, D
<1>2. r.program = t /\ r.data = d /\ r.held = h /\ r.cap = c
  BY DEF Row, r
<1>3. DOMAIN ms = D /\ (mint \in D => ms[mint] = r)
  OBVIOUS
<1>4. n >= 1 => mint \in D
  BY DEF D
<1> HIDE DEF ms
<1>5. /\ SplView(n).plain = {} /\ SplView(n).floor = c /\ SplView(n).mints = ms
      /\ SplView(n).open = o
  BY <1>1
<1>6. QED BY <1>2, <1>3, <1>4, <1>5, SMT DEF d, h, t, c, o, D

LEMMA SplHeldIs ==
  ASSUME NEW n \in Nat
  PROVE  LET h == SplHeld(n)
         IN  /\ h \in [Wallets -> Nat]
             /\ h[Alice] = IF n < 5 THEN 0 ELSE IF n < 9 THEN 1000000000 ELSE 750000000
             /\ h[Bob] = IF n < 9 THEN 0 ELSE 250000000
             /\ \A w \in Wallets : w \notin {Alice, Bob} => h[w] = 0
             /\ \A w \in Wallets : h[w] # 0 =>
                  (w = Alice /\ n >= 5) \/ (w = Bob /\ n >= 9)
<1> DEFINE h == SplHeld(n)
           a == IF n < 5 THEN 0 ELSE IF n < 9 THEN 1000000000 ELSE 750000000
           b == IF n < 9 THEN 0 ELSE 250000000
<1>1. Alice \in Wallets /\ Bob \in Wallets /\ Alice # Bob
  BY SplKeysAssumption
<1>2. h = [w \in Wallets |-> CASE w = Alice -> a [] w = Bob -> b [] OTHER -> 0]
  BY SMT DEF SplHeld
<1>3. a \in Nat /\ b \in Nat /\ (a # 0 => n >= 5) /\ (b # 0 => n >= 9)
  BY SMT
<1> HIDE DEF a, b, h
<1>4. /\ DOMAIN h = Wallets /\ h[Alice] = a /\ h[Bob] = b
      /\ \A w \in Wallets : w \notin {Alice, Bob} => h[w] = 0
  BY <1>1, <1>2
<1>5. h = [w \in Wallets |-> h[w]]
  BY <1>2
<1>6. h \in [Wallets -> Nat]
  BY <1>3, <1>4, <1>5
<1>7. \A w \in Wallets : h[w] # 0 => (w = Alice /\ n >= 5) \/ (w = Bob /\ n >= 9)
  BY <1>3, <1>4
<1>8. QED BY <1>4, <1>6, <1>7, SMT DEF a, b, h

LEMMA SplViewSane ==
  ASSUME NEW n \in Nat
  PROVE  Sane(SplView(n))
<1> DEFINE v == SplView(n)
<1>1. /\ v.plain = {} /\ v.floor = 0
      /\ DOMAIN v.mints = IF n < 1 THEN {} ELSE {mint}
      /\ v.open = (IF n < 3 THEN {} ELSE {<<Alice, mint>>})
                    \cup (IF n < 9 THEN {} ELSE {<<Bob, mint>>})
  BY SplViewIs, SMT
<1>2. n >= 1 => /\ v.mints[mint].program = "Token"
                /\ v.mints[mint].data = SplMint(n)
                /\ v.mints[mint].held = SplHeld(n)
                /\ v.mints[mint].cap = 0
  BY SplViewIs, SMT
<1> HIDE DEF v
<1>3. ASSUME n >= 1
      PROVE  SaneRow(v, mint)
  <2>1. /\ SplMint(n).kind = "mint" /\ SplMint(n).authority \in Wallets \ Others
        /\ SplMint(n).supply \in Nat
        /\ SplMint(n).fee.bps \in Nat /\ SplMint(n).fee.max \in Nat
    BY SplMintIs, SplKeysAssumption, SMT DEF SplSupply, NoFee
  <2>2. LET d == SplMint(n)
        IN  d = [kind |-> d.kind, authority |-> d.authority, decimals |-> d.decimals,
                 is_initialized |-> d.is_initialized, supply |-> d.supply, fee |-> d.fee]
    <3> DEFINE f == NoFee
               s == SplSupply(n)
               x == [kind |-> "mint", authority |-> Alice, decimals |-> DECIMALS,
                     is_initialized |-> TRUE, supply |-> s, fee |-> f]
    <3>1. SplMint(n) = x
      BY SplMintIs, SMT
    <3> HIDE DEF f, s
    <3>2. x = [kind |-> x.kind, authority |-> x.authority, decimals |-> x.decimals,
               is_initialized |-> x.is_initialized, supply |-> x.supply, fee |-> x.fee]
      OBVIOUS
    <3> HIDE DEF x
    <3>3. QED BY <3>1, <3>2, SMT
  <2>3. /\ SplHeld(n) \in [Wallets -> Nat]
        /\ \A w \in Wallets : SplHeld(n)[w] # 0 => <<w, mint>> \in v.open
        /\ \A o \in Others : SplHeld(n)[o] = 0
    BY <1>1, SplHeldIs, SplKeysAssumption, OthersAssumption, SMT
  <2>4. QED BY <1>2, <1>3, <2>1, <2>2, <2>3, SMT DEF SaneRow, TokenPrograms
<1>4. \A m \in DOMAIN v.mints : SaneRow(v, m)
  BY <1>1, <1>3, SMT
<1>5. v.open \subseteq Wallets \X DOMAIN v.mints
  BY <1>1, SplKeysAssumption, SMT
<1>6. /\ v.floor \in Nat /\ v.plain \subseteq NewKeys \ DOMAIN v.mints
      /\ DOMAIN v.mints \subseteq NewKeys
  BY <1>1, SplKeysAssumption, SMT
<1>7. QED BY <1>4, <1>5, <1>6, SMT DEF Sane, v

LEMMA SplAta ==
  ASSUME NEW n \in Nat, n >= 1, NEW w
  PROVE  AtaIn(SplView(n), w, mint) = AtaOf(w)
<1>1. SplView(n).mints[mint].program = "Token"
  BY SplViewIs
<1>2. QED BY <1>1, SMT DEF AtaIn, AtaOf, DeriveAta

\* Showing and simulating change nothing main believes.
LEMMA SplSameView ==
  ASSUME NEW n \in {1, 3, 5, 6, 7, 9, 10, 11, 12, 13}
  PROVE  SplView(n + 1) = SplView(n)
<1>1. /\ (n + 1 < 1) <=> (n < 1)
      /\ (n + 1 < 3) <=> (n < 3)
      /\ (n + 1 < 5) <=> (n < 5)
      /\ (n + 1 < 9) <=> (n < 9)
  BY SMT
<1>2. SplMint(n + 1) = SplMint(n)
  BY <1>1, SMT DEF SplMint
<1>3. SplHeld(n + 1) = SplHeld(n)
  <2> DEFINE k == n + 1
  <2> HIDE DEF k
  <2>1. \A w \in Wallets : SplHeld(k)[w] = SplHeld(n)[w]
    BY <1>1, SMT DEF SplHeld, k
  <2>2. DOMAIN SplHeld(k) = Wallets /\ DOMAIN SplHeld(n) = Wallets
    BY SMT DEF SplHeld
  <2>3. SplHeld(k) = [w \in Wallets |-> SplHeld(k)[w]] /\ SplHeld(n) = [w \in Wallets |-> SplHeld(n)[w]]
    BY SMT DEF SplHeld
  <2>4. SplHeld(k) = SplHeld(n)
    BY <2>1, <2>3
  <2>5. QED BY <2>4, SMT DEF k
<1>4. QED BY <1>1, <1>2, <1>3, SMT DEF SplView

\* What a transaction of main must make of a ledger that fits its view.
Outcome(l, c, v2) ==
  LET r == RunTransaction(l, c.ixs)
  IN  /\ r.err = "none" => Fits(r, v2) /\ Keeps(l, r)
      /\ r.err # "none" => \E i \in DOMAIN c.ixs :
                             c.ixs[i].op = "createAta" /\ Exists(l, c.ixs[i].ata)
      /\ Signed(c)

LEMMA SplCall1 ==
  ASSUME NEW l, Fits(l, SplView(0))
  PROVE  Outcome(l, SplScript[1], SplView(1))
<1> DEFINE v == SplView(0)
           v2 == SplView(1)
           c == SplScript[1]
<1>1. c.ixs = MintIxs(Alice, mint, Alice) /\ c.keys = {Alice, mint}
  BY SplCalls, SMT DEF Sent, Send, NewMint, InitMint, MintIxs, MINT_LEN
<1>2. Signed(c)
  BY <1>1, SMT DEF Signed, MintIxs, SysCreateAccount, InitializeMint2Ix
<1>3. Sane(v)
  BY SplViewSane, SMT
<1>4. v.plain = {} /\ v.floor = 0 /\ v.open = {} /\ DOMAIN v.mints = {}
  BY SplViewIs, SMT
<1>5. v2.plain = {} /\ v2.floor = 0 /\ v2.open = {} /\ DOMAIN v2.mints = {mint}
  BY SplViewIs, SMT
<1>6. v2.mints[mint].program = "Token" /\ v2.mints[mint].data = Mint(Alice, DECIMALS, NoFee)
  <2>1. SplMint(1) = Mint(Alice, DECIMALS, NoFee)
    <3>1. SplSupply(1) = 0
      BY SMT DEF SplSupply
    <3>2. QED BY <3>1, SplMintIs, SMT DEF Mint
  <2>2. QED BY <2>1, SplViewIs, SMT
<1>7. mint \in NewKeys
  BY SplKeysAssumption
<1> HIDE DEF v, v2, c
<1> DEFINE r == RunTransaction(l, MintIxs(Alice, mint, Alice))
<1>8. Fits(r, v2) /\ Keeps(l, r)
  <2>1. MintAdded(v, v2, mint, "Token", Mint(Alice, DECIMALS, NoFee))
    BY <1>4, <1>5, <1>6, <1>7, SMT DEF MintAdded
  <2>2. Fits(l, v)
    BY DEF v
  <2>3. QED BY <1>3, <2>1, <2>2, MintMade
<1> HIDE DEF r
<1>9. r.err = "none"
  BY <1>8 DEF Fits
<1>10. Outcome(l, c, v2)
  BY <1>1, <1>2, <1>8, <1>9 DEF Outcome, r
<1>11. QED BY <1>10, SMT DEF c, v2

\* Opening Alice's account.
LEMMA SplCall3 ==
  ASSUME NEW l, Fits(l, SplView(2))
  PROVE  Outcome(l, SplScript[3], SplView(3))
<1> DEFINE v == SplView(2)
           v2 == SplView(3)
           c == SplScript[3]
           ix == CreateAtaIx(Alice, Alice, mint, "Token")
           r == Execute(l, ix)
           a == AliceAta
<1>1. c.ixs = <<ix>> /\ c.keys = {Alice}
  BY SplCalls, SMT DEF Sent, Send, OpenAta
<1>2. ix.op = "createAta" /\ ix.ata = a /\ ix.signers = {Alice}
  BY DEF CreateAtaIx, AliceAta, AtaOf
<1>3. Sane(v) /\ Fits(l, v)
  BY SplViewSane, SMT
<1>4. /\ v.plain = {} /\ v.floor = 0 /\ v.open = {} /\ mint \in DOMAIN v.mints
      /\ v.mints[mint].program = "Token"
  BY SplViewIs, SMT
<1>5. AtaIn(v, Alice, mint) = a
  BY SplAta, SMT DEF AliceAta
<1>6. v2.plain = {} /\ v2.floor = 0 /\ v2.open = {<<Alice, mint>>} /\ v2.mints = v.mints
  <2>1. v2.plain = {} /\ v2.floor = 0 /\ v2.open = {<<Alice, mint>>}
    BY SplViewIs, SMT
  <2>2. SplMint(2) = SplMint(3)
    BY SMT DEF SplMint
  <2>3. SplHeld(2) = SplHeld(3)
    BY SMT DEF SplHeld
  <2>4. v2.mints = v.mints
    BY <2>2, <2>3, SMT DEF SplView
  <2>5. QED BY <2>1, <2>4
<1>7. Alice \in Wallets
  BY SplKeysAssumption
<1> HIDE DEF v, v2, c, ix, r, a
<1>8. /\ r.err = "none" => Fits(r, v) /\ Keeps(l, r) /\ Exists(r, a)
      /\ r.err # "none" => Exists(l, a)
  <2> DEFINE z == Execute(l, CreateAtaIx(Alice, Alice, mint, v.mints[mint].program))
  <2>1. r = z
    BY <1>4 DEF r, ix
  <2>2. /\ z.err = "none" => Fits(z, v) /\ Keeps(l, z) /\ Exists(z, AtaIn(v, Alice, mint))
        /\ z.err # "none" => Exists(l, AtaIn(v, Alice, mint))
    BY <1>3, <1>4, <1>7, OpenOutcome
  <2> HIDE DEF z
  <2>3. QED BY <1>5, <2>1, <2>2
<1>9. r.err = "none" => Fits(r, v2)
  <2>1. \A e \in v2.open : e[1] = Alice /\ e[2] = mint
    BY <1>6
  <2>2. Exists(r, a) => \A e \in v2.open : AtaIn(v, e[1], e[2]) \in DOMAIN r.accts
    BY <1>5, <2>1 DEF Exists
  <2>3. v2.plain = v.plain /\ v2.floor = v.floor /\ v2.mints = v.mints
    BY <1>4, <1>6
  <2>4. QED BY <1>3, <1>8, <2>2, <2>3, Opened
<1>10. RunTransaction(l, c.ixs) = r
  BY <1>1, RunOne DEF r
<1>11. Signed(c)
  BY <1>1, <1>2 DEF Signed
<1>12. 1 \in DOMAIN c.ixs /\ c.ixs[1] = ix
  BY <1>1
<1>13. Outcome(l, c, v2)
  <2>1. r.err # "none" => \E i \in DOMAIN c.ixs :
                            c.ixs[i].op = "createAta" /\ Exists(l, c.ixs[i].ata)
    BY <1>2, <1>8, <1>12
  <2>2. QED BY <1>8, <1>9, <1>10, <1>11, <2>1 DEF Outcome
<1>14. QED BY <1>13, SMT DEF c, v2

\* A view counts on an account it has opened.
LEMMA OpenExists ==
  ASSUME NEW l, NEW v, Fits(l, v), NEW w, NEW m, <<w, m>> \in v.open
  PROVE  Exists(l, AtaIn(v, w, m))
<1> DEFINE e == <<w, m>>
<1>1. e[1] = w /\ e[2] = m
  OBVIOUS
<1>2. AtaIn(v, e[1], e[2]) \in DOMAIN l.accts
  BY DEF Fits
<1>3. QED BY <1>1, <1>2 DEF Exists

\* Issuing to Alice.
LEMMA SplCall5 ==
  ASSUME NEW l, Fits(l, SplView(4))
  PROVE  Outcome(l, SplScript[5], SplView(5))
<1> DEFINE v == SplView(4)
           v2 == SplView(5)
           c == SplScript[5]
           n == 1000000000
           tok == "Token"
           a == AliceAta
           ix == MintToIx(tok, mint, a, Alice, n)
           r == Execute(l, ix)
<1>1. c.ixs = <<ix>> /\ c.keys = {Alice}
  BY SplCalls, SMT DEF Sent, Send, Issue, AliceAta
<1>2. ix.signers = {Alice}
  BY SMT DEF MintToIx
<1>3. Sane(v) /\ Sane(v2) /\ Fits(l, v)
  BY SplViewSane, SMT
<1>4. /\ v.plain = {} /\ v.floor = 0 /\ v.open = {<<Alice, mint>>}
      /\ DOMAIN v.mints = {mint}
      /\ v.mints[mint].program = tok /\ v.mints[mint].cap = 0
      /\ v.mints[mint].data = SplMint(4) /\ v.mints[mint].held = SplHeld(4)
  BY SplViewIs, SMT
<1>5. /\ v2.plain = {} /\ v2.floor = 0 /\ v2.open = {<<Alice, mint>>}
      /\ DOMAIN v2.mints = {mint}
      /\ v2.mints[mint].program = tok /\ v2.mints[mint].cap = 0
      /\ v2.mints[mint].data = SplMint(5) /\ v2.mints[mint].held = SplHeld(5)
  BY SplViewIs, SMT
<1>6. /\ SplHeld(4)[Alice] = 0 /\ SplHeld(5)[Alice] = n
      /\ \A w \in Wallets : w # Alice => SplHeld(5)[w] = SplHeld(4)[w]
  <2>1. SplHeld(4)[Alice] = 0 /\ SplHeld(5)[Alice] = n /\ SplHeld(4)[Bob] = 0 /\ SplHeld(5)[Bob] = 0
    BY SplHeldIs, SMT
  <2>2. \A w \in Wallets : w \notin {Alice, Bob} => SplHeld(5)[w] = 0 /\ SplHeld(4)[w] = 0
    BY SplHeldIs, SMT
  <2>3. QED BY <2>1, <2>2, SMT
<1>7. /\ SplMint(4).authority = Alice /\ SplMint(4).supply = 0
      /\ SplMint(5) = [SplMint(4) EXCEPT !.supply = @ + n]
  <2> DEFINE zero == 0
             yes == TRUE
             f == NoFee
             x == [kind |-> "mint", authority |-> Alice, decimals |-> DECIMALS,
                   is_initialized |-> yes, supply |-> zero, fee |-> f]
             y == [kind |-> "mint", authority |-> Alice, decimals |-> DECIMALS,
                   is_initialized |-> yes, supply |-> n, fee |-> f]
  <2>1. SplMint(4) = x /\ SplMint(5) = y
    BY SplMintIs, SMT DEF SplSupply
  <2>2. zero + n = n
    BY SMT
  <2> HIDE DEF zero, n, yes, f
  <2>3. x.authority = Alice /\ x.supply = zero /\ y = [x EXCEPT !.supply = zero + n]
    BY <2>2
  <2> HIDE DEF x, y
  <2>4. y = [x EXCEPT !.supply = x.supply + n]
    BY <2>3
  <2>5. SplMint(4).authority = Alice /\ SplMint(4).supply = zero
    BY <2>1, <2>3
  <2>6. SplMint(5) = [SplMint(4) EXCEPT !.supply = SplMint(4).supply + n]
    BY <2>1, <2>4
  <2>7. QED BY <2>5, <2>6, SMT DEF zero
<1>8. Alice \in Wallets /\ n \in Nat /\ 0 + n = n /\ n <= MaxU64
  BY SplKeysAssumption, SupplyAssumption, SMT
<1>9. AtaIn(v, Alice, mint) = a
  BY SplAta, SMT DEF AliceAta
<1> HIDE DEF v, v2, c, ix, r, a, n, tok
<1>10. Issued(v, v2, mint, Alice, n)
  BY <1>4, <1>5, <1>6, <1>7, <1>8 DEF Issued
<1>11. Exists(l, AtaIn(v, Alice, mint))
  BY <1>3, <1>4, OpenExists
<1>12. Fits(r, v2) /\ Keeps(l, r)
  <2> DEFINE z == Execute(l, MintToIx(v.mints[mint].program, mint, AtaIn(v, Alice, mint),
                                      v.mints[mint].data.authority, n))
  <2>1. v.mints[mint].data.supply + n <= MaxU64
    BY <1>4, <1>7, <1>8
  <2>2. Fits(z, v2) /\ Keeps(l, z)
    BY <1>3, <1>4, <1>8, <1>10, <1>11, <2>1, MintToOutcome
  <2>3. r = z
    BY <1>4, <1>7, <1>9 DEF r, ix
  <2> HIDE DEF z
  <2>4. QED BY <2>2, <2>3
<1>13. r.err = "none"
  BY <1>12 DEF Fits
<1>14. RunTransaction(l, c.ixs) = r
  BY <1>1, RunOne DEF r
<1>15. Signed(c)
  BY <1>1, <1>2 DEF Signed
<1>16. Outcome(l, c, v2)
  BY <1>12, <1>13, <1>14, <1>15 DEF Outcome
<1>17. QED BY <1>16, SMT DEF c, v2

\* The transfer that comes too early is refused, unless somebody else has
\* opened the account for Bob by then.
LEMMA SplCall8 ==
  ASSUME NEW l, Fits(l, SplView(7))
  PROVE  \/ RunTransaction(l, SplScript[8].ixs).err = "InvalidAccountData"
         \/ Exists(l, BobAta)
<1> DEFINE v == SplView(7)
           c == SplScript[8]
           tok == "Token"
           a == AliceAta
           b == BobAta
           ix == TransferCheckedIx(tok, a, mint, b, Alice, 1)
           r == Execute(l, ix)
<1>1. c.ixs = <<ix>>
  BY SplCalls, SMT DEF Simulate, Pay, AliceAta, BobAta
<1>2. Sane(v) /\ Fits(l, v)
  BY SplViewSane, SMT
<1>3. /\ v.open = {<<Alice, mint>>} /\ mint \in DOMAIN v.mints
      /\ v.mints[mint].program = tok
      /\ v.mints[mint].data = SplMint(7) /\ v.mints[mint].held = SplHeld(7)
  BY SplViewIs, SMT
<1>4. SplHeld(7)[Alice] >= 1 /\ SplMint(7).decimals = DECIMALS
  BY SplHeldIs, SplMintIs, SMT
<1>5. AtaIn(v, Alice, mint) = a /\ AtaIn(v, Bob, mint) = b
  BY SplAta, SMT DEF AliceAta, BobAta
<1>6. Alice \in Wallets /\ Bob \in Wallets /\ Alice # Bob
  BY SplKeysAssumption
<1> HIDE DEF v, c, tok, a, b, ix, r
<1>7. Exists(l, AtaIn(v, Alice, mint))
  BY <1>2, <1>3, OpenExists
<1>8. ~Exists(l, b) => r = Failed(l, "InvalidAccountData")
  <2>1. /\ AtaIn(v, Alice, mint) \in DOMAIN l.accts
        /\ 1 \in Nat /\ 1 <= v.mints[mint].held[Alice]
        /\ v.mints[mint].data.decimals = DECIMALS
    <3>1. SplHeld(7)[Alice] \in Nat
      BY <1>6, SplHeldIs, SMT
    <3>2. QED BY <1>3, <1>4, <1>7, <3>1 DEF Exists
  <2>2. ~Exists(l, AtaIn(v, Bob, mint)) =>
          Execute(l, TransferCheckedIx(v.mints[mint].program, AtaIn(v, Alice, mint), mint,
                                       AtaIn(v, Bob, mint), Alice, 1))
            = Failed(l, "InvalidAccountData")
    BY <1>2, <1>3, <1>6, <2>1, TransferOutcome
  <2>3. QED BY <1>3, <1>5, <2>2 DEF r, ix
<1>9. RunTransaction(l, c.ixs) = r
  BY <1>1, RunOne DEF r
<1>10. RunTransaction(l, c.ixs).err = "InvalidAccountData" \/ Exists(l, b)
  BY <1>8, <1>9 DEF Failed
<1>11. QED BY <1>10, SMT DEF c, b

\* Paying Bob.
LEMMA SplCall9 ==
  ASSUME NEW l, Fits(l, SplView(8))
  PROVE  Outcome(l, SplScript[9], SplView(9))
<1> DEFINE v == SplView(8)
           v2 == SplView(9)
           vm == [plain |-> v.plain, floor |-> v.floor, mints |-> v.mints, open |-> v2.open]
           c == SplScript[9]
           n == 250000000
           tok == "Token"
           a == AliceAta
           b == BobAta
           ix == CreateAtaIx(Alice, Bob, mint, tok)
           iy == TransferCheckedIx(tok, a, mint, b, Alice, n)
           l1 == Execute(l, ix)
           r == Execute(l1, iy)
<1>1. c.ixs = <<ix, iy>> /\ c.keys = {Alice}
  BY SplCalls, SMT DEF Sent, Send, OpenAta, Pay, AliceAta, BobAta
<1>2. ix.op = "createAta" /\ ix.ata = b /\ ix.signers = {Alice} /\ iy.signers = {Alice}
  BY SMT DEF CreateAtaIx, TransferCheckedIx, BobAta, AtaOf
<1>3. Sane(v) /\ Sane(v2) /\ Fits(l, v)
  BY SplViewSane, SMT
<1>4. /\ v.plain = {} /\ v.floor = 0 /\ v.open = {<<Alice, mint>>}
      /\ DOMAIN v.mints = {mint}
      /\ v.mints[mint].program = tok /\ v.mints[mint].cap = 0
      /\ v.mints[mint].data = SplMint(8) /\ v.mints[mint].held = SplHeld(8)
  BY SplViewIs, SMT
<1>5. /\ v2.plain = {} /\ v2.floor = 0 /\ v2.open = {<<Alice, mint>>, <<Bob, mint>>}
      /\ DOMAIN v2.mints = {mint}
      /\ v2.mints[mint].program = tok /\ v2.mints[mint].cap = 0
      /\ v2.mints[mint].data = SplMint(9) /\ v2.mints[mint].held = SplHeld(9)
  BY SplViewIs, SMT
<1>6. /\ SplHeld(8)[Alice] = 1000000000 /\ SplHeld(9)[Alice] = SplHeld(8)[Alice] - n
      /\ SplHeld(8)[Bob] = 0 /\ SplHeld(9)[Bob] = SplHeld(8)[Bob] + n - 0
      /\ \A w \in Wallets : w \notin {Alice, Bob} => SplHeld(9)[w] = SplHeld(8)[w]
  BY SplHeldIs, SMT
<1>7. SplMint(9) = SplMint(8) /\ SplMint(8).decimals = DECIMALS /\ SplMint(8).fee = NoFee
  <2>1. SplMint(9) = SplMint(8)
    BY SMT DEF SplMint
  <2>2. QED BY <2>1, SplMintIs, SMT
<1>8. /\ Alice \in Wallets /\ Bob \in Wallets /\ Alice # Bob
      /\ n \in Nat /\ n <= 1000000000 /\ 0 \in Nat /\ 0 <= n
  BY SplKeysAssumption, SMT
<1>9. AtaIn(v, Alice, mint) = a /\ AtaIn(v, Bob, mint) = b
  BY SplAta, SMT DEF AliceAta, BobAta
<1>10. FeeOf(NoFee, n) = 0
  BY SMT DEF FeeOf, NoFee
<1>11. /\ vm.plain = v.plain /\ vm.floor = v.floor /\ vm.mints = v.mints
       /\ vm.open = v2.open
  OBVIOUS
<1> HIDE DEF v, v2, vm, c, n, tok, a, b, ix, iy, l1, r
<1>12. Sane(vm)
  <2>1. \A m \in DOMAIN v.mints : SaneRow(vm, m)
    <3>1. v.open \subseteq vm.open
      BY <1>4, <1>5, <1>11
    <3>2. \A m \in DOMAIN v.mints : SaneRow(v, m)
      BY <1>3 DEF Sane
    <3>3. QED BY <1>11, <3>1, <3>2 DEF SaneRow
  <2>2. vm.open \subseteq Wallets \X DOMAIN v.mints
    BY <1>3, <1>4, <1>5, <1>11 DEF Sane
  <2>3. QED BY <1>3, <1>11, <2>1, <2>2 DEF Sane
<1>13. /\ l1.err = "none" => Fits(l1, v) /\ Keeps(l, l1) /\ Exists(l1, b)
       /\ l1.err # "none" => Exists(l, b)
  <2> DEFINE z == Execute(l, CreateAtaIx(Alice, Bob, mint, v.mints[mint].program))
  <2>1. l1 = z
    BY <1>4 DEF l1, ix
  <2>2. mint \in DOMAIN v.mints
    BY <1>4
  <2>3. /\ z.err = "none" => Fits(z, v) /\ Keeps(l, z) /\ Exists(z, AtaIn(v, Bob, mint))
        /\ z.err # "none" => Exists(l, AtaIn(v, Bob, mint))
    BY <1>3, <1>8, <2>2, OpenOutcome
  <2> HIDE DEF z
  <2>4. QED BY <1>9, <2>1, <2>3
<1>14. ASSUME l1.err = "none"
       PROVE  Fits(r, v2) /\ Keeps(l, r) /\ r.err = "none"
  <2>1. Exists(l1, a)
    <3>1. Exists(l1, AtaIn(v, Alice, mint))
      BY <1>4, <1>13, <1>14, OpenExists
    <3>2. QED BY <1>9, <3>1
  <2>2. Fits(l1, vm)
    <3>1. \A e \in vm.open : e[2] = mint /\ (e[1] = Alice \/ e[1] = Bob)
      BY <1>5, <1>11
    <3>2. \A e \in vm.open : AtaIn(v, e[1], e[2]) \in DOMAIN l1.accts
      BY <1>9, <1>13, <1>14, <2>1, <3>1 DEF Exists
    <3>3. QED BY <1>3, <1>11, <1>13, <1>14, <3>2, Opened
  <2>3. AtaIn(vm, Alice, mint) = a /\ AtaIn(vm, Bob, mint) = b
    BY <1>9, <1>11 DEF AtaIn
  <2>4. Moved(vm, v2, mint, Alice, Bob, n, 0)
    BY <1>4, <1>5, <1>6, <1>7, <1>11 DEF Moved
  <2>5. /\ mint \in DOMAIN vm.mints /\ n <= vm.mints[mint].held[Alice]
        /\ vm.mints[mint].data.decimals = DECIMALS
        /\ 0 = FeeOf(vm.mints[mint].data.fee, n)
    BY <1>4, <1>6, <1>7, <1>8, <1>10, <1>11
  <2>6. Exists(l1, AtaIn(vm, Alice, mint)) /\ Exists(l1, AtaIn(vm, Bob, mint))
    BY <1>13, <1>14, <2>1, <2>3
  <2> DEFINE z == Execute(l1, TransferCheckedIx(vm.mints[mint].program,
                    AtaIn(vm, Alice, mint), mint, AtaIn(vm, Bob, mint), Alice, n))
  <2>7. Fits(z, v2) /\ Keeps(l1, z)
    BY <1>8, <1>12, <2>2, <2>4, <2>5, <2>6, TransferFits
  <2>8. r = z
    BY <1>4, <1>11, <2>3 DEF r, iy
  <2> HIDE DEF z
  <2>9. Keeps(l, r)
    BY <1>13, <1>14, <2>7, <2>8 DEF Keeps
  <2>10. QED BY <2>7, <2>8, <2>9 DEF Fits
<1>15. l1.err # "none" => r = l1
  BY ErrorStays DEF r
<1>16. RunTransaction(l, c.ixs) = r
  BY <1>1, RunTwo DEF r, l1
<1>17. Signed(c)
  BY <1>1, <1>2 DEF Signed
<1>18. 1 \in DOMAIN c.ixs /\ c.ixs[1] = ix
  BY <1>1
<1>19. Outcome(l, c, v2)
  <2>1. r.err # "none" => \E i \in DOMAIN c.ixs :
                            c.ixs[i].op = "createAta" /\ Exists(l, c.ixs[i].ata)
    BY <1>2, <1>13, <1>14, <1>18
  <2>2. r.err = "none" => Fits(r, v2) /\ Keeps(l, r)
    BY <1>14, <1>15
  <2>3. QED BY <1>16, <1>17, <2>1, <2>2 DEF Outcome
<1>20. QED BY <1>19, SMT DEF c, v2

\* What the accounts contain.
LEMMA SplAccountData ==
  ASSUME NEW l, NEW n \in Nat, n >= 1, Fits(l, SplView(n)),
         NEW w \in Wallets, Exists(l, AtaOf(w))
  PROVE  l.accts[AtaOf(w)].data = Fields(mint, w, SplHeld(n)[w], 0)
<1> DEFINE v == SplView(n)
           x == l.accts[AtaIn(v, w, mint)].data
           h == SplHeld(n)[w]
<1>1. Sane(v) /\ Fits(l, v)
  BY SplViewSane
<1>2. mint \in DOMAIN v.mints /\ v.mints[mint].held[w] = h /\ v.mints[mint].cap = 0
  BY SplViewIs, SMT
<1>3. AtaIn(v, w, mint) = AtaOf(w)
  BY SplAta
<1> HIDE DEF v, h
<1>4. AtaIn(v, w, mint) \in DOMAIN l.accts
  BY <1>3 DEF Exists
<1>5. x.withheld \in 0 .. v.mints[mint].cap /\ x = Holding(mint, w, v.mints[mint].held[w], x.withheld)
  BY <1>1, <1>2, <1>4, HoldingOf
<1> HIDE DEF x
<1>6. x.withheld = 0
  BY <1>2, <1>5
<1>7. x = Holding(mint, w, h, 0)
  BY <1>2, <1>5, <1>6
<1>8. x = Fields(mint, w, h, 0)
  BY <1>7, HoldingIs
<1>9. QED BY <1>3, <1>8 DEF x, h

LEMMA SplMintData ==
  ASSUME NEW l, NEW n \in Nat, n >= 1, Fits(l, SplView(n))
  PROVE  Exists(l, mint) /\ l.accts[mint].data = SplMint(n)
<1> DEFINE v == SplView(n)
<1>1. Sane(v) /\ Fits(l, v)
  BY SplViewSane
<1>2. mint \in DOMAIN v.mints /\ v.mints[mint].data = SplMint(n)
  BY SplViewIs, SMT
<1> HIDE DEF v
<1>3. QED BY <1>1, <1>2, MintsThere DEF Exists

LEMMA SplMintBytes ==
  ASSUME NEW n \in Nat
  PROVE  LET d == SplMint(n)
         IN  /\ BytesOf(d, 0, 36) = Alice /\ BytesOf(d, 36, 44) = SplSupply(n)
             /\ BytesOf(d, 44, 45) = DECIMALS /\ BytesOf(d, 45, 46) = TRUE
             /\ BytesOf(d, 46, 82) = "none"
<1> DEFINE d == SplMint(n)
           o == Offsets(MintLayout)
           k == SplSupply(n)
           dec == DECIMALS
           yes == TRUE
           f == NoFee
           none == "none"
           at(name) == IF name \in DOMAIN d THEN d[name] ELSE none
<1>1. /\ d.kind = "mint" /\ at("authority") = Alice /\ at("supply") = k
      /\ at("decimals") = dec /\ at("is_initialized") = yes
      /\ at("freeze_authority") = none
  <2>1. d = [kind |-> "mint", authority |-> Alice, decimals |-> dec,
             is_initialized |-> yes, supply |-> k, fee |-> f]
    BY SplMintIs, SMT
  <2> HIDE DEF d, k, dec, yes, f, none
  <2>2. /\ d["kind"] = "mint" /\ d["authority"] = Alice /\ d["supply"] = k
        /\ d["decimals"] = dec /\ d["is_initialized"] = yes
    BY <2>1
  <2>3. DOMAIN d = {"kind", "authority", "decimals", "is_initialized", "supply", "fee"}
    BY <2>1
  <2> HIDE DEF at
  <2>4. \A name : at(name) = IF name \in DOMAIN d THEN d[name] ELSE none
    BY Zenon DEF at
  <2>5. QED BY <2>2, <2>3, <2>4
<1>2. /\ o[1] = 0 /\ o[2] = 36 /\ o[3] = 44 /\ o[4] = 45 /\ o[5] = 46 /\ o[6] = 82
      /\ DOMAIN MintLayout = 1 .. 5
  BY MintOffsets
<1> HIDE DEF d, o, k, dec, yes, at
<1>3. MintLayout = IF d.kind = "mint" THEN MintLayout ELSE AccountLayout
  BY <1>1
<1>4. \A i \in 1 .. 5 : \A j \in 1 .. 5 : o[j] = o[i] => j = i
  BY <1>2
<1>5. ASSUME NEW i \in 1 .. 5
      PROVE  BytesOf(d, o[i], o[i + 1]) = at(MintLayout[i][1])
  <2>1. i \in DOMAIN MintLayout
    BY <1>2
  <2>2. \A j \in DOMAIN MintLayout :
          Offsets(MintLayout)[j] = Offsets(MintLayout)[i] => j = i
    BY <1>2, <1>4 DEF o
  <2>3. BytesOf(d, Offsets(MintLayout)[i], Offsets(MintLayout)[i + 1])
          = IF MintLayout[i][1] \in DOMAIN d THEN d[MintLayout[i][1]] ELSE "none"
    BY <1>3, <2>1, <2>2, FieldBytes
  <2>4. QED BY <2>3, Zenon DEF o, at
<1>6. /\ MintLayout[1][1] = "authority" /\ MintLayout[2][1] = "supply"
      /\ MintLayout[3][1] = "decimals" /\ MintLayout[4][1] = "is_initialized"
      /\ MintLayout[5][1] = "freeze_authority"
  BY DEF MintLayout
<1>7. /\ BytesOf(d, o[1], o[2]) = at("authority") /\ BytesOf(d, o[2], o[3]) = at("supply")
      /\ BytesOf(d, o[3], o[4]) = at("decimals")
      /\ BytesOf(d, o[4], o[5]) = at("is_initialized")
      /\ BytesOf(d, o[5], o[6]) = at("freeze_authority")
  BY <1>5, <1>6
<1>8. /\ BytesOf(d, 0, 36) = Alice /\ BytesOf(d, 36, 44) = k
      /\ BytesOf(d, 44, 45) = dec /\ BytesOf(d, 45, 46) = yes
      /\ BytesOf(d, 46, 82) = none
  <2> HIDE DEF none
  <2>1. QED BY <1>1, <1>2, <1>7, Zenon
<1>9. QED BY <1>8, Zenon DEF d, k, dec, yes

\* What a call that reads bytes prints of an account.
Printed(c, d) ==
  [f \in DOMAIN c.fields |-> BytesOf(d, c.fields[f][1], c.fields[f][2])]

LEMMA SplAccountShown ==
  ASSUME NEW what, NEW key, NEW w, NEW n
  PROVE  Printed(ShowTokenAccount(what, key), Fields(mint, w, n, 0)) =
           [mint |-> mint, owner |-> w, amount |-> n,
            delegate |-> "none", state |-> "Initialized", is_native |-> "none",
            delegated_amount |-> "none", close_authority |-> "none"]
<1> DEFINE fs == [mint |-> <<0, 32>>, owner |-> <<32, 64>>, amount |-> <<64, 72>>,
                  delegate |-> <<72, 108>>, state |-> <<108, 109>>,
                  is_native |-> <<109, 121>>, delegated_amount |-> <<121, 129>>,
                  close_authority |-> <<129, 165>>]
           names == {"mint", "owner", "amount", "delegate", "state", "is_native",
                     "delegated_amount", "close_authority"}
           d == Fields(mint, w, n, 0)
           none == "none"
           init == "Initialized"
           pr == [f \in names |-> BytesOf(d, fs[f][1], fs[f][2])]
           rec == [mint |-> mint, owner |-> w, amount |-> n,
                   delegate |-> none, state |-> init, is_native |-> none,
                   delegated_amount |-> none, close_authority |-> none]
<1>1. Printed(ShowTokenAccount(what, key), d) = pr
  <2>1. ShowTokenAccount(what, key).fields = fs
    BY SMT DEF ShowTokenAccount, Read
  <2>2. DOMAIN fs = names
    BY SMT
  <2> HIDE DEF fs, names, d
  <2>3. QED BY <2>1, <2>2 DEF Printed
<1>2. /\ BytesOf(d, 0, 32) = mint /\ BytesOf(d, 32, 64) = w
      /\ BytesOf(d, 64, 72) = n /\ BytesOf(d, 72, 108) = none
      /\ BytesOf(d, 108, 109) = init /\ BytesOf(d, 109, 121) = none
      /\ BytesOf(d, 121, 129) = none /\ BytesOf(d, 129, 165) = none
  BY AccountBytes
<1> HIDE DEF d, none, init
<1>3. /\ pr["mint"] = mint /\ pr["owner"] = w /\ pr["amount"] = n
      /\ pr["delegate"] = none /\ pr["state"] = init /\ pr["is_native"] = none
      /\ pr["delegated_amount"] = none /\ pr["close_authority"] = none
  BY <1>2
<1>4. pr = [f \in names |-> pr[f]] /\ rec = [f \in names |-> rec[f]]
  OBVIOUS
<1>5. \A f \in names : pr[f] = rec[f]
  BY <1>3
<1> HIDE DEF pr, rec, names
<1>6. pr = rec
  BY <1>4, <1>5
<1>7. QED BY <1>1, <1>6, SMT DEF rec, none, init, d

LEMMA SplMintShown ==
  ASSUME NEW what, NEW n \in Nat
  PROVE  Printed(ShowMint(what), SplMint(n)) =
           [mint_authority |-> Alice, supply |-> SplSupply(n), decimals |-> DECIMALS,
            is_initialized |-> TRUE, freeze_authority |-> "none"]
<1> DEFINE fs == [mint_authority |-> <<0, 36>>, supply |-> <<36, 44>>,
                  decimals |-> <<44, 45>>, is_initialized |-> <<45, 46>>,
                  freeze_authority |-> <<46, 82>>]
           names == {"mint_authority", "supply", "decimals", "is_initialized",
                     "freeze_authority"}
           d == SplMint(n)
           k == SplSupply(n)
           dec == DECIMALS
           yes == TRUE
           none == "none"
           pr == [f \in names |-> BytesOf(d, fs[f][1], fs[f][2])]
           rec == [mint_authority |-> Alice, supply |-> k, decimals |-> dec,
                   is_initialized |-> yes, freeze_authority |-> none]
<1>1. Printed(ShowMint(what), d) = pr
  <2>1. ShowMint(what).fields = fs
    BY SMT DEF ShowMint, Read
  <2>2. DOMAIN fs = names
    BY SMT
  <2> HIDE DEF fs, names, d
  <2>3. QED BY <2>1, <2>2 DEF Printed
<1>2. /\ BytesOf(d, 0, 36) = Alice /\ BytesOf(d, 36, 44) = k
      /\ BytesOf(d, 44, 45) = dec /\ BytesOf(d, 45, 46) = yes
      /\ BytesOf(d, 46, 82) = none
  BY SplMintBytes
<1> HIDE DEF d, k, dec, yes, none
<1>3. /\ pr["mint_authority"] = Alice /\ pr["supply"] = k /\ pr["decimals"] = dec
      /\ pr["is_initialized"] = yes /\ pr["freeze_authority"] = none
  BY <1>2
<1>4. pr = [f \in names |-> pr[f]] /\ rec = [f \in names |-> rec[f]]
  OBVIOUS
<1>5. \A f \in names : pr[f] = rec[f]
  BY <1>3
<1> HIDE DEF pr, rec, names
<1>6. pr = rec
  BY <1>4, <1>5
<1>7. QED BY <1>1, <1>6, SMT DEF rec, d, k, dec, yes, none

-----------------------------------------------------------------------------
(* A step, for any script whose calls do to a view what they should. *)

\* The call c leads from the view v to v2.
Leads(c, v, v2) ==
  /\ c.call \in {"send", "simulate", "read", "lamports"}
  /\ c.call = "send"  => \A l : Fits(l, v) => Outcome(l, c, v2)
  /\ c.call # "send" => v2 = v

\* main is after call n of s, and the ledger fits its view; one more
\* transaction may have landed when main did not hear of it.
Stands(s, V, n) ==
  /\ n \in 0 .. Len(s)
  /\ todo = SubSeq(s, n + 1, Len(s))
  /\ outcome \in {"running", "failed", "rpc_error"}
  /\ \/ Fits(ledger, V[n])
     \/ outcome = "rpc_error" /\ Fits(ledger, V[n + 1])
  /\ FailsOnlyOnForeignAta

\* main has made its next call, c, and printed what was to be printed.
Made(c) ==
  /\ outcome = "running"
  /\ Keeps(ledger, ledger')
  /\ c.call = "send" => RunTransaction(ledger, c.ixs).err = "none" /\ UNCHANGED report
  /\ c.call = "simulate" => Reported(c.what, RunTransaction(ledger, c.ixs).err)
  /\ c.call = "read" => Exists(ledger, c.key)
                        /\ Reported(c.what, Printed(c, ledger.accts[c.key].data))
  /\ c.call = "lamports" => Exists(ledger, c.key)
                            /\ Reported(c.what, ledger.accts[c.key].lamports)

\* The calls that go on, and the rest.
LEMMA CallMade ==
  ASSUME NEW S, NEW s \in Seq(S), NEW V, NEW n \in 0 .. Len(s), Stands(s, V, n),
         \A i \in 1 .. Len(s) : Leads(s[i], V[i - 1], V[i]),
         SendSucceeds \/ SimulationEnds \/ ReadBytes \/ ReadBalance
  PROVE  /\ n < Len(s) /\ n + 1 \in 0 .. Len(s)
         /\ Stands(s, V, n + 1)' /\ Fits(ledger, V[n]) /\ Made(s[n + 1])
<1> DEFINE c == s[n + 1]
           l == ledger
           l2 == ledger'
<1>1. Len(s) \in Nat /\ n \in Nat
  OBVIOUS
<1>2. outcome = "running" /\ todo # <<>>
  BY DEF SendSucceeds, SimulationEnds, ReadBytes, ReadBalance, Busy, Done
<1>3. todo = SubSeq(s, n + 1, Len(s))
  BY DEF Stands
<1>4. n < Len(s) /\ Current = c /\ Tail(todo) = SubSeq(s, n + 2, Len(s))
  BY <1>1, <1>2, <1>3, Position DEF Current
<1>5. Fits(l, V[n])
  BY <1>2 DEF Stands
<1>6. n + 1 \in 1 .. Len(s) /\ (n + 1) - 1 = n /\ (n + 1) + 1 = n + 2
  BY <1>1, <1>4
<1>7. Leads(c, V[n], V[n + 1])
  BY <1>6
<1>8. todo' = SubSeq(s, n + 2, Len(s)) /\ outcome' = "running"
  BY <1>2, <1>4 DEF SendSucceeds, SimulationEnds, ReadBytes, ReadBalance, GoOn
<1>9. Fits(l2, V[n + 1]) /\ Made(c)
  <2> HIDE DEF c
  <2>1. CASE SendSucceeds
    <3>1. /\ c.call = "send" /\ l2 = RunTransaction(l, c.ixs)
          /\ RunTransaction(l, c.ixs).err = "none" /\ UNCHANGED report
      BY <2>1, <1>4 DEF SendSucceeds, Accepted, After
    <3>2. Outcome(l, c, V[n + 1])
      BY <1>5, <1>7, <3>1 DEF Leads
    <3>3. Fits(l2, V[n + 1]) /\ Keeps(l, l2)
      BY <3>1, <3>2 DEF Outcome
    <3>4. QED BY <1>2, <3>1, <3>3 DEF Made
  <2>2. CASE SimulationEnds
    <3>1. c.call = "simulate" /\ l2 = l /\ Reported(c.what, RunTransaction(l, c.ixs).err)
      BY <2>2, <1>4 DEF SimulationEnds, After
    <3>2. QED BY <1>2, <1>5, <1>7, <3>1 DEF Made, Leads, Keeps
  <2>3. CASE ReadBytes
    <3>1. /\ c.call = "read" /\ l2 = l /\ Exists(l, c.key)
          /\ Reported(c.what, Printed(c, l.accts[c.key].data))
      BY <2>3, <1>4 DEF ReadBytes, Printed
    <3>2. QED BY <1>2, <1>5, <1>7, <3>1 DEF Made, Leads, Keeps
  <2>4. CASE ReadBalance
    <3>1. /\ c.call = "lamports" /\ l2 = l /\ Exists(l, c.key)
          /\ Reported(c.what, l.accts[c.key].lamports)
      BY <2>4, <1>4 DEF ReadBalance
    <3>2. QED BY <1>2, <1>5, <1>7, <3>1 DEF Made, Leads, Keeps
  <2>5. QED BY <2>1, <2>2, <2>3, <2>4
<1>10. FailsOnlyOnForeignAta'
  BY <1>8 DEF FailsOnlyOnForeignAta
<1>11. Stands(s, V, n + 1)'
  BY <1>6, <1>8, <1>9, <1>10 DEF Stands
<1>12. QED BY <1>4, <1>5, <1>6, <1>9, <1>11

LEMMA MainWaits ==
  ASSUME NEW S, NEW s \in Seq(S), NEW V, NEW n \in 0 .. Len(s), Stands(s, V, n),
         \A i \in Nat : Sane(V[i]),
         \A i \in 1 .. Len(s) : Leads(s[i], V[i - 1], V[i]),
         SendFails \/ RpcFails \/ OthersAct \/ UNCHANGED vars
  PROVE  /\ Stands(s, V, n)' /\ UNCHANGED <<todo, report>>
         /\ Keeps(ledger, ledger')
<1> DEFINE c == s[n + 1]
           l == ledger
           l2 == ledger'
<1>1. Len(s) \in Nat /\ n \in Nat
  OBVIOUS
<1>2. todo = SubSeq(s, n + 1, Len(s))
  BY DEF Stands
<1>3. UNCHANGED <<todo, report>>
  BY DEF SendFails, RpcFails, OthersAct, vars, AfterError
<1>4. (todo # <<>>) => /\ n < Len(s) /\ Current = c /\ n + 1 \in 1 .. Len(s)
                       /\ (n + 1) - 1 = n
  BY <1>1, <1>2, Position DEF Current
<1>5. (todo # <<>>) => Leads(c, V[n], V[n + 1])
  BY <1>4
<1>6. Current' = Current
  BY <1>3 DEF Current
<1> HIDE DEF c
<1>7. /\ outcome' \in {"running", "failed", "rpc_error"}
      /\ \/ Fits(l2, V[n])
         \/ outcome' = "rpc_error" /\ Fits(l2, V[n + 1])
      /\ FailsOnlyOnForeignAta' /\ Keeps(l, l2)
  <2>1. CASE SendFails
    <3>1. /\ outcome = "running" /\ todo # <<>> /\ Current.call = "send"
          /\ ~Accepted(Current) /\ outcome' = "failed" /\ l2 = l
      BY <2>1 DEF SendFails, Busy, Done, AfterError
    <3>2. Fits(l, V[n]) /\ c = Current
      BY <1>4, <3>1 DEF Stands
    <3>3. Outcome(l, c, V[n + 1])
      BY <1>5, <3>1, <3>2 DEF Leads
    <3>4. RunTransaction(l, c.ixs).err # "none"
      BY <3>1, <3>2, <3>3 DEF Outcome, Accepted, After
    <3>5. \E i \in DOMAIN Current.ixs :
             Current.ixs[i].op = "createAta" /\ Exists(l, Current.ixs[i].ata)
      BY <3>2, <3>3, <3>4 DEF Outcome
    <3>6. FailsOnlyOnForeignAta'
      BY <1>6, <3>1, <3>5 DEF FailsOnlyOnForeignAta, Exists
    <3>7. QED BY <3>1, <3>2, <3>6 DEF Keeps
  <2>2. CASE RpcFails
    <3>1. /\ outcome = "running" /\ todo # <<>> /\ outcome' = "rpc_error"
          /\ l2 = l \/ (Current.call = "send" /\ l2 = Landed(Current.ixs))
      BY <2>2 DEF RpcFails, Busy, Done
    <3>2. Fits(l, V[n]) /\ c = Current
      BY <1>4, <3>1 DEF Stands
    <3>3. FailsOnlyOnForeignAta'
      BY <3>1 DEF FailsOnlyOnForeignAta
    <3>4. CASE l2 = l
      BY <3>1, <3>2, <3>3, <3>4 DEF Keeps
    <3>5. CASE l2 # l
      <4>1. /\ c.call = "send" /\ l2 = RunTransaction(l, c.ixs)
            /\ RunTransaction(l, c.ixs).err = "none"
        BY <3>1, <3>2, <3>5 DEF Landed, After
      <4>2. Outcome(l, c, V[n + 1])
        BY <1>5, <3>1, <3>2, <4>1 DEF Leads
      <4>3. Fits(l2, V[n + 1]) /\ Keeps(l, l2)
        BY <4>1, <4>2 DEF Outcome
      <4>4. QED BY <3>1, <3>3, <4>3
    <3>6. QED BY <3>4, <3>5
  <2>3. CASE OthersAct
    <3>1. outcome' = outcome
      BY <2>3 DEF OthersAct
    <3>2. \A i \in Nat : Fits(l, V[i]) => Fits(l2, V[i]) /\ Keeps(l, l2)
      BY <2>3, OthersKeep
    <3>3. n + 1 \in Nat
      BY <1>1
    <3>4. /\ Fits(l2, V[n]) \/ (outcome' = "rpc_error" /\ Fits(l2, V[n + 1]))
          /\ Keeps(l, l2)
      BY <1>1, <3>1, <3>2, <3>3 DEF Stands
    <3>5. FailsOnlyOnForeignAta'
      <4>1. FailsOnlyOnForeignAta
        BY DEF Stands
      <4>2. \A a : Exists(l, a) => Exists(l2, a)
        BY <3>4 DEF Keeps, Exists
      <4>3. QED BY <1>6, <3>1, <4>1, <4>2 DEF FailsOnlyOnForeignAta
    <3>6. QED BY <3>1, <3>4, <3>5 DEF Stands
  <2>4. CASE UNCHANGED vars
    <3>1. outcome' = outcome /\ l2 = l /\ todo' = todo
      BY <2>4 DEF vars
    <3>2. FailsOnlyOnForeignAta'
      BY <1>6, <3>1 DEF FailsOnlyOnForeignAta, Stands, Exists
    <3>3. QED BY <3>1, <3>2 DEF Stands, Keeps
  <2>5. QED BY <2>1, <2>2, <2>3, <2>4
<1>8. Stands(s, V, n)'
  BY <1>2, <1>3, <1>7 DEF Stands
<1>9. QED BY <1>3, <1>7, <1>8

-----------------------------------------------------------------------------
(* The script of exercise 06, call by call. *)

SplViews == [i \in Nat |-> SplView(i)]

\* Every call of the script leads from main's view before it to the one after.
LEMMA SplLeads ==
  ASSUME NEW i \in 1 .. 14
  PROVE  Leads(SplScript[i], SplViews[i - 1], SplViews[i])
<1>1. /\ SplScript[1].call = "send" /\ SplScript[3].call = "send"
      /\ SplScript[5].call = "send" /\ SplScript[9].call = "send"
  BY SplCalls, SMT DEF Sent, Send
<1>2. SplScript[8].call = "simulate"
  BY SplCalls, SMT DEF Simulate
<1>3. /\ SplScript[2].call = "read" /\ SplScript[4].call = "read"
      /\ SplScript[6].call = "read" /\ SplScript[7].call = "read"
      /\ SplScript[10].call = "read" /\ SplScript[11].call = "read"
      /\ SplScript[12].call = "read" /\ SplScript[13].call = "read"
      /\ SplScript[14].call = "read"
  BY SplCalls, SMT DEF ShowMint, ShowTokenAccount, Read
<1>4. \A n \in Nat : SplViews[n] = SplView(n)
  BY DEF SplViews
<1>5. ASSUME i \in {1, 3, 5, 9}
      PROVE  Leads(SplScript[i], SplViews[i - 1], SplViews[i])
  <2>1. SplScript[i].call = "send"
    BY <1>1, <1>5
  <2>2. /\ SplViews[0] = SplView(0) /\ SplViews[1] = SplView(1)
        /\ SplViews[2] = SplView(2) /\ SplViews[3] = SplView(3)
        /\ SplViews[4] = SplView(4) /\ SplViews[5] = SplView(5)
        /\ SplViews[8] = SplView(8) /\ SplViews[9] = SplView(9)
    BY <1>4
  <2>3. \A l : /\ Fits(l, SplView(0)) => Outcome(l, SplScript[1], SplView(1))
               /\ Fits(l, SplView(2)) => Outcome(l, SplScript[3], SplView(3))
               /\ Fits(l, SplView(4)) => Outcome(l, SplScript[5], SplView(5))
               /\ Fits(l, SplView(8)) => Outcome(l, SplScript[9], SplView(9))
    BY SplCall1, SplCall3, SplCall5, SplCall9
  <2>4. \A l : Fits(l, SplViews[i - 1]) => Outcome(l, SplScript[i], SplViews[i])
    <3>1. CASE i = 1
      BY <2>2, <2>3, <3>1
    <3>2. CASE i = 3
      BY <2>2, <2>3, <3>2
    <3>3. CASE i = 5
      BY <2>2, <2>3, <3>3
    <3>4. CASE i = 9
      BY <2>2, <2>3, <3>4
    <3>5. QED BY <1>5, <3>1, <3>2, <3>3, <3>4
  <2>5. QED BY <2>1, <2>4 DEF Leads
<1>6. ASSUME i \in {2, 4, 6, 7, 8, 10, 11, 12, 13, 14}
      PROVE  Leads(SplScript[i], SplViews[i - 1], SplViews[i])
  <2>1. SplScript[i].call \in {"read", "simulate"}
    BY <1>2, <1>3, <1>6
  <2>2. i - 1 \in {1, 3, 5, 6, 7, 9, 10, 11, 12, 13} /\ (i - 1) + 1 = i
        /\ i - 1 \in Nat /\ i \in Nat
    BY <1>6
  <2>3. SplView(i) = SplView(i - 1)
    <3> DEFINE k == i - 1
    <3> HIDE DEF k
    <3>1. SplView(k + 1) = SplView(k)
      BY <2>2, SplSameView DEF k
    <3>2. QED BY <2>2, <3>1 DEF k
  <2>4. SplViews[i] = SplViews[i - 1]
    BY <1>4, <2>2, <2>3
  <2>5. QED BY <2>1, <2>4 DEF Leads
<1>7. QED BY <1>5, <1>6

\* What main prints under a name stays, and the rest is as it was.
LEMMA PrintedIs ==
  ASSUME NEW what, NEW x, Reported(what, x)
  PROVE  /\ DOMAIN report' = DOMAIN report \cup {what}
         /\ report'[what] = x /\ Shown(what, x)'
         /\ \A y \in DOMAIN report : y # what => report'[y] = report[y]
         /\ \A y, z : y # what /\ Shown(y, z) => Shown(y, z)'
BY DEF Reported, With, Shown

LEMMA AccountsStayRight ==
  ASSUME ShownAccountsAreRight, NEW what, NEW x, Reported(what, x),
         what \in MintReports => x = MintAsMade(what),
         what \in AccountReports => x = AccountAsMade(what)
  PROVE  ShownAccountsAreRight'
<1>1. /\ DOMAIN report' = DOMAIN report \cup {what} /\ report'[what] = x
      /\ \A y \in DOMAIN report : y # what => report'[y] = report[y]
  BY PrintedIs
<1>2. \A y \in DOMAIN report' \cap MintReports : report'[y] = MintAsMade(y)
  BY <1>1 DEF ShownAccountsAreRight
<1>3. \A y \in DOMAIN report' \cap AccountReports : report'[y] = AccountAsMade(y)
  BY <1>1 DEF ShownAccountsAreRight
<1>4. QED BY <1>2, <1>3 DEF ShownAccountsAreRight

\* A decoded account, after n calls.
ShownAfter(what, n) ==
  \/ what = "new_account" /\ n = 3
  \/ what = "funded" /\ n = 6
  \/ what = "sender" /\ n = 9
  \/ what = "receiver" /\ n = 10

LEMMA SplShows ==
  ASSUME NEW n \in 1 .. 13, Fits(ledger, SplView(n)), NEW w \in {Alice, Bob}, NEW what,
         SplScript[n + 1] = ShowTokenAccount(what, AtaOf(w)), Made(SplScript[n + 1]),
         what = "receiver" <=> w = Bob, ShownAfter(what, n)
  PROVE  Reported(what, AccountAsMade(what))
<1> DEFINE c == ShowTokenAccount(what, AtaOf(w))
           h == SplHeld(n)[w]
<1>1. c.call = "read" /\ c.what = what /\ c.key = AtaOf(w)
  BY SMT DEF ShowTokenAccount, Read
<1>2. w \in Wallets /\ n \in Nat /\ n >= 1 /\ Alice # Bob
  BY SplKeysAssumption
<1>3. AccountAsMade(what) =
        [mint |-> mint, owner |-> w, amount |-> h, delegate |-> "none",
         state |-> "Initialized", is_native |-> "none",
         delegated_amount |-> "none", close_authority |-> "none"]
  <2>1. w = IF what = "receiver" THEN Bob ELSE Alice
    BY <1>2
  <2>2. h = CASE what = "new_account" -> 0          [] what = "funded"   -> 1000000000
              [] what = "sender"      -> 750000000  [] what = "receiver" -> 250000000
    <3>1. /\ SplHeld(n)[Alice] = IF n < 5 THEN 0 ELSE IF n < 9 THEN 1000000000 ELSE 750000000
          /\ SplHeld(n)[Bob] = IF n < 9 THEN 0 ELSE 250000000
      BY <1>2, SplHeldIs, SMT
    <3>2. QED BY <2>1, <3>1, SMT DEF ShownAfter
  <2> HIDE DEF h
  <2>3. QED BY <2>1, <2>2, SMT DEF AccountAsMade
<1> HIDE DEF c, h
<1>4. Exists(ledger, AtaOf(w)) /\ Reported(what, Printed(c, ledger.accts[AtaOf(w)].data))
  BY <1>1 DEF Made, c
<1>5. ledger.accts[AtaOf(w)].data = Fields(mint, w, h, 0)
  BY <1>2, <1>4, SplAccountData DEF h
<1>6. Printed(c, Fields(mint, w, h, 0)) = AccountAsMade(what)
  BY <1>3, SplAccountShown DEF c
<1>7. QED BY <1>4, <1>5, <1>6

LEMMA SplShowsMint ==
  ASSUME NEW n \in {1, 5}, Fits(ledger, SplView(n)),
         NEW what, what = IF n = 1 THEN "new_mint" ELSE "minted",
         SplScript[n + 1] = ShowMint(what), Made(SplScript[n + 1])
  PROVE  Reported(what, MintAsMade(what))
<1> DEFINE c == ShowMint(what)
           k == SplSupply(n)
           rec == [mint_authority |-> Alice, supply |-> k, decimals |-> DECIMALS,
                   is_initialized |-> TRUE, freeze_authority |-> "none"]
<1>1. c.call = "read" /\ c.what = what /\ c.key = mint
  BY SMT DEF ShowMint, Read
<1>2. n \in Nat /\ n >= 1
  OBVIOUS
<1>3. MintAsMade(what) = rec
  <2>1. k = IF what = "minted" THEN 1000000000 ELSE 0
    BY SMT DEF SplSupply
  <2> HIDE DEF k
  <2>2. QED BY <2>1, SMT DEF MintAsMade
<1>4. Printed(c, SplMint(n)) = rec
  BY <1>2, SplMintShown
<1> HIDE DEF c, rec
<1>5. Reported(what, Printed(c, ledger.accts[mint].data))
  BY <1>1 DEF Made, c
<1>6. ledger.accts[mint].data = SplMint(n)
  BY <1>2, SplMintData
<1>7. QED BY <1>3, <1>4, <1>5, <1>6

\* The supply and the balances of section 7.
LEMMA SplSupplyShown ==
  ASSUME NEW what, NEW n \in Nat
  PROVE  Printed(Read(what, mint, [supply |-> <<36, 44>>]), SplMint(n))
           = [supply |-> SplSupply(n)]
<1> DEFINE c == Read(what, mint, [supply |-> <<36, 44>>])
           d == SplMint(n)
           k == SplSupply(n)
<1>1. c.fields = [supply |-> <<36, 44>>]
  BY SMT DEF Read
<1>2. BytesOf(d, 36, 44) = k
  BY SplMintBytes
<1> HIDE DEF c, d, k
<1>3. Printed(c, d) = [supply |-> k]
  BY <1>1, <1>2 DEF Printed
<1>4. QED BY <1>3, SMT DEF c, d, k

LEMMA AmountShown ==
  ASSUME NEW what, NEW key, NEW m, NEW w, NEW n, NEW h
  PROVE  Printed(Read(what, key, AmountBytes), Fields(m, w, n, h)) = [amount |-> n]
<1> DEFINE c == Read(what, key, AmountBytes)
           d == Fields(m, w, n, h)
<1>1. c.fields = [amount |-> <<64, 72>>]
  BY SMT DEF Read, AmountBytes
<1>2. BytesOf(d, 64, 72) = n
  BY AccountBytes
<1> HIDE DEF c, d
<1>3. Printed(c, d) = [amount |-> n]
  BY <1>1, <1>2 DEF Printed
<1>4. QED BY <1>3, SMT DEF c, d

LEMMA SplAmountShown ==
  ASSUME NEW n \in 1 .. 13, Fits(ledger, SplView(n)), NEW w \in {Alice, Bob}, NEW what,
         SplScript[n + 1] = Read(what, AtaOf(w), AmountBytes), Made(SplScript[n + 1])
  PROVE  Reported(what, [amount |-> SplHeld(n)[w]])
<1> DEFINE c == Read(what, AtaOf(w), AmountBytes)
           h == SplHeld(n)[w]
<1>1. c.call = "read" /\ c.what = what /\ c.key = AtaOf(w)
  BY SMT DEF Read
<1>2. w \in Wallets /\ n \in Nat /\ n >= 1
  BY SplKeysAssumption
<1> HIDE DEF c, h
<1>3. Exists(ledger, AtaOf(w)) /\ Reported(what, Printed(c, ledger.accts[AtaOf(w)].data))
  BY <1>1 DEF Made, c
<1>4. ledger.accts[AtaOf(w)].data = Fields(mint, w, h, 0)
  BY <1>2, <1>3, SplAccountData DEF h
<1>5. Printed(c, Fields(mint, w, h, 0)) = [amount |-> h]
  BY AmountShown DEF c
<1>6. QED BY <1>3, <1>4, <1>5 DEF h

\* What the call after the n-th prints.
LEMMA SplPrints ==
  ASSUME NEW n \in 0 .. 13, Fits(ledger, SplView(n)), Made(SplScript[n + 1])
  PROVE  /\ n \in {0, 2, 4, 8} => UNCHANGED report
         /\ n = 1  => Reported("new_mint", MintAsMade("new_mint"))
         /\ n = 3  => Reported("new_account", AccountAsMade("new_account"))
         /\ n = 5  => Reported("minted", MintAsMade("minted"))
         /\ n = 6  => Reported("funded", AccountAsMade("funded"))
         /\ n = 7  => \E x : /\ Reported("too_early", x)
                             /\ x = "InvalidAccountData" \/ Exists(ledger, BobAta)
         /\ n = 9  => Reported("sender", AccountAsMade("sender"))
         /\ n = 10 => Reported("receiver", AccountAsMade("receiver"))
         /\ n = 11 => Reported("mint", [supply |-> 1000000000])
         /\ n = 12 => Reported("alice", [amount |-> 750000000])
         /\ n = 13 => Reported("bob", [amount |-> 250000000])
<1> DEFINE c == SplScript[n + 1]
<1>1. ASSUME n \in {0, 2, 4, 8}
      PROVE  UNCHANGED report
  <2>1. c.call = "send"
    BY <1>1, SplCalls, SMT DEF Sent, Send
  <2> HIDE DEF c
  <2>2. QED BY <2>1 DEF Made, c
<1>2. ASSUME n = 1
      PROVE  Reported("new_mint", MintAsMade("new_mint"))
  <2>1. c = ShowMint("new_mint") /\ n \in {1, 5}
    BY <1>2, SplCalls, SMT
  <2>2. "new_mint" = IF n = 1 THEN "new_mint" ELSE "minted"
    BY <1>2
  <2> HIDE DEF c
  <2>3. SplScript[n + 1] = ShowMint("new_mint")
    BY <2>1 DEF c
  <2>4. QED BY <2>1, <2>2, <2>3, SplShowsMint
<1>3. ASSUME n = 5
      PROVE  Reported("minted", MintAsMade("minted"))
  <2>1. c = ShowMint("minted") /\ n \in {1, 5}
    BY <1>3, SplCalls, SMT
  <2>2. "minted" = IF n = 1 THEN "new_mint" ELSE "minted"
    BY <1>3
  <2> HIDE DEF c
  <2>3. SplScript[n + 1] = ShowMint("minted")
    BY <2>1 DEF c
  <2>4. QED BY <2>1, <2>2, <2>3, SplShowsMint
<1>4. Alice # Bob
  BY SplKeysAssumption
<1>5. ASSUME n = 3
      PROVE  Reported("new_account", AccountAsMade("new_account"))
  <2>1. c = ShowTokenAccount("new_account", AtaOf(Alice))
    BY <1>5, SplCalls, SMT DEF AliceAta
  <2>2. /\ n \in 1 .. 13 /\ Alice \in {Alice, Bob}
        /\ ("new_account" = "receiver") <=> (Alice = Bob)
        /\ ShownAfter("new_account", n)
    BY <1>4, <1>5 DEF ShownAfter
  <2> HIDE DEF c
  <2>3. SplScript[n + 1] = ShowTokenAccount("new_account", AtaOf(Alice))
    BY <2>1 DEF c
  <2>4. QED BY <2>2, <2>3, SplShows
<1>6. ASSUME n = 6
      PROVE  Reported("funded", AccountAsMade("funded"))
  <2>1. c = ShowTokenAccount("funded", AtaOf(Alice))
    BY <1>6, SplCalls, SMT DEF AliceAta
  <2>2. /\ n \in 1 .. 13 /\ Alice \in {Alice, Bob}
        /\ ("funded" = "receiver") <=> (Alice = Bob)
        /\ ShownAfter("funded", n)
    BY <1>4, <1>6 DEF ShownAfter
  <2> HIDE DEF c
  <2>3. SplScript[n + 1] = ShowTokenAccount("funded", AtaOf(Alice))
    BY <2>1 DEF c
  <2>4. QED BY <2>2, <2>3, SplShows
<1>7. ASSUME n = 9
      PROVE  Reported("sender", AccountAsMade("sender"))
  <2>1. c = ShowTokenAccount("sender", AtaOf(Alice))
    BY <1>7, SplCalls, SMT DEF AliceAta
  <2>2. /\ n \in 1 .. 13 /\ Alice \in {Alice, Bob}
        /\ ("sender" = "receiver") <=> (Alice = Bob)
        /\ ShownAfter("sender", n)
    BY <1>4, <1>7 DEF ShownAfter
  <2> HIDE DEF c
  <2>3. SplScript[n + 1] = ShowTokenAccount("sender", AtaOf(Alice))
    BY <2>1 DEF c
  <2>4. QED BY <2>2, <2>3, SplShows
<1>8. ASSUME n = 10
      PROVE  Reported("receiver", AccountAsMade("receiver"))
  <2>1. c = ShowTokenAccount("receiver", AtaOf(Bob))
    BY <1>8, SplCalls, SMT DEF BobAta
  <2>2. /\ n \in 1 .. 13 /\ Bob \in {Alice, Bob}
        /\ ("receiver" = "receiver") <=> (Bob = Bob)
        /\ ShownAfter("receiver", n)
    BY <1>4, <1>8 DEF ShownAfter
  <2> HIDE DEF c
  <2>3. SplScript[n + 1] = ShowTokenAccount("receiver", AtaOf(Bob))
    BY <2>1 DEF c
  <2>4. QED BY <2>2, <2>3, SplShows
<1>9. ASSUME n = 7
      PROVE  \E x : /\ Reported("too_early", x)
                    /\ x = "InvalidAccountData" \/ Exists(ledger, BobAta)
  <2>1. c.call = "simulate" /\ c.what = "too_early" /\ c = SplScript[8]
    BY <1>9, SplCalls, SMT DEF Simulate
  <2> HIDE DEF c
  <2>2. Reported("too_early", RunTransaction(ledger, c.ixs).err)
    BY <2>1 DEF Made, c
  <2>3. \/ RunTransaction(ledger, c.ixs).err = "InvalidAccountData"
        \/ Exists(ledger, BobAta)
    BY <1>9, <2>1, SplCall8
  <2>4. QED BY <2>2, <2>3
<1>10. ASSUME n = 11
       PROVE  Reported("mint", [supply |-> 1000000000])
  <2> DEFINE k == 1000000000
  <2>1. c = Read("mint", mint, [supply |-> <<36, 44>>])
    BY <1>10, SplCalls, SMT
  <2>2. c.call = "read" /\ c.what = "mint" /\ c.key = mint
    BY <2>1, SMT DEF Read
  <2>3. SplSupply(n) = k /\ n \in Nat /\ n >= 1
    BY <1>10, SMT DEF SplSupply
  <2>4. ledger.accts[mint].data = SplMint(n)
    BY <2>3, SplMintData
  <2>5. Printed(c, SplMint(n)) = [supply |-> SplSupply(n)]
    BY <2>1, <2>3, SplSupplyShown
  <2> HIDE DEF c, k
  <2>6. Reported("mint", [supply |-> k])
    BY <2>2, <2>3, <2>4, <2>5 DEF Made, c
  <2>7. QED BY <2>6, SMT DEF k
<1>11. ASSUME n = 12
       PROVE  Reported("alice", [amount |-> 750000000])
  <2> DEFINE k == 750000000
  <2>1. c = Read("alice", AtaOf(Alice), AmountBytes)
    BY <1>11, SplCalls, SMT DEF AliceAta
  <2>2. SplHeld(n)[Alice] = k
    BY <1>11, SplHeldIs, SMT
  <2> HIDE DEF c, k
  <2>3. Reported("alice", [amount |-> k])
    BY <1>11, <2>1, <2>2, SplAmountShown DEF c
  <2>4. QED BY <2>3, SMT DEF k
<1>12. ASSUME n = 13
       PROVE  Reported("bob", [amount |-> 250000000])
  <2> DEFINE k == 250000000
  <2>1. c = Read("bob", AtaOf(Bob), AmountBytes)
    BY <1>12, SplCalls, SMT DEF BobAta
  <2>2. SplHeld(n)[Bob] = k
    BY <1>12, SplHeldIs, SMT
  <2> HIDE DEF c, k
  <2>3. Reported("bob", [amount |-> k])
    BY <1>12, <2>1, <2>2, SplAmountShown DEF c
  <2>4. QED BY <2>3, SMT DEF k
<1>13. QED
  BY <1>1, <1>2, <1>3, <1>5, <1>6, <1>7, <1>8, <1>9, <1>10, <1>11, <1>12, SMT

\* A transaction that opens Bob's account works only where it was not open.
LEMMA SplBobWasNotOpen ==
  ASSUME RunTransaction(ledger, SplScript[9].ixs).err = "none"
  PROVE  ~Exists(ledger, BobAta)
<1> DEFINE ix == OpenAta(Bob)
           iy == Pay(250000000)
           l1 == Execute(ledger, ix)
<1>1. SplScript[9].ixs = <<ix, iy>>
  BY SplCalls, SMT DEF Sent, Send
<1>2. /\ ix.op = "createAta" /\ ix.ata = BobAta /\ ix.tag = 0
      /\ ix.ata = Ata[ix.wallet][ix.mint][ix.program]
  BY SMT DEF OpenAta, CreateAtaIx, BobAta, AtaOf, DeriveAta
<1> HIDE DEF ix, iy, l1
<1>3. Execute(l1, iy).err = "none"
  BY <1>1, RunTwo DEF l1
<1>4. l1.err = "none"
  BY <1>3, ErrorStays
<1>5. ledger.err = "none"
  BY <1>4, ErrorStays DEF l1
<1>6. l1 = CreateAta(ledger, ix)
  BY <1>2, <1>5, ExecuteIs DEF l1
<1>7. Exists(ledger, BobAta) => l1 = Failed(ledger, "IllegalOwner")
  BY <1>2, <1>6 DEF CreateAta
<1>8. QED BY <1>4, <1>7 DEF Failed

LEMMA SplShownNext ==
  ASSUME NEW n \in 0 .. 13, Fits(ledger, SplView(n)), SplShown(n), Made(SplScript[n + 1])
  PROVE  SplShown(n + 1)'
<1> DEFINE early == "InvalidAccountData"
           m1 == [supply |-> 1000000000]
           a1 == [amount |-> 750000000]
           b1 == [amount |-> 250000000]
<1>1. /\ ShownAccountsAreRight
      /\ n >= 8  => Shown("too_early", early) \/ (n = 8 /\ Exists(ledger, BobAta))
      /\ n >= 12 => Shown("mint", m1)
      /\ n >= 13 => Shown("alice", a1)
  BY SMT DEF SplShown, BobAta
<1>2. /\ n \in {0, 2, 4, 8} => UNCHANGED report
      /\ n = 1  => Reported("new_mint", MintAsMade("new_mint"))
      /\ n = 3  => Reported("new_account", AccountAsMade("new_account"))
      /\ n = 5  => Reported("minted", MintAsMade("minted"))
      /\ n = 6  => Reported("funded", AccountAsMade("funded"))
      /\ n = 7  => \E x : Reported("too_early", x) /\ (x = early \/ Exists(ledger, BobAta))
      /\ n = 9  => Reported("sender", AccountAsMade("sender"))
      /\ n = 10 => Reported("receiver", AccountAsMade("receiver"))
      /\ n = 11 => Reported("mint", m1)
      /\ n = 12 => Reported("alice", a1)
      /\ n = 13 => Reported("bob", b1)
  BY SplPrints, SMT
<1> HIDE DEF early, m1, a1, b1
<1>3. Keeps(ledger, ledger')
  BY DEF Made
<1>4. n = 8 => ~Exists(ledger, BobAta)
  <2>1. ASSUME n = 8
        PROVE  ~Exists(ledger, BobAta)
    <3>1. SplScript[n + 1] = SplScript[9]
      BY <2>1
    <3>2. SplScript[9].call = "send"
      BY SplCalls, SMT DEF Sent, Send
    <3>3. RunTransaction(ledger, SplScript[9].ixs).err = "none"
      BY <3>1, <3>2 DEF Made
    <3>4. QED BY <3>3, SplBobWasNotOpen
  <2>2. QED BY <2>1
<1>5. ShownAccountsAreRight'
  <2>1. ASSUME NEW what, NEW x, Reported(what, x),
               what \in MintReports => x = MintAsMade(what),
               what \in AccountReports => x = AccountAsMade(what)
        PROVE  ShownAccountsAreRight'
    BY <1>1, <2>1, AccountsStayRight
  <2>2. CASE n \in {0, 2, 4, 8}
    BY <1>1, <1>2, <2>2 DEF ShownAccountsAreRight
  <2>3. CASE n = 1
    <3>1. "new_mint" \in MintReports /\ "new_mint" \notin AccountReports
      BY DEF MintReports, AccountReports
    <3>2. QED BY <1>2, <2>1, <2>3, <3>1
  <2>4. CASE n = 3
    <3>1. "new_account" \notin MintReports /\ "new_account" \in AccountReports
      BY DEF MintReports, AccountReports
    <3>2. QED BY <1>2, <2>1, <2>4, <3>1
  <2>5. CASE n = 5
    <3>1. "minted" \in MintReports /\ "minted" \notin AccountReports
      BY DEF MintReports, AccountReports
    <3>2. QED BY <1>2, <2>1, <2>5, <3>1
  <2>6. CASE n = 6
    <3>1. "funded" \notin MintReports /\ "funded" \in AccountReports
      BY DEF MintReports, AccountReports
    <3>2. QED BY <1>2, <2>1, <2>6, <3>1
  <2>7. CASE n = 7
    <3>1. "too_early" \notin MintReports /\ "too_early" \notin AccountReports
      BY DEF MintReports, AccountReports
    <3>2. QED BY <1>2, <2>1, <2>7, <3>1
  <2>8. CASE n = 9
    <3>1. "sender" \notin MintReports /\ "sender" \in AccountReports
      BY DEF MintReports, AccountReports
    <3>2. QED BY <1>2, <2>1, <2>8, <3>1
  <2>9. CASE n = 10
    <3>1. "receiver" \notin MintReports /\ "receiver" \in AccountReports
      BY DEF MintReports, AccountReports
    <3>2. QED BY <1>2, <2>1, <2>9, <3>1
  <2>10. CASE n = 11
    <3>1. "mint" \notin MintReports /\ "mint" \notin AccountReports
      BY DEF MintReports, AccountReports
    <3>2. QED BY <1>2, <2>1, <2>10, <3>1
  <2>11. CASE n = 12
    <3>1. "alice" \notin MintReports /\ "alice" \notin AccountReports
      BY DEF MintReports, AccountReports
    <3>2. QED BY <1>2, <2>1, <2>11, <3>1
  <2>12. CASE n = 13
    <3>1. "bob" \notin MintReports /\ "bob" \notin AccountReports
      BY DEF MintReports, AccountReports
    <3>2. QED BY <1>2, <2>1, <2>12, <3>1
  <2>13. QED
    BY <2>2, <2>3, <2>4, <2>5, <2>6, <2>7, <2>8, <2>9, <2>10, <2>11, <2>12
<1>6. /\ n + 1 >= 8 => Shown("too_early", early)' \/ (n + 1 = 8 /\ Exists(ledger', BobAta))
      /\ n + 1 >= 12 => Shown("mint", m1)'
      /\ n + 1 >= 13 => Shown("alice", a1)'
      /\ n + 1 >= 14 => Shown("bob", b1)'
  <2>1. CASE n \in 0 .. 6
    BY <2>1
  <2>2. CASE n = 7
    <3>1. PICK x : Reported("too_early", x) /\ (x = early \/ Exists(ledger, BobAta))
      BY <1>2, <2>2
    <3>2. Shown("too_early", x)'
      BY <3>1, PrintedIs
    <3>3. Exists(ledger, BobAta) => Exists(ledger', BobAta)
      BY <1>3 DEF Keeps, Exists
    <3>4. QED BY <2>2, <3>1, <3>2, <3>3
  <2>3. CASE n = 8
    <3>1. Shown("too_early", early)
      BY <1>1, <1>4, <2>3
    <3>2. QED BY <1>2, <2>3, <3>1 DEF Shown
  <2>4. CASE n \in 9 .. 13
    <3>1. Shown("too_early", early)
      BY <1>1, <2>4
    <3>2. CASE n = 9
      <4>1. /\ Shown("sender", AccountAsMade("sender"))'
            /\ \A y, z : y # "sender" /\ Shown(y, z) => Shown(y, z)'
        BY <1>2, <3>2, PrintedIs
      <4>2. QED BY <3>1, <3>2, <4>1
    <3>3. CASE n = 10
      <4>1. /\ Shown("receiver", AccountAsMade("receiver"))'
            /\ \A y, z : y # "receiver" /\ Shown(y, z) => Shown(y, z)'
        BY <1>2, <3>3, PrintedIs
      <4>2. QED BY <3>1, <3>3, <4>1
    <3>4. CASE n = 11
      <4>1. /\ Shown("mint", m1)'
            /\ \A y, z : y # "mint" /\ Shown(y, z) => Shown(y, z)'
        BY <1>2, <3>4, PrintedIs
      <4>2. QED BY <3>1, <3>4, <4>1
    <3>5. CASE n = 12
      <4>1. /\ Shown("alice", a1)'
            /\ \A y, z : y # "alice" /\ Shown(y, z) => Shown(y, z)'
        BY <1>2, <3>5, PrintedIs
      <4>2. QED BY <1>1, <3>1, <3>5, <4>1
    <3>6. CASE n = 13
      <4>1. /\ Shown("bob", b1)'
            /\ \A y, z : y # "bob" /\ Shown(y, z) => Shown(y, z)'
        BY <1>2, <3>6, PrintedIs
      <4>2. QED BY <1>1, <3>1, <3>6, <4>1
    <3>7. QED BY <2>4, <3>2, <3>3, <3>4, <3>5, <3>6
  <2>5. QED BY <2>1, <2>2, <2>3, <2>4
<1>7. QED BY <1>5, <1>6, SMT DEF SplShown, BobAta, early, m1, a1, b1

\* Waiting, main prints nothing, and nobody closes an account.
LEMMA SplShownStays ==
  ASSUME NEW n, SplShown(n), UNCHANGED report, Keeps(ledger, ledger')
  PROVE  SplShown(n)'
<1>1. Exists(ledger, BobAta) => Exists(ledger', BobAta)
  BY DEF Keeps, Exists
<1>2. ShownAccountsAreRight'
  BY DEF SplShown, ShownAccountsAreRight
<1>3. \A w, x : Shown(w, x) => Shown(w, x)'
  BY DEF Shown
<1>4. QED BY <1>1, <1>2, <1>3, SMT DEF SplShown, BobAta

\* The invariant says where main stands and what it has shown.
LEMMA SplInvIs ==
  /\ SplInv <=> Stands(SplScript, SplViews, SplMade) /\ SplShown(SplMade)
  /\ SplInv' <=> Stands(SplScript, SplViews, SplMade)' /\ SplShown(SplMade)'
<1>1. Len(SplScript) = 14
  BY SplCalls, SMT
<1>2. \A n \in Nat : SplViews[n] = SplView(n)
  BY DEF SplViews
<1>3. SplMade \in 0 .. 14 => SplViews[SplMade] = SplView(SplMade)
                             /\ SplViews[SplMade + 1] = SplView(SplMade + 1)
  BY <1>2
<1>4. SplMade' \in 0 .. 14 => SplViews[SplMade'] = SplView(SplMade')
                              /\ SplViews[SplMade' + 1] = SplView(SplMade' + 1)
  BY <1>2
<1>5. SplInv <=> Stands(SplScript, SplViews, SplMade) /\ SplShown(SplMade)
  BY <1>1, <1>3, SMT DEF SplInv, Stands
<1>6. SplInv' <=> Stands(SplScript, SplViews, SplMade)' /\ SplShown(SplMade)'
  BY <1>1, <1>4, SMT DEF SplInv, Stands
<1>7. QED BY <1>5, <1>6

LEMMA SplInitially == SplInit => SplInv
<1> SUFFICES ASSUME SplInit
             PROVE  SplInv
  OBVIOUS
<1>1. PICK S : SplScript \in Seq(S)
  BY SplScriptIsSeq
<1>2. Len(SplScript) = 14 /\ todo = SplScript
  BY SplCalls, SMT DEF SplInit
<1>3. SplMade = 0
  BY <1>2 DEF SplMade
<1>4. SubSeq(SplScript, 0 + 1, Len(SplScript)) = SplScript
  BY <1>1, WholeSubSeq
<1>5. Fits(ledger, SplView(0))
  <2>1. ledger.accts = [a \in {} |-> a] /\ ledger.err = "none"
    BY DEF SplInit, ClientInit, EmptyLedger
  <2>2. SplView(0).plain = {} /\ DOMAIN SplView(0).mints = {} /\ SplView(0).open = {}
    BY SplViewIs, SMT
  <2>3. QED BY <2>1, <2>2 DEF Fits
<1>6. SplShown(0)
  <2>1. DOMAIN report = {}
    BY DEF SplInit, ClientInit
  <2>2. QED BY <2>1, SMT DEF SplShown, ShownAccountsAreRight
<1>7. outcome = "running" /\ FailsOnlyOnForeignAta
  BY DEF SplInit, ClientInit, FailsOnlyOnForeignAta
<1>8. QED BY <1>2, <1>3, <1>4, <1>5, <1>6, <1>7, SMT DEF SplInv

LEMMA SplStep == SplInv /\ [Next]_vars => SplInv'
<1> SUFFICES ASSUME SplInv, [Next]_vars
             PROVE  SplInv'
  OBVIOUS
<1> DEFINE s == SplScript
           V == SplViews
<1>1. PICK S : s \in Seq(S)
  BY SplScriptIsSeq
<1>2. Len(s) = 14
  BY SplCalls, SMT
<1>0. PICK n : n = SplMade
  OBVIOUS
<1>3. Stands(s, V, n) /\ SplShown(n)
  BY <1>0, SplInvIs
<1>4. n \in 0 .. Len(s)
  BY <1>3 DEF Stands
<1>5. \A i \in 1 .. Len(s) : Leads(s[i], V[i - 1], V[i])
  BY <1>2, SplLeads
<1>6. \A i \in Nat : Sane(V[i]) /\ V[i] = SplView(i)
  BY SplViewSane DEF SplViews
<1>7. SplMade' = Len(s) - Len(todo')
  BY DEF SplMade
<1>8. ASSUME NEW k \in 0 .. Len(s), Stands(s, V, k)'
      PROVE  SplMade' = k
  <2>1. todo' = SubSeq(s, k + 1, Len(s))
    BY <1>8 DEF Stands
  <2> HIDE DEF s, V
  <2>2. Len(todo') = Len(s) - k
    BY <1>1, <2>1, Position
  <2>3. QED BY <1>2, <1>7, <2>2
<1> HIDE DEF s, V
<1>9. CASE SendSucceeds \/ SimulationEnds \/ ReadBytes \/ ReadBalance
  <2>1. /\ n < Len(s) /\ n + 1 \in 0 .. Len(s)
        /\ Stands(s, V, n + 1)' /\ Fits(ledger, V[n]) /\ Made(s[n + 1])
    BY <1>1, <1>3, <1>4, <1>5, <1>9, CallMade
  <2>2. n \in 0 .. 13 /\ V[n] = SplView(n)
    BY <1>2, <1>4, <1>6, <2>1
  <2>3. PICK k : k = n + 1
    OBVIOUS
  <2>4. SplShown(k)' /\ Stands(s, V, k)'
    BY <1>3, <2>1, <2>2, <2>3, SplShownNext DEF s
  <2>5. SplMade' = k
    BY <1>8, <2>1, <2>3, <2>4
  <2>6. QED BY <2>4, <2>5, SplInvIs DEF s, V
<1>10. CASE SendFails \/ RpcFails \/ OthersAct \/ UNCHANGED vars
  <2>1. Stands(s, V, n)' /\ UNCHANGED <<todo, report>> /\ Keeps(ledger, ledger')
    BY <1>1, <1>3, <1>4, <1>5, <1>6, <1>10, MainWaits
  <2>2. SplMade' = n
    BY <1>4, <1>8, <2>1
  <2>3. SplShown(n)'
    BY <1>3, <2>1, SplShownStays
  <2>4. QED BY <2>1, <2>2, <2>3, SplInvIs DEF s, V
<1>11. QED BY <1>9, <1>10 DEF Next, ClientStep

-----------------------------------------------------------------------------
(* The types, from a view whose numbers fit. *)

Bounded(v) ==
  \A m \in DOMAIN v.mints :
    /\ v.mints[m].data.supply <= MaxU64 /\ v.mints[m].cap <= MaxU64
    /\ \A w \in Wallets : v.mints[m].held[w] <= MaxU64

LEMMA FitsTyped ==
  ASSUME NEW v, Sane(v), Bounded(v), Fits(ledger, v),
         outcome \in {"running", "failed", "rpc_error"}
  PROVE  TypeOK
<1>1. ASSUME NEW a \in DOMAIN ledger.accts
      PROVE  LET d == ledger.accts[a].data
             IN  \/ d.kind = "raw" /\ a \in NewKeys
                 \/ /\ d.kind = "mint" /\ a \in NewKeys
                    /\ d.authority \in Wallets /\ d.supply \in 0 .. MaxU64
                 \/ /\ d.kind = "account"
                    /\ d.owner \in Wallets /\ d.amount \in 0 .. MaxU64
                    /\ d.withheld \in 0 .. MaxU64
  <2> DEFINE d == ledger.accts[a].data
  <2>1. MaxU64 \in Nat
    BY SupplyAssumption
  <2>2. CASE IsPlain(v, a, ledger.accts[a])
    BY <2>2, Kinds
  <2>3. CASE IsMint(v, a, ledger.accts[a])
    <3>1. a \in DOMAIN v.mints /\ a \in NewKeys /\ d.kind = "mint"
      BY <2>3, Kinds
    <3>2. d = v.mints[a].data
      BY <2>3 DEF IsMint
    <3>3. d.authority \in Wallets /\ d.supply \in Nat /\ d.supply <= MaxU64
      BY <3>1, <3>2 DEF Sane, SaneRow, Bounded
    <3>4. QED BY <2>1, <3>1, <3>3
  <2>4. CASE IsHolding(v, a, ledger.accts[a])
    <3>1. PICK m \in DOMAIN v.mints, w \in Wallets : a = AtaIn(v, w, m)
      BY <2>4 DEF IsHolding
    <3>2. /\ d.withheld \in 0 .. v.mints[m].cap /\ d.owner = w
          /\ d.amount = v.mints[m].held[w]
      BY <3>1, HoldingOf
    <3>3. d.kind = "account"
      BY <2>4, Kinds
    <3>4. /\ v.mints[m].cap \in Nat /\ v.mints[m].cap <= MaxU64
          /\ v.mints[m].held[w] \in Nat /\ v.mints[m].held[w] <= MaxU64
      BY DEF Sane, SaneRow, Bounded
    <3>5. QED BY <2>1, <3>2, <3>3, <3>4
  <2>5. QED BY <2>2, <2>3, <2>4, Kinds
<1>2. QED BY <1>1 DEF TypeOK, Fits

LEMMA SplBounded ==
  ASSUME NEW n \in Nat
  PROVE  Bounded(SplView(n))
<1> DEFINE v == SplView(n)
<1>1. DOMAIN v.mints \subseteq {mint} /\ (n < 1 => DOMAIN v.mints = {})
  BY SplViewIs, SMT
<1>2. n >= 1 => /\ v.mints[mint].data = SplMint(n) /\ v.mints[mint].held = SplHeld(n)
                /\ v.mints[mint].cap = 0
  BY SplViewIs, SMT
<1>3. SplMint(n).supply <= MaxU64 /\ 0 <= MaxU64
  BY SplMintIs, SupplyAssumption, SMT DEF SplSupply
<1>4. \A w \in Wallets : SplHeld(n)[w] <= MaxU64
  <2> DEFINE h == SplHeld(n)
  <2>1. h[Alice] \in {0, 750000000, 1000000000} /\ h[Bob] \in {0, 250000000}
    BY SplHeldIs, SMT
  <2>0. \A w \in Wallets : w \notin {Alice, Bob} => h[w] = 0
    BY SplHeldIs, SMT
  <2> HIDE DEF h
  <2>2. h[Alice] <= MaxU64 /\ h[Bob] <= MaxU64
    BY <2>1, SupplyAssumption, SMT
  <2>3. ASSUME NEW w \in Wallets
        PROVE  h[w] <= MaxU64
    <3>1. CASE w = Alice
      BY <2>2, <3>1
    <3>2. CASE w = Bob
      BY <2>2, <3>2
    <3>3. CASE w \notin {Alice, Bob}
      <4>1. h[w] = 0
        BY <2>0, <3>3
      <4>2. QED BY <1>3, <4>1
    <3>4. QED BY <3>1, <3>2, <3>3
  <2>4. QED BY <2>3 DEF h
<1> HIDE DEF v
<1>5. Bounded(v)
  BY <1>1, <1>2, <1>3, <1>4 DEF Bounded
<1>6. QED BY <1>5, SMT DEF v

-----------------------------------------------------------------------------
(* The theorems about exercise 06. *)

\* Whatever others do between two calls and whichever call fails, the ledger is
\* what main believes after the calls it made, and what it printed came of them.
THEOREM SplInvariant == SplSpec => []SplInv
<1>1. QED BY SplInitially, SplStep, PTL DEF SplSpec

\* One of the two views of the invariant fits.
LEMMA SplSomeView ==
  ASSUME SplInv
  PROVE  \E n \in Nat : Fits(ledger, SplView(n)) /\ Sane(SplView(n)) /\ Bounded(SplView(n))
<1>1. Len(SplScript) = 14
  BY SplCalls, SMT
<1>2. SplMade \in Nat /\ SplMade + 1 \in Nat
  BY <1>1, SMT DEF SplInv
<1>3. Fits(ledger, SplView(SplMade)) \/ Fits(ledger, SplView(SplMade + 1))
  BY SMT DEF SplInv
<1>4. PICK n \in Nat : Fits(ledger, SplView(n))
  BY <1>2, <1>3
<1>5. QED BY <1>4, SplViewSane, SplBounded

\* The ledger of exercise 06 is well typed; no amount leaves a u64.
THEOREM SplTypeOK == SplSpec => []TypeOK
<1>1. SplInv => TypeOK
  <2> SUFFICES ASSUME SplInv
               PROVE  TypeOK
    OBVIOUS
  <2>1. PICK n \in Nat :
          Fits(ledger, SplView(n)) /\ Sane(SplView(n)) /\ Bounded(SplView(n))
    BY SplSomeView
  <2>2. outcome \in {"running", "failed", "rpc_error"}
    BY SMT DEF SplInv
  <2>3. QED BY <2>1, <2>2, FitsTyped
<1>2. QED BY <1>1, SplInvariant, PTL

\* Nobody else can become the authority of the mint.
THEOREM SplAuthority == SplSpec => []AuthorityIsAlice
<1>1. SplInv => AuthorityIsAlice
  <2> SUFFICES ASSUME SplInv, IsA(ledger, "mint", mint)
               PROVE  ledger.accts[mint].data.authority = Alice
    BY DEF AuthorityIsAlice
  <2>1. PICK n \in Nat : Fits(ledger, SplView(n)) /\ Sane(SplView(n))
    BY SplSomeView
  <2>2. n >= 1
    <3>1. n < 1 => DOMAIN SplView(n).mints = {} /\ SplView(n).plain = {}
      BY SplViewIs, SMT
    <3>2. mint \in DOMAIN ledger.accts /\ mint \in NewKeys
      BY SplKeysAssumption DEF IsA, Exists
    <3>3. mint \in SplView(n).plain \/ mint \in DOMAIN SplView(n).mints
      BY <2>1, <3>2, Kinds
    <3>4. QED BY <3>1, <3>3
  <2>3. ledger.accts[mint].data = SplMint(n)
    BY <2>1, <2>2, SplMintData
  <2>4. SplMint(n).authority = Alice
    BY SplMintIs, SMT
  <2>5. QED BY <2>3, <2>4
<1>2. QED BY <1>1, SplInvariant, PTL

\* A run of exercise 06 that reaches its end has shown what its README promises.
THEOREM SplReport == SplSpec => []ReportAsPromised
<1>1. SplInv => ReportAsPromised
  <2> SUFFICES ASSUME SplInv, todo = <<>>
               PROVE  /\ report["too_early"] = "InvalidAccountData"
                      /\ report["mint"].supply = report["alice"].amount + report["bob"].amount
                      /\ report["alice"].amount = 750000000
    BY SMT DEF ReportAsPromised, Done
  <2> DEFINE m == [supply |-> 1000000000]
             a == [amount |-> 750000000]
             b == [amount |-> 250000000]
  <2>1. Len(todo) = 0
    OBVIOUS
  <2>2. SplMade = 14
    BY <2>1, SplCalls, SMT DEF SplMade
  <2>3. SplShown(14)
    BY <2>2, SMT DEF SplInv
  <2>4. /\ Shown("too_early", "InvalidAccountData") /\ Shown("mint", m)
        /\ Shown("alice", a) /\ Shown("bob", b)
    BY <2>3, SMT DEF SplShown
  <2>5. m.supply = 1000000000 /\ a.amount = 750000000 /\ b.amount = 250000000
    BY SMT
  <2> HIDE DEF m, a, b
  <2>6. /\ report["too_early"] = "InvalidAccountData"
        /\ report["mint"].supply = m.supply
        /\ report["alice"].amount = a.amount /\ report["bob"].amount = b.amount
    BY <2>4, Zenon DEF Shown
  <2>7. QED BY <2>5, <2>6, SMT
<1>2. QED BY <1>1, SplInvariant, PTL

\* Every decoded account of exercise 06, mint or token account, shows what main
\* made of it.
THEOREM SplAccountsAreRight == SplSpec => []ShownAccountsAreRight
<1>1. SplInv => ShownAccountsAreRight
  BY SMT DEF SplInv, SplShown
<1>2. QED BY <1>1, SplInvariant, PTL

\* main of exercise 06 fails only where somebody else paid for its account.
THEOREM SplFailsOnlyOnForeignAta == SplSpec => []FailsOnlyOnForeignAta
<1>1. SplInv => FailsOnlyOnForeignAta
  BY SMT DEF SplInv
<1>2. QED BY <1>1, SplInvariant, PTL

-----------------------------------------------------------------------------
(* The client of exercise 03. *)

PayerAta == DeriveAta(Payer, splMint, "Token")

\* The calls of its script.
LEMMA FourCalls ==
  /\ Len(FourScript) = 13
  /\ FourScript[1] = Send(Payer, <<New(blank, 0, "System")>>, {blank})
  /\ FourScript[2] = Send(Payer, <<SysTransfer(Payer, blank, 1000000)>>, {})
  /\ FourScript[3] = ReadLamports("blank", blank)
  /\ FourScript[4] = Send(Payer, <<New(splMint, MINT_LEN, "Token"),
                          InitializeMint2Ix("Token", splMint, Payer)>>, {splMint})
  /\ FourScript[5] = Send(Payer, <<CreateAtaIx(Payer, Payer, splMint, "Token")>>, {})
  /\ FourScript[6] = Send(Payer, <<MintToIx("Token", splMint, PayerAta, Payer, 1000000)>>, {})
  /\ FourScript[7] = TokenAmount("ata", PayerAta)
  /\ FourScript[8] = Send(Payer, <<New(mint22, MINT_2022_WITH_FEE_LEN, "Token2022"),
                          InitializeTransferFeeConfigIx(mint22, 500, MaxU64),
                          InitializeMint2Ix("Token2022", mint22, Payer)>>, {mint22})
  /\ FourScript[9] = Send(Payer, <<CreateAtaIx(Payer, Payer, mint22, "Token2022"),
                          CreateAtaIx(Payer, Recipient, mint22, "Token2022")>>, {})
  /\ FourScript[10] = Send(Payer, <<MintToIx("Token2022", mint22, Source, Payer, 1000000)>>, {})
  /\ FourScript[11] = Send(Payer, <<TransferCheckedIx("Token2022", Source, mint22, Dest, Payer, 100000)>>, {})
  /\ FourScript[12] = TokenAmount("sender", Source)
  /\ FourScript[13] = TokenAmount("receiver", Dest)
<1> DEFINE b1 == Send(Payer, <<New(blank, 0, "System")>>, {blank})
           b2 == Send(Payer, <<SysTransfer(Payer, blank, 1000000)>>, {})
           b3 == ReadLamports("blank", blank)
           b4 == Send(Payer, <<New(splMint, MINT_LEN, "Token"),
                          InitializeMint2Ix("Token", splMint, Payer)>>, {splMint})
           b5 == Send(Payer, <<CreateAtaIx(Payer, Payer, splMint, "Token")>>, {})
           b6 == Send(Payer, <<MintToIx("Token", splMint, PayerAta, Payer, 1000000)>>, {})
           b7 == TokenAmount("ata", PayerAta)
           b8 == Send(Payer, <<New(mint22, MINT_2022_WITH_FEE_LEN, "Token2022"),
                          InitializeTransferFeeConfigIx(mint22, 500, MaxU64),
                          InitializeMint2Ix("Token2022", mint22, Payer)>>, {mint22})
           b9 == Send(Payer, <<CreateAtaIx(Payer, Payer, mint22, "Token2022"),
                          CreateAtaIx(Payer, Recipient, mint22, "Token2022")>>, {})
           b10 == Send(Payer, <<MintToIx("Token2022", mint22, Source, Payer, 1000000)>>, {})
           b11 == Send(Payer, <<TransferCheckedIx("Token2022", Source, mint22, Dest, Payer, 100000)>>, {})
           b12 == TokenAmount("sender", Source)
           b13 == TokenAmount("receiver", Dest)
<1>1. FourScript = <<b1, b2, b3>> \o <<b4>> \o <<b5, b6, b7>> \o <<b8>>
                     \o <<b9, b10, b11, b12, b13>>
  BY SMT DEF FourScript, SystemProgram, SplToken, AssociatedTokenAccount, CreateMint22,
     TransferWithFee, PayerAta
<1> HIDE DEF b1, b2, b3, b4, b5, b6, b7, b8, b9, b10, b11, b12, b13
<1>2. /\ Len(FourScript) = 13
      /\ FourScript[1] = b1 /\ FourScript[2] = b2 /\ FourScript[3] = b3 /\ FourScript[4] = b4
      /\ FourScript[5] = b5 /\ FourScript[6] = b6 /\ FourScript[7] = b7 /\ FourScript[8] = b8
      /\ FourScript[9] = b9 /\ FourScript[10] = b10 /\ FourScript[11] = b11 /\ FourScript[12] = b12
      /\ FourScript[13] = b13
  BY <1>1
<1>3. FourScript[1] = Send(Payer, <<New(blank, 0, "System")>>, {blank})
  BY <1>2, SMT DEF b1
<1>4. FourScript[2] = Send(Payer, <<SysTransfer(Payer, blank, 1000000)>>, {})
  BY <1>2, SMT DEF b2
<1>5. FourScript[3] = ReadLamports("blank", blank)
  BY <1>2, SMT DEF b3
<1>6. FourScript[4] = Send(Payer, <<New(splMint, MINT_LEN, "Token"),
                          InitializeMint2Ix("Token", splMint, Payer)>>, {splMint})
  BY <1>2, SMT DEF b4
<1>7. FourScript[5] = Send(Payer, <<CreateAtaIx(Payer, Payer, splMint, "Token")>>, {})
  BY <1>2, SMT DEF b5
<1>8. FourScript[6] = Send(Payer, <<MintToIx("Token", splMint, PayerAta, Payer, 1000000)>>, {})
  BY <1>2, SMT DEF b6
<1>9. FourScript[7] = TokenAmount("ata", PayerAta)
  BY <1>2, SMT DEF b7
<1>10. FourScript[8] = Send(Payer, <<New(mint22, MINT_2022_WITH_FEE_LEN, "Token2022"),
                          InitializeTransferFeeConfigIx(mint22, 500, MaxU64),
                          InitializeMint2Ix("Token2022", mint22, Payer)>>, {mint22})
  BY <1>2, SMT DEF b8
<1>11. FourScript[9] = Send(Payer, <<CreateAtaIx(Payer, Payer, mint22, "Token2022"),
                          CreateAtaIx(Payer, Recipient, mint22, "Token2022")>>, {})
  BY <1>2, SMT DEF b9
<1>12. FourScript[10] = Send(Payer, <<MintToIx("Token2022", mint22, Source, Payer, 1000000)>>, {})
  BY <1>2, SMT DEF b10
<1>13. FourScript[11] = Send(Payer, <<TransferCheckedIx("Token2022", Source, mint22, Dest, Payer, 100000)>>, {})
  BY <1>2, SMT DEF b11
<1>14. FourScript[12] = TokenAmount("sender", Source)
  BY <1>2, SMT DEF b12
<1>15. FourScript[13] = TokenAmount("receiver", Dest)
  BY <1>2, SMT DEF b13
<1>16. QED
  BY <1>2, <1>3, <1>4, <1>5, <1>6, <1>7, <1>8, <1>9, <1>10, <1>11, <1>12, <1>13, <1>14, <1>15, SMT

LEMMA FourScriptIsSeq == \E S : FourScript \in Seq(S)
<1> DEFINE X1 == {SystemProgram[i] : i \in 1 .. 3}
           X2 == {SplToken[i] : i \in 1 .. 1}
           X3 == {AssociatedTokenAccount[i] : i \in 1 .. 3}
           X4 == {CreateMint22[i] : i \in 1 .. 1}
           X5 == {TransferWithFee[i] : i \in 1 .. 5}
           S == X1 \cup X2 \cup X3 \cup X4 \cup X5
<1>1. SystemProgram \in Seq(X1)
  BY SMT DEF SystemProgram
<1>2. SplToken \in Seq(X2)
  BY SMT DEF SplToken
<1>3. AssociatedTokenAccount \in Seq(X3)
  BY SMT DEF AssociatedTokenAccount
<1>4. CreateMint22 \in Seq(X4)
  BY SMT DEF CreateMint22
<1>5. TransferWithFee \in Seq(X5)
  BY SMT DEF TransferWithFee
<1> HIDE DEF X1, X2, X3, X4, X5
<1>6. /\ SystemProgram \in Seq(S) /\ SplToken \in Seq(S)
      /\ AssociatedTokenAccount \in Seq(S) /\ CreateMint22 \in Seq(S)
      /\ TransferWithFee \in Seq(S)
  BY <1>1, <1>2, <1>3, <1>4, <1>5
<1> HIDE DEF S
<1>7. FourScript \in Seq(S)
  BY <1>6 DEF FourScript
<1>8. QED BY <1>7

\* The parts of main's view after n calls.
FourProgram(m)   == IF m = splMint THEN "Token" ELSE "Token2022"
FourFee(m)       == IF m = splMint THEN NoFee ELSE Fee22
FourSupply(m, n) == IF n < (IF m = splMint THEN 6 ELSE 10) THEN 0 ELSE 1000000
FourCap(m, n)    == IF m = splMint \/ n < 11 THEN 0 ELSE 5000

FourMint(m, s) ==
  [kind |-> "mint", authority |-> Payer, decimals |-> DECIMALS,
   is_initialized |-> TRUE, supply |-> s, fee |-> FourFee(m)]

LEMMA FourRowIs ==
  ASSUME NEW m, NEW n \in Nat
  PROVE  /\ FourRow(m, n).program = FourProgram(m)
         /\ FourRow(m, n).data = FourMint(m, FourSupply(m, n))
         /\ FourRow(m, n).held = FourHeld(m, n)
         /\ FourRow(m, n).cap = FourCap(m, n)
<1> DEFINE k == FourSupply(m, n)
           h == FourHeld(m, n)
           p == FourProgram(m)
           q == FourCap(m, n)
           f == FourFee(m)
           dec == DECIMALS
           yes == TRUE
           e == [kind |-> "mint", authority |-> Payer, decimals |-> dec,
                 is_initialized |-> yes, supply |-> 0, fee |-> f]
           x == [kind |-> "mint", authority |-> Payer, decimals |-> dec,
                 is_initialized |-> yes, supply |-> k, fee |-> f]
<1>1. FourRow(m, n) = Row(p, [Mint(Payer, DECIMALS, f) EXCEPT !.supply = k], h, q)
  <2>1. CASE m = splMint
    <3>1. /\ p = "Token" /\ f = NoFee /\ q = 0
          /\ k = IF n < 6 THEN 0 ELSE 1000000
      BY <2>1, SMT DEF FourProgram, FourFee, FourSupply, FourCap
    <3>2. FourRow(m, n) = Row("Token", [Mint(Payer, DECIMALS, NoFee) EXCEPT
                            !.supply = IF n < 6 THEN 0 ELSE 1000000], h, 0)
      BY <2>1, SMT DEF FourRow
    <3>3. QED BY <3>1, <3>2, SMT
  <2>2. CASE m # splMint
    <3>1. /\ p = "Token2022" /\ f = Fee22
          /\ q = IF n < 11 THEN 0 ELSE 5000
          /\ k = IF n < 10 THEN 0 ELSE 1000000
      BY <2>2, SMT DEF FourProgram, FourFee, FourSupply, FourCap
    <3>2. FourRow(m, n) = Row("Token2022", [Mint(Payer, DECIMALS, Fee22) EXCEPT
                            !.supply = IF n < 10 THEN 0 ELSE 1000000], h,
                            IF n < 11 THEN 0 ELSE 5000)
      BY <2>2, SMT DEF FourRow
    <3>3. QED BY <3>1, <3>2, SMT
  <2> HIDE DEF p, f, k, h, q
  <2>3. QED BY <2>1, <2>2, Zenon
<1>2. x = FourMint(m, k)
  BY SMT DEF FourMint
<1> HIDE DEF k, h, p, q, f, dec, yes
<1>3. [e EXCEPT !.supply = k] = x
  OBVIOUS
<1> HIDE DEF e, x
<1>4. FourRow(m, n) = Row(p, x, h, q)
  <2>1. Mint(Payer, DECIMALS, f) = e
    BY SMT DEF Mint, e, dec, yes
  <2>2. QED BY <1>1, <1>3, <2>1
<1>5. /\ FourRow(m, n).program = p /\ FourRow(m, n).data = x
      /\ FourRow(m, n).held = h /\ FourRow(m, n).cap = q
  BY <1>4 DEF Row
<1>6. QED BY <1>2, <1>5, SMT DEF k, h, p, q

LEMMA FourMintIs ==
  ASSUME NEW m, NEW s
  PROVE  LET d == FourMint(m, s)
         IN  /\ d.kind = "mint" /\ d.authority = Payer /\ d.decimals = DECIMALS
             /\ d.supply = s /\ d.fee = FourFee(m)
             /\ d = [kind |-> d.kind, authority |-> d.authority,
                     decimals |-> d.decimals, is_initialized |-> d.is_initialized,
                     supply |-> d.supply, fee |-> d.fee]
<1> DEFINE f == FourFee(m)
           dec == DECIMALS
           yes == TRUE
           d == [kind |-> "mint", authority |-> Payer, decimals |-> dec,
                 is_initialized |-> yes, supply |-> s, fee |-> f]
<1>1. FourMint(m, s) = d
  BY SMT DEF FourMint
<1> HIDE DEF f, dec, yes
<1>2. /\ d.kind = "mint" /\ d.authority = Payer /\ d.decimals = dec
      /\ d.supply = s /\ d.fee = f
      /\ d = [kind |-> d.kind, authority |-> d.authority,
              decimals |-> d.decimals, is_initialized |-> d.is_initialized,
              supply |-> d.supply, fee |-> d.fee]
  OBVIOUS
<1> HIDE DEF d
<1>3. QED BY <1>1, <1>2, SMT DEF f, dec

LEMMA FourViewIs ==
  ASSUME NEW n \in Nat
  PROVE  LET v == FourView(n)
         IN  /\ v.plain = IF n < 1 THEN {} ELSE {blank}
             /\ v.floor = IF n < 2 THEN MinimumBalance(0) ELSE MinimumBalance(0) + 1000000
             /\ DOMAIN v.mints = (IF n < 4 THEN {} ELSE {splMint})
                                   \cup (IF n < 8 THEN {} ELSE {mint22})
             /\ v.open = (IF n < 5 THEN {} ELSE {<<Payer, splMint>>})
                           \cup (IF n < 9 THEN {}
                                 ELSE {<<Payer, mint22>>, <<Recipient, mint22>>})
             /\ \A m \in DOMAIN v.mints : v.mints[m] = FourRow(m, n)
<1> DEFINE pl == IF n < 1 THEN {} ELSE {blank}
           fl == IF n < 2 THEN MinimumBalance(0) ELSE MinimumBalance(0) + 1000000
           D == (IF n < 4 THEN {} ELSE {splMint}) \cup (IF n < 8 THEN {} ELSE {mint22})
           o == (IF n < 5 THEN {} ELSE {<<Payer, splMint>>})
                  \cup (IF n < 9 THEN {} ELSE {<<Payer, mint22>>, <<Recipient, mint22>>})
           ms == [m \in D |-> FourRow(m, n)]
<1>1. FourView(n) = [plain |-> pl, floor |-> fl, mints |-> ms, open |-> o]
  BY SMT DEF FourView
<1> HIDE DEF pl, fl, D, o
<1>2. DOMAIN ms = D /\ \A m \in D : ms[m] = FourRow(m, n)
  OBVIOUS
<1> HIDE DEF ms
<1>3. /\ FourView(n).plain = pl /\ FourView(n).floor = fl /\ FourView(n).mints = ms
      /\ FourView(n).open = o
  BY <1>1
<1>4. QED BY <1>2, <1>3, SMT DEF pl, fl, D, o

LEMMA FourHeldIs ==
  ASSUME NEW m, NEW n \in Nat
  PROVE  LET h == FourHeld(m, n)
         IN  /\ h \in [Wallets -> Nat]
             /\ m = splMint =>
                  /\ h[Payer] = IF n < 6 THEN 0 ELSE 1000000
                  /\ \A w \in Wallets : w # Payer => h[w] = 0
             /\ m # splMint =>
                  /\ h[Payer] = IF n < 10 THEN 0 ELSE IF n < 11 THEN 1000000 ELSE 900000
                  /\ h[Recipient] = IF n < 11 THEN 0 ELSE 95000
                  /\ \A w \in Wallets : w \notin {Payer, Recipient} => h[w] = 0
<1> DEFINE h == FourHeld(m, n)
           a == IF m = splMint THEN IF n < 6 THEN 0 ELSE 1000000
                ELSE IF n < 10 THEN 0 ELSE IF n < 11 THEN 1000000 ELSE 900000
           b == IF m = splMint \/ n < 11 THEN 0 ELSE 95000
<1>1. Payer \in Wallets /\ Recipient \in Wallets /\ Payer # Recipient
  BY FourKeysAssumption
<1>2. h = [w \in Wallets |-> IF w = Payer THEN a ELSE IF w = Recipient THEN b ELSE 0]
  <2>1. CASE m = splMint
    BY <1>1, <2>1, SMT DEF FourHeld
  <2>2. CASE m # splMint
    BY <1>1, <2>2, SMT DEF FourHeld
  <2>3. QED BY <2>1, <2>2, SMT
<1>3. a \in Nat /\ b \in Nat /\ (m = splMint => b = 0)
  BY SMT
<1> HIDE DEF a, b, h
<1>4. /\ DOMAIN h = Wallets /\ h[Payer] = a /\ h[Recipient] = b
      /\ \A w \in Wallets : w \notin {Payer, Recipient} => h[w] = 0
  BY <1>1, <1>2
<1>5. h = [w \in Wallets |-> h[w]]
  BY <1>2
<1>6. h \in [Wallets -> Nat]
  BY <1>3, <1>4, <1>5
<1>7. m = splMint => \A w \in Wallets : w # Payer => h[w] = 0
  BY <1>3, <1>4
<1>8. QED BY <1>4, <1>6, <1>7, SMT DEF a, b, h

LEMMA FeeIs ==
  /\ Fee22.bps \in Nat /\ Fee22.max \in Nat /\ Fee22 # NoFee
  /\ FeeOf(Fee22, 100000) = 5000
  /\ NoFee.bps \in Nat /\ NoFee.max \in Nat
<1>1. Fee22.bps = 500 /\ Fee22.max = MaxU64 /\ NoFee.bps = 0 /\ NoFee.max = 0
  BY SMT DEF Fee22, NoFee
<1>2. MaxU64 \in Nat /\ MaxU64 >= 5000
  BY SupplyAssumption, SMT
<1>3. (100000 * 500 + 9999) \div 10000 = 5000
  BY SMT
<1>4. FeeOf(Fee22, 100000) = 5000
  BY <1>1, <1>2, <1>3, SMT DEF FeeOf
<1>5. Fee22 # NoFee
  BY <1>1, SMT
<1>6. QED BY <1>1, <1>2, <1>4, <1>5, SMT

\* A mint of main's view.
LEMMA FourMintRow ==
  ASSUME NEW n \in Nat, NEW m \in DOMAIN FourView(n).mints
  PROVE  LET r == FourView(n).mints[m]
         IN  /\ m \in {splMint, mint22} /\ r = FourRow(m, n)
             /\ r.program = FourProgram(m)
             /\ r.data = FourMint(m, FourSupply(m, n)) /\ r.data.kind = "mint"
             /\ r.data.authority = Payer /\ r.data.decimals = DECIMALS
             /\ r.data.supply = FourSupply(m, n) /\ r.data.fee = FourFee(m)
             /\ r.held = FourHeld(m, n) /\ r.cap = FourCap(m, n)
<1> DEFINE v == FourView(n)
           r == v.mints[m]
<1>1. m \in {splMint, mint22} /\ r = FourRow(m, n)
  BY FourViewIs, SMT
<1> HIDE DEF r
<1>2. /\ r.program = FourProgram(m) /\ r.data = FourMint(m, FourSupply(m, n))
      /\ r.held = FourHeld(m, n) /\ r.cap = FourCap(m, n)
  BY <1>1, FourRowIs
<1>3. /\ r.data.kind = "mint" /\ r.data.authority = Payer
      /\ r.data.decimals = DECIMALS /\ r.data.supply = FourSupply(m, n)
      /\ r.data.fee = FourFee(m)
  <2> DEFINE d == FourMint(m, FourSupply(m, n))
  <2>1. d.kind = "mint" /\ d.authority = Payer /\ d.decimals = DECIMALS
        /\ d.supply = FourSupply(m, n) /\ d.fee = FourFee(m)
    BY FourMintIs, SMT
  <2> HIDE DEF d
  <2>2. r.data = d
    BY <1>2 DEF d
  <2>3. QED BY <2>1, <2>2
<1>4. QED BY <1>1, <1>2, <1>3 DEF r

LEMMA FourRowSane ==
  ASSUME NEW n \in Nat, NEW m \in DOMAIN FourView(n).mints
  PROVE  SaneRow(FourView(n), m)
<1> DEFINE v == FourView(n)
           r == v.mints[m]
           h == FourHeld(m, n)
<1>1. /\ m \in {splMint, mint22}
      /\ r.program = FourProgram(m)
      /\ r.data = FourMint(m, FourSupply(m, n)) /\ r.data.kind = "mint"
      /\ r.data.authority = Payer
      /\ r.data.supply = FourSupply(m, n) /\ r.data.fee = FourFee(m)
      /\ r.held = h /\ r.cap = FourCap(m, n)
  BY FourMintRow, SMT
<1>2. /\ FourProgram(m) \in TokenPrograms /\ FourSupply(m, n) \in Nat
      /\ FourCap(m, n) \in Nat
  BY SMT DEF FourProgram, TokenPrograms, FourSupply, FourCap
<1>3. FourFee(m).bps \in Nat /\ FourFee(m).max \in Nat
  BY FeeIs, SMT DEF FourFee
<1>4. Payer \in Wallets \ Others /\ Recipient \in Wallets \ Others /\ mint22 # splMint
  BY FourKeysAssumption
<1>5. LET d == r.data
      IN  d = [kind |-> d.kind, authority |-> d.authority, decimals |-> d.decimals,
               is_initialized |-> d.is_initialized, supply |-> d.supply, fee |-> d.fee]
  <2> DEFINE d == FourMint(m, FourSupply(m, n))
  <2>1. d = [kind |-> d.kind, authority |-> d.authority, decimals |-> d.decimals,
             is_initialized |-> d.is_initialized, supply |-> d.supply, fee |-> d.fee]
    BY FourMintIs, SMT
  <2>2. r.data = d
    BY <1>1
  <2> HIDE DEF d, r
  <2>3. QED BY <2>1, <2>2, SMT
<1>6. h \in [Wallets -> Nat]
  BY FourHeldIs, SMT
<1>7. ASSUME NEW w \in Wallets, h[w] # 0
      PROVE  <<w, m>> \in v.open /\ w \notin Others
  <2>1. v.open = (IF n < 5 THEN {} ELSE {<<Payer, splMint>>})
                   \cup (IF n < 9 THEN {}
                         ELSE {<<Payer, mint22>>, <<Recipient, mint22>>})
    BY FourViewIs, SMT
  <2>2. CASE m = splMint
    <3>1. w = Payer
      BY <1>7, <2>2, FourHeldIs, SMT
    <3>2. n >= 6
      BY <1>7, <2>2, <3>1, FourHeldIs, SMT
    <3>3. QED BY <1>4, <2>1, <2>2, <3>1, <3>2, SMT
  <2>3. CASE m = mint22
    <3>1. w \in {Payer, Recipient}
      BY <1>4, <1>7, <2>3, FourHeldIs, SMT
    <3>2. n >= 10
      BY <1>4, <1>7, <2>3, <3>1, FourHeldIs, SMT
    <3>3. QED BY <1>4, <2>1, <2>3, <3>1, <3>2, SMT
  <2>4. QED BY <1>1, <2>2, <2>3, SMT
<1>8. \A o \in Others : h[o] = 0
  <2> SUFFICES ASSUME NEW o \in Others
               PROVE  h[o] = 0
    OBVIOUS
  <2>1. o \in Wallets
    BY OthersAssumption
  <2>2. h[o] # 0 => o \notin Others
    BY <1>7, <2>1
  <2>3. QED BY <2>2
<1> HIDE DEF v, h
<1>9. SaneRow(v, m)
  BY <1>1, <1>2, <1>3, <1>4, <1>5, <1>6, <1>7, <1>8, SMT DEF SaneRow
<1>10. QED BY <1>9, SMT DEF v

LEMMA MinimumIs == MinimumBalance(0) \in Nat /\ MinimumBalance(0) + 1000000 \in Nat
BY SMT DEF MinimumBalance

LEMMA FourViewSane ==
  ASSUME NEW n \in Nat
  PROVE  Sane(FourView(n))
<1> DEFINE v == FourView(n)
<1>1. /\ v.plain = IF n < 1 THEN {} ELSE {blank}
      /\ v.floor = IF n < 2 THEN MinimumBalance(0) ELSE MinimumBalance(0) + 1000000
      /\ DOMAIN v.mints = (IF n < 4 THEN {} ELSE {splMint})
                            \cup (IF n < 8 THEN {} ELSE {mint22})
      /\ v.open = (IF n < 5 THEN {} ELSE {<<Payer, splMint>>})
                    \cup (IF n < 9 THEN {}
                          ELSE {<<Payer, mint22>>, <<Recipient, mint22>>})
  <2>1. v.plain = IF n < 1 THEN {} ELSE {blank}
    BY SMT DEF FourView
  <2>2. v.floor = IF n < 2 THEN MinimumBalance(0) ELSE MinimumBalance(0) + 1000000
    BY FourViewIs, SMT
  <2>3. DOMAIN v.mints = (IF n < 4 THEN {} ELSE {splMint})
                           \cup (IF n < 8 THEN {} ELSE {mint22})
    BY FourViewIs, SMT
  <2>4. v.open = (IF n < 5 THEN {} ELSE {<<Payer, splMint>>})
                   \cup (IF n < 9 THEN {}
                         ELSE {<<Payer, mint22>>, <<Recipient, mint22>>})
    BY FourViewIs, SMT
  <2>5. QED BY <2>1, <2>2, <2>3, <2>4, SMT
<1>2. \A m \in DOMAIN v.mints : SaneRow(v, m)
  BY FourRowSane
<1> HIDE DEF v
<1>3. /\ Payer \in Wallets /\ Recipient \in Wallets
      /\ blank \in NewKeys /\ splMint \in NewKeys /\ mint22 \in NewKeys
      /\ blank # splMint /\ splMint # mint22 /\ mint22 # blank
  BY FourKeysAssumption
<1>4. v.floor \in Nat
  BY <1>1, MinimumIs, SMT
<1>5. v.plain \subseteq NewKeys \ DOMAIN v.mints /\ DOMAIN v.mints \subseteq NewKeys
  BY <1>1, <1>3, SMT
<1>6. v.open \subseteq Wallets \X DOMAIN v.mints
  <2>1. n >= 5 => splMint \in DOMAIN v.mints
    BY <1>1, SMT
  <2>2. n >= 9 => mint22 \in DOMAIN v.mints
    BY <1>1, SMT
  <2>3. QED BY <1>1, <1>3, <2>1, <2>2, SMT
<1>7. Sane(v)
  BY <1>2, <1>4, <1>5, <1>6 DEF Sane
<1>8. QED BY <1>7, SMT DEF v

LEMMA FourBounded ==
  ASSUME NEW n \in Nat
  PROVE  Bounded(FourView(n))
<1> DEFINE v == FourView(n)
<1>1. ASSUME NEW m \in DOMAIN v.mints
      PROVE  /\ v.mints[m].data.supply <= MaxU64 /\ v.mints[m].cap <= MaxU64
             /\ \A w \in Wallets : v.mints[m].held[w] <= MaxU64
  <2>1. /\ v.mints[m].data.supply = FourSupply(m, n) /\ v.mints[m].cap = FourCap(m, n)
        /\ v.mints[m].held = FourHeld(m, n)
    BY <1>1, FourMintRow, SMT
  <2>2. FourSupply(m, n) <= MaxU64 /\ FourCap(m, n) <= MaxU64
    BY SupplyAssumption, SMT DEF FourSupply, FourCap
  <2>3. ASSUME NEW w \in Wallets
        PROVE  FourHeld(m, n)[w] <= MaxU64
    <3> DEFINE k == FourHeld(m, n)[w]
    <3>1. k \in {0, 95000, 900000, 1000000}
      <4>1. CASE w = Payer
        BY <4>1, FourHeldIs, SMT
      <4>2. CASE w = Recipient
        BY <4>2, FourHeldIs, FourKeysAssumption, SMT
      <4>3. CASE w \notin {Payer, Recipient}
        BY <4>3, FourHeldIs, SMT
      <4>4. QED BY <4>1, <4>2, <4>3, SMT
    <3> HIDE DEF k
    <3>2. k <= MaxU64
      BY <3>1, SupplyAssumption, SMT
    <3>3. QED BY <3>2, SMT DEF k
  <2> HIDE DEF v
  <2>4. QED BY <2>1, <2>2, <2>3, SMT
<1>2. QED BY <1>1, SMT DEF Bounded

\* What a call does not change.
LEMMA FourSameRow ==
  ASSUME NEW n \in Nat, NEW m,
         m = splMint => n # 5,
         m # splMint => n # 9 /\ n # 10
  PROVE  FourRow(m, n + 1) = FourRow(m, n)
<1>1. CASE m = splMint
  <2>1. (n + 1 < 6) <=> (n < 6)
    BY <1>1, SMT
  <2>2. (n + 1 >= 6) <=> (n >= 6)
    BY <1>1, SMT
  <2>3. FourHeld(m, n + 1) = FourHeld(m, n)
    BY <1>1, <2>2, SMT DEF FourHeld
  <2>4. QED BY <1>1, <2>1, <2>3, SMT DEF FourRow
<1>2. CASE m # splMint
  <2>1. /\ (n + 1 < 10) <=> (n < 10)
        /\ (n + 1 < 11) <=> (n < 11)
    BY <1>2, SMT
  <2>2. FourHeld(m, n + 1) = FourHeld(m, n)
    BY <1>2, <2>1, SMT DEF FourHeld
  <2>3. QED BY <1>2, <2>1, <2>2, SMT DEF FourRow
<1>3. QED BY <1>1, <1>2

LEMMA FourSameView ==
  ASSUME NEW n \in {2, 6, 11, 12}
  PROVE  FourView(n + 1) = FourView(n)
<1>1. /\ (n + 1 < 1) <=> (n < 1)
      /\ (n + 1 < 2) <=> (n < 2)
      /\ (n + 1 < 4) <=> (n < 4)
      /\ (n + 1 < 5) <=> (n < 5)
      /\ (n + 1 < 8) <=> (n < 8)
      /\ (n + 1 < 9) <=> (n < 9)
  BY SMT
<1>2. \A m : FourRow(m, n + 1) = FourRow(m, n)
  BY FourSameRow, SMT
<1>3. QED BY <1>1, <1>2, SMT DEF FourView

LEMMA FourAta ==
  ASSUME NEW n \in Nat, NEW m \in DOMAIN FourView(n).mints, NEW w
  PROVE  AtaIn(FourView(n), w, m) = DeriveAta(w, m, FourProgram(m))
<1>1. FourView(n).mints[m].program = FourProgram(m)
  BY FourMintRow, SMT
<1>2. QED BY <1>1, SMT DEF AtaIn, DeriveAta

-----------------------------------------------------------------------------
(* Transactions by kind. *)

LEMMA OneInstruction ==
  ASSUME NEW l, NEW c, NEW ix, c.ixs = <<ix>>, Signed(c), NEW v2,
         Execute(l, ix).err = "none" => Fits(Execute(l, ix), v2) /\ Keeps(l, Execute(l, ix)),
         Execute(l, ix).err # "none" => ix.op = "createAta" /\ Exists(l, ix.ata)
  PROVE  Outcome(l, c, v2)
<1> DEFINE r == Execute(l, ix)
<1>1. RunTransaction(l, c.ixs) = r
  BY RunOne
<1>2. 1 \in DOMAIN c.ixs /\ c.ixs[1] = ix
  OBVIOUS
<1> HIDE DEF r
<1>3. r.err # "none" => \E i \in DOMAIN c.ixs :
                          c.ixs[i].op = "createAta" /\ Exists(l, c.ixs[i].ata)
  BY <1>2 DEF r
<1>4. r.err = "none" => Fits(r, v2) /\ Keeps(l, r)
  BY DEF r
<1>5. QED BY <1>1, <1>3, <1>4 DEF Outcome

\* Opening an account adds that one.
LEMMA OpenAddsOne ==
  ASSUME NEW l, NEW v, Fits(l, v), Sane(v), NEW f, NEW w \in Wallets,
         NEW m \in DOMAIN v.mints
  PROVE  LET r == Execute(l, CreateAtaIx(f, w, m, v.mints[m].program))
         IN  r.err = "none" =>
               \A b : Exists(r, b) => Exists(l, b) \/ b = AtaIn(v, w, m)
<1> DEFINE p == v.mints[m].program
           r == Execute(l, CreateAtaIx(f, w, m, p))
           a == Ata[w][m][p]
<1>1. m \in NewKeys /\ p \in TokenPrograms
  BY DEF Sane, SaneRow
<1>2. AtaIn(v, w, m) = a
  BY DEF AtaIn
<1>3. r.err = "none" => DOMAIN r.accts = DOMAIN l.accts \cup {a}
  <2>1. \A q \in TokenPrograms :
          LET z == Execute(l, CreateAtaIx(f, w, m, q))
          IN  z.err = "none" => DOMAIN z.accts = DOMAIN l.accts \cup {Ata[w][m][q]}
    BY <1>1, CreateAtaOutcome
  <2>2. QED BY <1>1, <2>1
<1> HIDE DEF r, a, p
<1>4. r.err = "none" => \A b : Exists(r, b) => Exists(l, b) \/ b = a
  BY <1>3 DEF Exists
<1>5. QED BY <1>2, <1>4 DEF r, p

\* The view once the account is opened.
WithOpen(v, v2, w, m) ==
  /\ v2.plain = v.plain /\ v2.floor = v.floor /\ v2.mints = v.mints
  /\ v2.open = v.open \cup {<<w, m>>}

\* What such an instruction makes.
Opening(l, ix, f, v2) ==
  LET r == Execute(l, ix)
  IN  /\ r.err = "none" => /\ Fits(r, v2) /\ Keeps(l, r)
                           /\ \A b : Exists(r, b) => Exists(l, b) \/ b = ix.ata
      /\ r.err # "none" => Exists(l, ix.ata)
      /\ ix.op = "createAta" /\ ix.signers = {f}

LEMMA OpenFits ==
  ASSUME NEW l, NEW v, Fits(l, v), Sane(v), NEW f, NEW w \in Wallets,
         NEW m \in DOMAIN v.mints, NEW v2, WithOpen(v, v2, w, m),
         NEW ix, ix = CreateAtaIx(f, w, m, v.mints[m].program)
  PROVE  Opening(l, ix, f, v2) /\ Sane(v2)
<1> DEFINE r == Execute(l, ix)
           a == AtaIn(v, w, m)
<1>1. ix.op = "createAta" /\ ix.ata = a /\ ix.signers = {f}
  BY DEF CreateAtaIx, DeriveAta, AtaIn
<1> DEFINE z == Execute(l, CreateAtaIx(f, w, m, v.mints[m].program))
<1>2. r = z
  OBVIOUS
<1>3. /\ z.err = "none" => /\ Fits(z, v) /\ Keeps(l, z) /\ Exists(z, AtaIn(v, w, m))
      /\ z.err # "none" => Exists(l, AtaIn(v, w, m))
  BY OpenOutcome
<1>4. z.err = "none" => \A b : Exists(z, b) => Exists(l, b) \/ b = AtaIn(v, w, m)
  BY OpenAddsOne
<1> HIDE DEF z, r, a
<1>5. r.err = "none" => Fits(r, v2)
  <2>1. ASSUME NEW e \in v2.open
        PROVE  e \in v.open \/ (e[1] = w /\ e[2] = m)
    BY <2>1 DEF WithOpen
  <2>2. r.err = "none" => Exists(r, AtaIn(v, w, m))
    BY <1>2, <1>3
  <2>3. r.err = "none" => \A e \in v2.open :
           e \in v.open \/ AtaIn(v, e[1], e[2]) \in DOMAIN r.accts
    BY <2>1, <2>2 DEF Exists
  <2>4. v2.plain = v.plain /\ v2.floor = v.floor /\ v2.mints = v.mints
    BY DEF WithOpen
  <2>5. r.err = "none" => Fits(r, v)
    BY <1>2, <1>3
  <2>6. QED BY <2>3, <2>4, <2>5, Opened
<1>6. Sane(v2)
  <2>1. v.open \subseteq v2.open /\ v2.mints = v.mints
    BY DEF WithOpen
  <2>2. \A k \in DOMAIN v.mints : SaneRow(v, k)
    BY DEF Sane
  <2>3. \A k \in DOMAIN v2.mints : SaneRow(v2, k)
    BY <2>1, <2>2 DEF SaneRow
  <2>4. v2.open \subseteq Wallets \X DOMAIN v2.mints
    BY <2>1 DEF Sane, WithOpen
  <2>5. QED BY <2>3, <2>4 DEF Sane, WithOpen
<1>7. /\ r.err = "none" => /\ Fits(r, v2) /\ Keeps(l, r)
                           /\ \A b : Exists(r, b) => Exists(l, b) \/ b = a
      /\ r.err # "none" => Exists(l, a)
  BY <1>2, <1>3, <1>4, <1>5 DEF a
<1>8. QED BY <1>1, <1>6, <1>7 DEF r, a, Opening

\* main issues to an account it opened.
LEMMA IssueOutcome ==
  ASSUME NEW l, NEW v, Fits(l, v), Sane(v), NEW m \in DOMAIN v.mints,
         NEW w \in Wallets, <<w, m>> \in v.open, NEW n \in Nat,
         NEW v2, Sane(v2), Issued(v, v2, m, w, n),
         v.mints[m].data.supply + n <= MaxU64,
         NEW c, Signed(c),
         c.ixs = <<MintToIx(v.mints[m].program, m, AtaIn(v, w, m),
                            v.mints[m].data.authority, n)>>
  PROVE  Outcome(l, c, v2)
<1> DEFINE ix == MintToIx(v.mints[m].program, m, AtaIn(v, w, m),
                          v.mints[m].data.authority, n)
           z == Execute(l, ix)
<1>1. Exists(l, AtaIn(v, w, m))
  BY OpenExists
<1>2. Fits(z, v2) /\ Keeps(l, z)
  BY <1>1, MintToOutcome
<1>3. c.ixs = <<ix>>
  OBVIOUS
<1> HIDE DEF ix
<1>4. z.err = "none"
  BY <1>2 DEF Fits
<1>5. QED BY <1>2, <1>3, <1>4, OneInstruction

-----------------------------------------------------------------------------
(* The transactions of exercise 03. *)

LEMMA FourKeys ==
  /\ Payer \in Wallets /\ Recipient \in Wallets /\ Payer # Recipient
  /\ blank \in NewKeys /\ splMint \in NewKeys /\ mint22 \in NewKeys
  /\ blank # splMint /\ splMint # mint22 /\ mint22 # blank
BY FourKeysAssumption

LEMMA FourCall1 ==
  ASSUME NEW l, Fits(l, FourView(0))
  PROVE  Outcome(l, FourScript[1], FourView(1))
<1> DEFINE v == FourView(0)
           v2 == FourView(1)
           c == FourScript[1]
           lam == MinimumBalance(0)
           ix == SysCreateAccount(Payer, blank, lam, 0, "System")
           r == Execute(l, ix)
<1>1. c.ixs = <<ix>> /\ c.keys = {Payer, blank}
  BY FourCalls, SMT DEF Send, New
<1>2. ix.signers = {Payer, blank}
  BY SMT DEF SysCreateAccount
<1>3. Sane(v) /\ Fits(l, v) /\ lam \in Nat /\ lam >= lam
  BY FourViewSane, MinimumIs, SMT
<1>4. v.plain = {} /\ DOMAIN v.mints = {} /\ v.open = {}
  BY FourViewIs, SMT
<1>5. v2.plain = {blank} /\ DOMAIN v2.mints = {} /\ v2.open = {} /\ v2.floor = lam
  BY SMT DEF FourView
<1>6. DOMAIN l.accts = {}
  BY <1>3, <1>4 DEF Fits, IsPlain, IsMint, IsHolding
<1> HIDE DEF v, v2, c, lam
<1>7. Fits(r, v2)
  <2>1. v2.floor \in Nat /\ v2.floor <= lam /\ blank \in NewKeys
    BY <1>3, <1>5, FourKeys
  <2> DEFINE p == Payer
             k == blank
  <2> HIDE DEF p, k
  <2>2. k \in NewKeys /\ v2.plain = {k}
    BY <1>5, <2>1 DEF k
  <2>3. Fits(Execute(l, SysCreateAccount(p, k, lam, 0, "System")), v2)
    BY <1>3, <1>4, <1>5, <2>1, <2>2, PlainMade DEF lam
  <2>4. QED BY <2>3, SMT DEF p, k
<1> HIDE DEF ix, r
<1>8. Keeps(l, r)
  BY <1>6 DEF Keeps
<1>9. r.err = "none"
  BY <1>7 DEF Fits
<1>10. Signed(c)
  BY <1>1, <1>2 DEF Signed
<1>11. Outcome(l, c, v2)
  BY <1>1, <1>7, <1>8, <1>9, <1>10, OneInstruction DEF r
<1>12. QED BY <1>11, SMT DEF c, v2

\* The transfer only adds to what the blank account holds.
Given(v, v2, k, n) ==
  /\ v.plain = {k}
  /\ v2.plain = v.plain /\ v2.mints = v.mints /\ v2.open = v.open
  /\ v2.floor \in Nat /\ v2.floor = v.floor + n

LEMMA GiftOutcome ==
  ASSUME NEW l, NEW v, Fits(l, v), Sane(v), NEW k, NEW n \in Nat,
         NEW v2, Given(v, v2, k, n), NEW ix, ix.to = k, ix.lamports = n
  PROVE  /\ Fits(SolTransfer(l, ix), v2)
         /\ DOMAIN SolTransfer(l, ix).accts = DOMAIN l.accts
<1> USE DEF Given
<1>1. k \in v.plain /\ v2.floor <= v.floor + n
  BY DEF Sane
<1>2. QED BY <1>1, GiftFits

LEMMA FourCall2 ==
  ASSUME NEW l, Fits(l, FourView(1))
  PROVE  Outcome(l, FourScript[2], FourView(2))
<1> DEFINE v == FourView(1)
           v2 == FourView(2)
           c == FourScript[2]
           n == 1000000
           ix == SysTransfer(Payer, blank, n)
           r == Execute(l, ix)
<1>1. c.ixs = <<ix>> /\ c.keys = {Payer}
  BY FourCalls, SMT DEF Send
<1>2. ix.op = "transfer" /\ ix.signers = {Payer} /\ ix.to = blank /\ ix.lamports = n
  BY SMT DEF SysTransfer
<1>3. Sane(v) /\ Fits(l, v) /\ n \in Nat
  BY FourViewSane, SMT
<1>4. v.plain = {blank} /\ v.floor = MinimumBalance(0) /\ v.open = {}
  BY SMT DEF FourView
<1>5. /\ v2.plain = {blank} /\ v2.floor = MinimumBalance(0) + n /\ v2.open = {}
      /\ v2.floor \in Nat
  BY MinimumIs, SMT DEF FourView
<1>6. v2.mints = v.mints
  <2>1. DOMAIN v.mints = {} /\ DOMAIN v2.mints = {}
    BY FourViewIs, SMT
  <2>2. v.mints = [m \in DOMAIN v.mints |-> v.mints[m]]
        /\ v2.mints = [m \in DOMAIN v2.mints |-> v2.mints[m]]
    BY SMT DEF FourView
  <2>3. QED BY <2>1, <2>2
<1> HIDE DEF v, v2, c, n, ix
<1>7. r = SolTransfer(l, ix)
  BY <1>2, <1>3, ExecuteIs DEF Fits
<1>8. Fits(SolTransfer(l, ix), v2) /\ DOMAIN SolTransfer(l, ix).accts = DOMAIN l.accts
  <2> DEFINE k == blank
  <2> HIDE DEF k
  <2>1. k \in v.plain /\ v.plain = {k} /\ ix.to = k
    BY <1>2, <1>4 DEF k
  <2>2. Given(v, v2, k, n)
    BY <1>4, <1>5, <1>6, <2>1 DEF Given
  <2>3. QED BY <1>2, <1>3, <2>1, <2>2, GiftOutcome
<1> HIDE DEF r
<1>9. Fits(r, v2) /\ Keeps(l, r)
  BY <1>7, <1>8 DEF Keeps
<1>10. r.err = "none"
  BY <1>9 DEF Fits
<1>11. Signed(c)
  BY <1>1, <1>2 DEF Signed
<1>12. Outcome(l, c, v2)
  BY <1>1, <1>9, <1>10, <1>11, OneInstruction DEF r
<1>13. QED BY <1>12, SMT DEF c, v2

LEMMA FourMintNew ==
  ASSUME NEW m
  PROVE  FourMint(m, 0) = Mint(Payer, DECIMALS, FourFee(m))
BY SMT DEF FourMint, Mint

\* A row of two views, when the call between them does not touch it.
LEMMA FourRowKept ==
  ASSUME NEW n \in Nat, NEW m \in DOMAIN FourView(n).mints, m \in DOMAIN FourView(n + 1).mints,
         m = splMint => n # 5,
         m # splMint => n # 9 /\ n # 10
  PROVE  FourView(n + 1).mints[m] = FourView(n).mints[m]
<1> DEFINE k == n + 1
<1>1. k \in Nat
  OBVIOUS
<1>2. FourView(n).mints[m] = FourRow(m, n)
  BY FourMintRow, SMT
<1>3. FourRow(m, k) = FourRow(m, n)
  BY FourSameRow
<1> HIDE DEF k
<1>4. m \in DOMAIN FourView(k).mints => FourView(k).mints[m] = FourRow(m, k)
  BY <1>1, FourMintRow, SMT
<1>5. QED BY <1>2, <1>3, <1>4, SMT DEF k

\* Making the mint of SPL Token.
LEMMA FourCall4 ==
  ASSUME NEW l, Fits(l, FourView(3))
  PROVE  Outcome(l, FourScript[4], FourView(4))
<1> DEFINE v == FourView(3)
           v2 == FourView(4)
           c == FourScript[4]
           m == splMint
           tok == "Token"
           d == Mint(Payer, DECIMALS, NoFee)
           r == RunTransaction(l, MintIxs(Payer, m, Payer))
<1>1. c.ixs = MintIxs(Payer, m, Payer) /\ c.keys = {Payer, m}
  BY FourCalls, SMT DEF Send, New, MintIxs, MINT_LEN
<1>2. Signed(c)
  BY <1>1, SMT DEF Signed, MintIxs, SysCreateAccount, InitializeMint2Ix
<1>3. Sane(v) /\ Sane(v2) /\ Fits(l, v)
  BY FourViewSane, SMT
<1>4. v.plain = {blank} /\ v.open = {} /\ v2.plain = {blank} /\ v2.open = {} /\ v2.floor = v.floor
  BY SMT DEF FourView
<1>5. DOMAIN v.mints = {} /\ DOMAIN v2.mints = {m}
  BY FourViewIs, SMT
<1>6. v2.mints[m].program = tok /\ v2.mints[m].data = d
  <2>1. v2.mints[m].program = FourProgram(m) /\ v2.mints[m].data = FourMint(m, FourSupply(m, 4))
    BY <1>5, FourMintRow, SMT
  <2>2. FourProgram(m) = tok /\ FourFee(m) = NoFee /\ FourSupply(m, 4) = 0
    BY SMT DEF FourProgram, FourFee, FourSupply
  <2>3. FourMint(m, 0) = Mint(Payer, DECIMALS, FourFee(m))
    BY FourMintNew
  <2> HIDE DEF v2, m
  <2>4. QED BY <2>1, <2>2, <2>3
<1>7. m \in NewKeys /\ m # blank /\ v2.floor \in Nat /\ v2.floor <= v.floor
  BY <1>3, <1>4, FourKeys, SMT DEF Sane
<1> HIDE DEF v, v2, c, m, tok, d
<1>8. MintAdded(v, v2, m, tok, d)
  BY <1>4, <1>5, <1>6, <1>7 DEF MintAdded
<1>9. Fits(r, v2) /\ Keeps(l, r)
  BY <1>3, <1>8, MintMade DEF d, tok
<1> HIDE DEF r
<1>10. r.err = "none"
  BY <1>9 DEF Fits
<1>11. Outcome(l, c, v2)
  BY <1>1, <1>2, <1>9, <1>10 DEF Outcome, r
<1>12. QED BY <1>11, SMT DEF c, v2

\* And the one of Token-2022, with its fee.
LEMMA FourCall8 ==
  ASSUME NEW l, Fits(l, FourView(7))
  PROVE  Outcome(l, FourScript[8], FourView(8))
<1> DEFINE v == FourView(7)
           v2 == FourView(8)
           c == FourScript[8]
           m == mint22
           tok == "Token2022"
           d == Mint(Payer, DECIMALS, Fee22)
           r == RunTransaction(l, FeeMintIxs(Payer, m, Payer, Fee22))
<1>1. c.ixs = FeeMintIxs(Payer, m, Payer, Fee22) /\ c.keys = {Payer, m}
  <2>1. MINT_2022_WITH_FEE_LEN = 278
    BY SMT DEF MINT_2022_WITH_FEE_LEN
  <2>2. InitializeTransferFeeConfigIx(mint22, 500, MaxU64)
          = [op |-> "initFee", signers |-> {}, mint |-> mint22, fee |-> Fee22]
    BY SMT DEF InitializeTransferFeeConfigIx, Fee22
  <2>3. New(mint22, MINT_2022_WITH_FEE_LEN, "Token2022")
          = SysCreateAccount(Payer, mint22, MinimumBalance(278), 278, "Token2022")
    BY <2>1, SMT DEF New
  <2>4. c = Send(Payer, <<New(mint22, MINT_2022_WITH_FEE_LEN, "Token2022"),
                          InitializeTransferFeeConfigIx(mint22, 500, MaxU64),
                          InitializeMint2Ix("Token2022", mint22, Payer)>>, {mint22})
    BY FourCalls, SMT
  <2> HIDE DEF c
  <2>5. c = Send(Payer, FeeMintIxs(Payer, mint22, Payer, Fee22), {mint22})
    BY <2>2, <2>3, <2>4, SMT DEF FeeMintIxs
  <2>6. QED BY <2>5, SMT DEF Send
<1>2. Signed(c)
  BY <1>1, SMT DEF Signed, FeeMintIxs, SysCreateAccount, InitializeMint2Ix
<1>3. Sane(v) /\ Sane(v2) /\ Fits(l, v)
  BY FourViewSane, SMT
<1>4. v.plain = {blank} /\ v2.plain = {blank} /\ v2.open = v.open /\ v2.floor = v.floor
  BY SMT DEF FourView
<1>5. DOMAIN v.mints = {splMint} /\ DOMAIN v2.mints = {splMint, m}
  BY FourViewIs, SMT
<1>6. v2.mints[m].program = tok /\ v2.mints[m].data = d
  <2>0. m # splMint
    BY FourKeys
  <2>1. v2.mints[m].program = FourProgram(m) /\ v2.mints[m].data = FourMint(m, FourSupply(m, 8))
    BY <1>5, FourMintRow, SMT
  <2>2. FourProgram(m) = tok /\ FourFee(m) = Fee22 /\ FourSupply(m, 8) = 0
    BY <2>0, SMT DEF FourProgram, FourFee, FourSupply
  <2>3. FourMint(m, 0) = Mint(Payer, DECIMALS, FourFee(m))
    BY FourMintNew
  <2> HIDE DEF v2, m
  <2>4. QED BY <2>1, <2>2, <2>3
<1>7. v2.mints[splMint] = v.mints[splMint]
  <2>1. splMint \in DOMAIN FourView(7).mints /\ splMint \in DOMAIN FourView(7 + 1).mints
    BY <1>5, SMT
  <2>2. FourView(7 + 1).mints[splMint] = FourView(7).mints[splMint]
    BY <2>1, FourRowKept, SMT
  <2>3. QED BY <2>2, SMT
<1>8. m \in NewKeys /\ m # blank /\ m # splMint /\ v2.floor \in Nat /\ v2.floor <= v.floor
  BY <1>3, <1>4, FourKeys, SMT DEF Sane
<1> HIDE DEF v, v2, c, m, tok, d
<1>9. MintAdded(v, v2, m, tok, d)
  BY <1>4, <1>5, <1>6, <1>7, <1>8 DEF MintAdded
<1>10. Fits(r, v2) /\ Keeps(l, r)
  <2> DEFINE f == Fee22
             p == Payer
  <2>1. f # NoFee
    BY FeeIs
  <2> HIDE DEF f, p
  <2>2. MintAdded(v, v2, m, "Token2022", Mint(p, DECIMALS, f))
    BY <1>9 DEF d, tok, f, p
  <2>3. /\ Fits(RunTransaction(l, FeeMintIxs(p, m, p, f)), v2)
        /\ Keeps(l, RunTransaction(l, FeeMintIxs(p, m, p, f)))
    BY <1>3, <2>1, <2>2, FeeMintMade
  <2>4. QED BY <2>3 DEF f, p
<1> HIDE DEF r
<1>11. r.err = "none"
  BY <1>10 DEF Fits
<1>12. Outcome(l, c, v2)
  BY <1>1, <1>2, <1>10, <1>11 DEF Outcome, r
<1>13. QED BY <1>12, SMT DEF c, v2

LEMMA FourMintMore ==
  ASSUME NEW m, NEW n \in Nat
  PROVE  LET d == FourMint(m, 0)
         IN  /\ d.authority = Payer /\ d.supply = 0
             /\ FourMint(m, n) = [d EXCEPT !.supply = @ + n]
<1> DEFINE f == FourFee(m)
           dec == DECIMALS
           yes == TRUE
           zero == 0
           x == [kind |-> "mint", authority |-> Payer, decimals |-> dec,
                 is_initialized |-> yes, supply |-> zero, fee |-> f]
           y == [kind |-> "mint", authority |-> Payer, decimals |-> dec,
                 is_initialized |-> yes, supply |-> n, fee |-> f]
<1>1. FourMint(m, 0) = x /\ FourMint(m, n) = y
  BY SMT DEF FourMint
<1>2. zero + n = n
  OBVIOUS
<1> HIDE DEF zero, yes, f, dec
<1>3. x.authority = Payer /\ x.supply = zero /\ y = [x EXCEPT !.supply = zero + n]
  BY <1>2
<1> HIDE DEF x, y
<1>4. y = [x EXCEPT !.supply = x.supply + n]
  BY <1>3
<1>5. QED BY <1>1, <1>3, <1>4, SMT DEF zero

\* Opening the account the tokens are minted to.
LEMMA FourCall5 ==
  ASSUME NEW l, Fits(l, FourView(4))
  PROVE  Outcome(l, FourScript[5], FourView(5))
<1> DEFINE v == FourView(4)
           v2 == FourView(5)
           c == FourScript[5]
           ix == CreateAtaIx(Payer, Payer, splMint, "Token")
           r == Execute(l, ix)
<1>1. c.ixs = <<ix>> /\ c.keys = {Payer}
  <2>1. c = Send(Payer, <<ix>>, {})
    BY FourCalls, SMT
  <2> HIDE DEF c, ix
  <2>2. QED BY <2>1, SMT DEF Send
<1>2. Sane(v) /\ Fits(l, v)
  BY FourViewSane, SMT
<1>3. splMint \in DOMAIN v.mints
  BY FourViewIs, SMT
<1>4. v.mints[splMint].program = "Token"
  <2>1. v.mints[splMint].program = FourProgram(splMint)
    BY <1>3, FourMintRow, SMT
  <2>2. QED BY <2>1, SMT DEF FourProgram
<1>5. WithOpen(v, v2, Payer, splMint)
  <2>1. v2.plain = v.plain /\ v2.floor = v.floor
    BY SMT DEF FourView
  <2>2. v2.open = v.open \cup {<<Payer, splMint>>}
    BY SMT DEF FourView
  <2>3. \A m : FourRow(m, 4 + 1) = FourRow(m, 4)
    BY FourSameRow, SMT
  <2>4. \A m : FourRow(m, 5) = FourRow(m, 4)
    BY <2>3, SMT
  <2>5. v2.mints = v.mints
    BY <2>4, SMT DEF FourView
  <2> HIDE DEF v, v2
  <2>6. QED BY <2>1, <2>2, <2>5 DEF WithOpen
<1> HIDE DEF v, v2, c
<1>6. ix = CreateAtaIx(Payer, Payer, splMint, v.mints[splMint].program)
  BY <1>4
<1> HIDE DEF ix, r
<1>7. /\ r.err = "none" => Fits(r, v2) /\ Keeps(l, r)
      /\ r.err # "none" => Exists(l, ix.ata)
      /\ ix.op = "createAta" /\ ix.signers = {Payer}
  <2>1. Opening(l, ix, Payer, v2)
    BY <1>2, <1>3, <1>5, <1>6, FourKeys, OpenFits
  <2>2. QED BY <2>1 DEF Opening, r
<1>8. Signed(c)
  BY <1>1, <1>7 DEF Signed
<1>9. Outcome(l, c, v2)
  BY <1>1, <1>7, <1>8, OneInstruction DEF r
<1>10. QED BY <1>9, SMT DEF c, v2

\* Minting to it.
LEMMA FourCall6 ==
  ASSUME NEW l, Fits(l, FourView(5))
  PROVE  Outcome(l, FourScript[6], FourView(6))
<1> DEFINE v == FourView(5)
           v2 == FourView(6)
           c == FourScript[6]
           n == 1000000
           tok == "Token"
           m == splMint
           a == PayerAta
           d == FourMint(m, 0)
           ix == MintToIx(tok, m, a, Payer, n)
<1>1. c.ixs = <<ix>> /\ c.keys = {Payer} /\ ix.signers = {Payer}
  <2>1. c = Send(Payer, <<ix>>, {})
    BY FourCalls, SMT
  <2> HIDE DEF c
  <2>2. QED BY <2>1, SMT DEF Send, MintToIx
<1>2. Sane(v) /\ Sane(v2) /\ Fits(l, v)
  BY FourViewSane, SMT
<1>3. DOMAIN v.mints = {m} /\ DOMAIN v2.mints = {m}
  BY FourViewIs, SMT
<1>4. v2.plain = v.plain /\ v2.floor = v.floor /\ v2.open = v.open /\ <<Payer, m>> \in v.open
  BY SMT DEF FourView
<1>5. /\ v.mints[m].program = tok /\ v.mints[m].data = d /\ v.mints[m].cap = 0
      /\ v.mints[m].held = FourHeld(m, 5)
      /\ v2.mints[m].program = tok /\ v2.mints[m].data = FourMint(m, n)
      /\ v2.mints[m].cap = 0 /\ v2.mints[m].held = FourHeld(m, 6)
  <2>1. FourProgram(m) = tok /\ FourSupply(m, 5) = 0 /\ FourSupply(m, 6) = n
        /\ FourCap(m, 5) = 0 /\ FourCap(m, 6) = 0
    BY FourKeys, SMT DEF FourProgram, FourSupply, FourCap
  <2>2. /\ v.mints[m].program = FourProgram(m)
        /\ v.mints[m].data = FourMint(m, FourSupply(m, 5))
        /\ v.mints[m].cap = FourCap(m, 5) /\ v.mints[m].held = FourHeld(m, 5)
    BY <1>3, FourMintRow, SMT
  <2>3. /\ v2.mints[m].program = FourProgram(m)
        /\ v2.mints[m].data = FourMint(m, FourSupply(m, 6))
        /\ v2.mints[m].cap = FourCap(m, 6) /\ v2.mints[m].held = FourHeld(m, 6)
    BY <1>3, FourMintRow, SMT
  <2> HIDE DEF v, v2, m
  <2>4. QED BY <2>1, <2>2, <2>3, SMT
<1>6. /\ FourHeld(m, 6)[Payer] = FourHeld(m, 5)[Payer] + n
      /\ \A w \in Wallets : w # Payer => FourHeld(m, 6)[w] = FourHeld(m, 5)[w]
  BY FourHeldIs, SMT
<1>7. d.authority = Payer /\ d.supply = 0 /\ FourMint(m, n) = [d EXCEPT !.supply = @ + n]
  BY FourMintMore, SMT
<1>8. AtaIn(v, Payer, m) = a
  <2>1. v.mints[m].program = tok
    BY <1>5
  <2>2. QED BY <2>1, SMT DEF AtaIn, DeriveAta, PayerAta
<1>9. Payer \in Wallets /\ n \in Nat /\ 0 + n = n /\ n <= MaxU64
  BY FourKeys, SupplyAssumption, SMT
<1> HIDE DEF v, v2, c, n, tok, m, a, d
<1>10. Issued(v, v2, m, Payer, n)
  BY <1>3, <1>4, <1>5, <1>6, <1>7 DEF Issued
<1>11. Signed(c)
  <2> HIDE DEF ix
  <2>1. QED BY <1>1 DEF Signed
<1>12. Outcome(l, c, v2)
  <2>1. m \in DOMAIN v.mints
    BY <1>3
  <2>2. v.mints[m].data.supply + n <= MaxU64
    BY <1>5, <1>7, <1>9
  <2>3. c.ixs = <<MintToIx(v.mints[m].program, m, AtaIn(v, Payer, m),
                           v.mints[m].data.authority, n)>>
    BY <1>1, <1>5, <1>7, <1>8
  <2>4. QED BY <1>2, <1>4, <1>9, <1>10, <1>11, <2>1, <2>2, <2>3, IssueOutcome
<1>13. QED BY <1>12, SMT DEF c, v2

\* Opening the two accounts of the second mint.
LEMMA FourCall9 ==
  ASSUME NEW l, Fits(l, FourView(8))
  PROVE  Outcome(l, FourScript[9], FourView(9))
<1> DEFINE v == FourView(8)
           v2 == FourView(9)
           vm == [plain |-> v.plain, floor |-> v.floor, mints |-> v.mints,
                  open |-> v.open \cup {<<Payer, mint22>>}]
           c == FourScript[9]
           ix == CreateAtaIx(Payer, Payer, mint22, "Token2022")
           iy == CreateAtaIx(Payer, Recipient, mint22, "Token2022")
           l1 == Execute(l, ix)
           r == Execute(l1, iy)
<1>1. c.ixs = <<ix, iy>> /\ c.keys = {Payer}
  <2>1. c = Send(Payer, <<ix, iy>>, {})
    BY FourCalls, SMT
  <2> HIDE DEF c, ix, iy
  <2>2. QED BY <2>1, SMT DEF Send
<1>2. Sane(v) /\ Fits(l, v)
  BY FourViewSane, SMT
<1>3. mint22 \in DOMAIN v.mints
  BY FourViewIs, SMT
<1>4. v.mints[mint22].program = "Token2022"
  <2>1. v.mints[mint22].program = FourProgram(mint22)
    BY <1>3, FourMintRow, SMT
  <2>2. QED BY <2>1, FourKeys, SMT DEF FourProgram
<1>5. WithOpen(v, vm, Payer, mint22)
  <2> HIDE DEF v
  <2>1. QED BY DEF WithOpen
<1>6. WithOpen(vm, v2, Recipient, mint22)
  <2>1. v2.plain = v.plain /\ v2.floor = v.floor
    BY SMT DEF FourView
  <2>2. v2.open = v.open \cup {<<Payer, mint22>>, <<Recipient, mint22>>}
    BY SMT DEF FourView
  <2>3. \A m : FourRow(m, 8 + 1) = FourRow(m, 8)
    BY FourSameRow, SMT
  <2>4. \A m : FourRow(m, 9) = FourRow(m, 8)
    BY <2>3, SMT
  <2>5. v2.mints = v.mints
    BY <2>4, SMT DEF FourView
  <2> HIDE DEF v, v2
  <2>6. v2.open = vm.open \cup {<<Recipient, mint22>>}
    BY <2>2
  <2>7. QED BY <2>1, <2>5, <2>6 DEF WithOpen
<1>7. vm.mints = v.mints
  OBVIOUS
<1> HIDE DEF v, v2, vm, c
<1>8. /\ ix = CreateAtaIx(Payer, Payer, mint22, v.mints[mint22].program)
      /\ iy = CreateAtaIx(Payer, Recipient, mint22, vm.mints[mint22].program)
      /\ mint22 \in DOMAIN vm.mints
  BY <1>3, <1>4, <1>7
<1>9. ix.ata # iy.ata
  <2>1. ix.ata = Ata[Payer][mint22]["Token2022"] /\ iy.ata = Ata[Recipient][mint22]["Token2022"]
    BY SMT DEF CreateAtaIx, DeriveAta
  <2>2. "Token2022" \in TokenPrograms
    BY DEF TokenPrograms
  <2> HIDE DEF ix, iy
  <2> DEFINE t == "Token2022"
  <2> HIDE DEF t
  <2>3. Ata[Payer][mint22][t] # Ata[Recipient][mint22][t]
    <3>1. t \in TokenPrograms
      BY <2>2 DEF t
    <3>2. \A w2 \in Wallets, m2 \in NewKeys, p2 \in TokenPrograms :
            Ata[Payer][mint22][t] = Ata[w2][m2][p2] => Payer = w2 /\ mint22 = m2 /\ t = p2
      BY <3>1, FourKeys, AtaSeedsUnique
    <3>3. QED BY <3>1, <3>2, FourKeys
  <2>4. QED BY <2>1, <2>3, SMT DEF t
<1> HIDE DEF ix, iy, l1, r
<1>10. /\ l1.err = "none" => /\ Fits(l1, vm) /\ Keeps(l, l1)
                             /\ \A b : Exists(l1, b) => Exists(l, b) \/ b = ix.ata
       /\ l1.err # "none" => Exists(l, ix.ata)
       /\ ix.op = "createAta" /\ ix.signers = {Payer} /\ Sane(vm)
  <2>1. Opening(l, ix, Payer, vm) /\ Sane(vm)
    BY <1>2, <1>3, <1>5, <1>8, FourKeys, OpenFits
  <2>2. QED BY <2>1 DEF Opening, l1
<1>11. ASSUME l1.err = "none"
       PROVE  /\ r.err = "none" => Fits(r, v2) /\ Keeps(l1, r)
              /\ r.err # "none" => Exists(l1, iy.ata)
              /\ iy.op = "createAta" /\ iy.signers = {Payer}
  <2>1. Opening(l1, iy, Payer, v2)
    BY <1>6, <1>8, <1>10, <1>11, FourKeys, OpenFits
  <2>2. QED BY <2>1 DEF Opening, r
<1>12. iy.op = "createAta" /\ iy.signers = {Payer}
  BY SMT DEF iy, CreateAtaIx
<1>13. RunTransaction(l, c.ixs) = r
  BY <1>1, RunTwo DEF r, l1
<1>14. l1.err # "none" => r = l1
  BY ErrorStays DEF r
<1>15. r.err = "none" => Fits(r, v2) /\ Keeps(l, r)
  BY <1>10, <1>11, <1>14 DEF Keeps
<1>16. r.err # "none" => \E i \in DOMAIN c.ixs :
                           c.ixs[i].op = "createAta" /\ Exists(l, c.ixs[i].ata)
  <2>1. /\ 1 \in DOMAIN c.ixs /\ c.ixs[1] = ix
        /\ 2 \in DOMAIN c.ixs /\ c.ixs[2] = iy
    BY <1>1
  <2>2. r.err # "none" => Exists(l, ix.ata) \/ Exists(l, iy.ata)
    BY <1>9, <1>10, <1>11
  <2>3. QED BY <1>10, <1>12, <2>1, <2>2
<1>17. Signed(c)
  BY <1>1, <1>10, <1>12 DEF Signed
<1>18. Outcome(l, c, v2)
  BY <1>13, <1>15, <1>16, <1>17 DEF Outcome
<1>19. QED BY <1>18, SMT DEF c, v2

\* Minting to the payer's.
LEMMA FourCall10 ==
  ASSUME NEW l, Fits(l, FourView(9))
  PROVE  Outcome(l, FourScript[10], FourView(10))
<1> DEFINE v == FourView(9)
           v2 == FourView(10)
           c == FourScript[10]
           n == 1000000
           tok == "Token2022"
           m == mint22
           a == Source
           d == FourMint(m, 0)
           ix == MintToIx(tok, m, a, Payer, n)
<1>1. c.ixs = <<ix>> /\ c.keys = {Payer} /\ ix.signers = {Payer}
  <2>1. c = Send(Payer, <<ix>>, {})
    BY FourCalls, SMT
  <2> HIDE DEF c
  <2>2. QED BY <2>1, SMT DEF Send, MintToIx
<1>2. Sane(v) /\ Sane(v2) /\ Fits(l, v)
  BY FourViewSane, SMT
<1>3. DOMAIN v.mints = {splMint, m} /\ DOMAIN v2.mints = {splMint, m}
  BY FourViewIs, SMT
<1>4. v2.plain = v.plain /\ v2.floor = v.floor /\ v2.open = v.open /\ <<Payer, m>> \in v.open
  BY SMT DEF FourView
<1>5. /\ v.mints[m].program = tok /\ v.mints[m].data = d /\ v.mints[m].cap = 0
      /\ v.mints[m].held = FourHeld(m, 9)
      /\ v2.mints[m].program = tok /\ v2.mints[m].data = FourMint(m, n)
      /\ v2.mints[m].cap = 0 /\ v2.mints[m].held = FourHeld(m, 10)
  <2>1. FourProgram(m) = tok /\ FourSupply(m, 9) = 0 /\ FourSupply(m, 10) = n
        /\ FourCap(m, 9) = 0 /\ FourCap(m, 10) = 0
    BY FourKeys, SMT DEF FourProgram, FourSupply, FourCap
  <2>2. /\ v.mints[m].program = FourProgram(m)
        /\ v.mints[m].data = FourMint(m, FourSupply(m, 9))
        /\ v.mints[m].cap = FourCap(m, 9) /\ v.mints[m].held = FourHeld(m, 9)
    BY <1>3, FourMintRow, SMT
  <2>3. /\ v2.mints[m].program = FourProgram(m)
        /\ v2.mints[m].data = FourMint(m, FourSupply(m, 10))
        /\ v2.mints[m].cap = FourCap(m, 10) /\ v2.mints[m].held = FourHeld(m, 10)
    BY <1>3, FourMintRow, SMT
  <2> HIDE DEF v, v2, m
  <2>4. QED BY <2>1, <2>2, <2>3, SMT
<1>6. /\ FourHeld(m, 10)[Payer] = FourHeld(m, 9)[Payer] + n
      /\ \A w \in Wallets : w # Payer => FourHeld(m, 10)[w] = FourHeld(m, 9)[w]
  <2>1. m # splMint
    BY FourKeys
  <2>2. /\ FourHeld(m, 10)[Payer] = n /\ FourHeld(m, 9)[Payer] = 0
        /\ FourHeld(m, 10)[Recipient] = 0 /\ FourHeld(m, 9)[Recipient] = 0
    BY <2>1, FourHeldIs, SMT
  <2>3. \A w \in Wallets : w \notin {Payer, Recipient} =>
          FourHeld(m, 10)[w] = 0 /\ FourHeld(m, 9)[w] = 0
    BY <2>1, FourHeldIs, SMT
  <2> HIDE DEF m
  <2>4. \A w \in Wallets : w # Payer => FourHeld(m, 10)[w] = FourHeld(m, 9)[w]
    BY <2>2, <2>3
  <2>5. QED BY <2>2, <2>4, SMT
<1>7. d.authority = Payer /\ d.supply = 0 /\ FourMint(m, n) = [d EXCEPT !.supply = @ + n]
  BY FourMintMore, SMT
<1>8. v2.mints[splMint] = v.mints[splMint]
  <2>1. splMint \in DOMAIN FourView(9).mints /\ splMint \in DOMAIN FourView(9 + 1).mints
    BY <1>3, SMT
  <2>2. FourView(9 + 1).mints[splMint] = FourView(9).mints[splMint]
    BY <2>1, FourRowKept, SMT
  <2>3. QED BY <2>2, SMT
<1>9. AtaIn(v, Payer, m) = a
  <2>1. v.mints[m].program = tok
    BY <1>5
  <2>2. QED BY <2>1, SMT DEF AtaIn, DeriveAta, Source
<1>10. Payer \in Wallets /\ n \in Nat /\ 0 + n = n /\ n <= MaxU64
  BY FourKeys, SupplyAssumption, SMT
<1> HIDE DEF v, v2, c, n, tok, m, a, d
<1>11. Issued(v, v2, m, Payer, n)
  BY <1>3, <1>4, <1>5, <1>6, <1>7, <1>8 DEF Issued
<1>12. Signed(c)
  <2> HIDE DEF ix
  <2>1. QED BY <1>1 DEF Signed
<1>13. Outcome(l, c, v2)
  <2>1. m \in DOMAIN v.mints
    BY <1>3
  <2>2. v.mints[m].data.supply + n <= MaxU64
    BY <1>5, <1>7, <1>10
  <2>3. c.ixs = <<MintToIx(v.mints[m].program, m, AtaIn(v, Payer, m),
                           v.mints[m].data.authority, n)>>
    BY <1>1, <1>5, <1>7, <1>9
  <2>4. QED BY <1>2, <1>4, <1>10, <1>11, <1>12, <2>1, <2>2, <2>3, IssueOutcome
<1>14. QED BY <1>13, SMT DEF c, v2

\* And the transfer, of which 5% are withheld.
LEMMA FourCall11 ==
  ASSUME NEW l, Fits(l, FourView(10))
  PROVE  Outcome(l, FourScript[11], FourView(11))
<1> DEFINE v == FourView(10)
           v2 == FourView(11)
           c == FourScript[11]
           n == 100000
           fee == 5000
           tok == "Token2022"
           m == mint22
           ix == TransferCheckedIx(tok, Source, m, Dest, Payer, n)
           r == Execute(l, ix)
<1>1. c.ixs = <<ix>> /\ c.keys = {Payer} /\ ix.signers = {Payer}
  <2>1. c = Send(Payer, <<ix>>, {})
    BY FourCalls, SMT
  <2> HIDE DEF c
  <2>2. QED BY <2>1, SMT DEF Send, TransferCheckedIx
<1>2. Sane(v) /\ Sane(v2) /\ Fits(l, v)
  BY FourViewSane, SMT
<1>3. DOMAIN v.mints = {splMint, m} /\ DOMAIN v2.mints = {splMint, m}
  BY FourViewIs, SMT
<1>4. /\ v2.plain = v.plain /\ v2.floor = v.floor /\ v2.open = v.open
      /\ <<Payer, m>> \in v.open /\ <<Recipient, m>> \in v.open
  BY SMT DEF FourView
<1>5. /\ v.mints[m].program = tok /\ v2.mints[m].program = tok
      /\ v2.mints[m].data = v.mints[m].data
      /\ v.mints[m].data.decimals = DECIMALS /\ v.mints[m].data.fee = Fee22
      /\ v.mints[m].cap = 0 /\ v2.mints[m].cap = fee
      /\ v.mints[m].held = FourHeld(m, 10) /\ v2.mints[m].held = FourHeld(m, 11)
  <2>1. /\ FourProgram(m) = tok /\ FourSupply(m, 10) = FourSupply(m, 11)
        /\ FourCap(m, 10) = 0 /\ FourCap(m, 11) = fee /\ FourFee(m) = Fee22
    BY FourKeys, SMT DEF FourProgram, FourSupply, FourCap, FourFee
  <2>2. /\ v.mints[m].program = FourProgram(m)
        /\ v.mints[m].data = FourMint(m, FourSupply(m, 10))
        /\ v.mints[m].data.decimals = DECIMALS /\ v.mints[m].data.fee = FourFee(m)
        /\ v.mints[m].cap = FourCap(m, 10) /\ v.mints[m].held = FourHeld(m, 10)
    BY <1>3, FourMintRow, SMT
  <2>3. /\ v2.mints[m].program = FourProgram(m)
        /\ v2.mints[m].data = FourMint(m, FourSupply(m, 11))
        /\ v2.mints[m].cap = FourCap(m, 11) /\ v2.mints[m].held = FourHeld(m, 11)
    BY <1>3, FourMintRow, SMT
  <2> HIDE DEF v, v2, m
  <2>4. QED BY <2>1, <2>2, <2>3, SMT
<1>6. /\ n <= FourHeld(m, 10)[Payer]
      /\ FourHeld(m, 11)[Payer] = FourHeld(m, 10)[Payer] - n
      /\ FourHeld(m, 11)[Recipient] = FourHeld(m, 10)[Recipient] + n - fee
      /\ \A w \in Wallets : w \notin {Payer, Recipient} =>
           FourHeld(m, 11)[w] = FourHeld(m, 10)[w]
  <2>1. m # splMint
    BY FourKeys
  <2>2. FourHeld(m, 10)[Payer] = 1000000 /\ FourHeld(m, 11)[Payer] = 900000
    BY <2>1, FourHeldIs, SMT
  <2>3. FourHeld(m, 10)[Recipient] = 0 /\ FourHeld(m, 11)[Recipient] = 95000
    BY <2>1, FourHeldIs, SMT
  <2>4. \A w \in Wallets : w \notin {Payer, Recipient} =>
          FourHeld(m, 11)[w] = 0 /\ FourHeld(m, 10)[w] = 0
    BY <2>1, FourHeldIs, SMT
  <2> HIDE DEF m
  <2>5. \A w \in Wallets : w \notin {Payer, Recipient} =>
          FourHeld(m, 11)[w] = FourHeld(m, 10)[w]
    BY <2>4, SMT
  <2>6. QED BY <2>2, <2>3, <2>5, SMT
<1>7. v2.mints[splMint] = v.mints[splMint]
  <2>1. splMint \in DOMAIN FourView(10).mints /\ splMint \in DOMAIN FourView(10 + 1).mints
    BY <1>3, SMT
  <2>2. FourView(10 + 1).mints[splMint] = FourView(10).mints[splMint]
    BY <2>1, FourRowKept, SMT
  <2>3. QED BY <2>2, SMT
<1>8. AtaIn(v, Payer, m) = Source /\ AtaIn(v, Recipient, m) = Dest
  <2>1. v.mints[m].program = tok
    BY <1>5
  <2>2. QED BY <2>1, SMT DEF AtaIn, DeriveAta, Source, Dest
<1>9. /\ n \in Nat /\ fee \in Nat /\ fee <= n /\ 0 + fee = fee /\ fee >= fee
      /\ FeeOf(Fee22, n) = fee
  BY FeeIs, SMT
<1>10. m \in DOMAIN v.mints
  BY <1>3
<1> HIDE DEF v, v2, c, n, fee, tok, m, ix, r
<1>11. Moved(v, v2, m, Payer, Recipient, n, fee)
  BY <1>3, <1>4, <1>5, <1>6, <1>7, <1>9 DEF Moved
<1>12. Exists(l, AtaIn(v, Payer, m)) /\ Exists(l, AtaIn(v, Recipient, m))
  BY <1>2, <1>4, OpenExists
<1>13. Fits(r, v2) /\ Keeps(l, r)
  <2> DEFINE z == Execute(l, TransferCheckedIx(v.mints[m].program, AtaIn(v, Payer, m), m,
                                               AtaIn(v, Recipient, m), Payer, n))
  <2>1. n <= v.mints[m].held[Payer] /\ fee = FeeOf(v.mints[m].data.fee, n)
    BY <1>5, <1>6, <1>9
  <2>2. Fits(z, v2) /\ Keeps(l, z)
    BY <1>2, <1>5, <1>9, <1>10, <1>11, <1>12, <2>1, FourKeys, TransferFits
  <2>3. r = z
    BY <1>5, <1>8 DEF r, ix
  <2> HIDE DEF z
  <2>4. QED BY <2>2, <2>3
<1>14. r.err = "none"
  BY <1>13 DEF Fits
<1>15. Signed(c)
  BY <1>1 DEF Signed
<1>16. Outcome(l, c, v2)
  BY <1>1, <1>13, <1>14, <1>15, OneInstruction DEF r
<1>17. QED BY <1>16, SMT DEF c, v2

-----------------------------------------------------------------------------
(* The script of exercise 03, call by call. *)

FourViews == [i \in Nat |-> FourView(i)]

LEMMA FourLeads ==
  ASSUME NEW i \in 1 .. 13
  PROVE  Leads(FourScript[i], FourViews[i - 1], FourViews[i])
<1>1. /\ FourScript[1].call = "send" /\ FourScript[2].call = "send"
      /\ FourScript[4].call = "send" /\ FourScript[5].call = "send"
      /\ FourScript[6].call = "send" /\ FourScript[8].call = "send"
      /\ FourScript[9].call = "send" /\ FourScript[10].call = "send"
      /\ FourScript[11].call = "send"
  BY FourCalls, SMT DEF Send
<1>2. FourScript[3].call = "lamports"
  BY FourCalls, SMT DEF ReadLamports
<1>3. /\ FourScript[7].call = "read" /\ FourScript[12].call = "read"
      /\ FourScript[13].call = "read"
  BY FourCalls, SMT DEF TokenAmount, Read
<1>4. \A n \in Nat : FourViews[n] = FourView(n)
  BY DEF FourViews
<1>5. ASSUME i \in {1, 2, 4, 5, 6, 8, 9, 10, 11}
      PROVE  Leads(FourScript[i], FourViews[i - 1], FourViews[i])
  <2>1. FourScript[i].call = "send"
    BY <1>1, <1>5
  <2>2. /\ FourViews[0] = FourView(0) /\ FourViews[1] = FourView(1)
        /\ FourViews[2] = FourView(2) /\ FourViews[3] = FourView(3)
        /\ FourViews[4] = FourView(4) /\ FourViews[5] = FourView(5)
        /\ FourViews[6] = FourView(6) /\ FourViews[7] = FourView(7)
        /\ FourViews[8] = FourView(8) /\ FourViews[9] = FourView(9)
        /\ FourViews[10] = FourView(10) /\ FourViews[11] = FourView(11)
    BY <1>4
  <2>3. \A l : Fits(l, FourViews[i - 1]) => Outcome(l, FourScript[i], FourViews[i])
    <3>1. CASE i = 1
      BY <2>2, <3>1, FourCall1
    <3>2. CASE i = 2
      BY <2>2, <3>2, FourCall2
    <3>3. CASE i = 4
      BY <2>2, <3>3, FourCall4
    <3>4. CASE i = 5
      BY <2>2, <3>4, FourCall5
    <3>5. CASE i = 6
      BY <2>2, <3>5, FourCall6
    <3>6. CASE i = 8
      BY <2>2, <3>6, FourCall8
    <3>7. CASE i = 9
      BY <2>2, <3>7, FourCall9
    <3>8. CASE i = 10
      BY <2>2, <3>8, FourCall10
    <3>9. CASE i = 11
      BY <2>2, <3>9, FourCall11
    <3>10. QED
      BY <1>5, <3>1, <3>2, <3>3, <3>4, <3>5, <3>6, <3>7, <3>8, <3>9
  <2>4. QED BY <2>1, <2>3 DEF Leads
<1>6. ASSUME i \in {3, 7, 12, 13}
      PROVE  Leads(FourScript[i], FourViews[i - 1], FourViews[i])
  <2>1. FourScript[i].call \in {"read", "lamports"}
    BY <1>2, <1>3, <1>6
  <2>2. i - 1 \in {2, 6, 11, 12} /\ (i - 1) + 1 = i /\ i - 1 \in Nat /\ i \in Nat
    BY <1>6
  <2>3. FourView(i) = FourView(i - 1)
    <3> DEFINE k == i - 1
    <3> HIDE DEF k
    <3>1. FourView(k + 1) = FourView(k)
      BY <2>2, FourSameView DEF k
    <3>2. QED BY <2>2, <3>1 DEF k
  <2>4. FourViews[i] = FourViews[i - 1]
    BY <1>4, <2>2, <2>3
  <2>5. QED BY <2>1, <2>4 DEF Leads
<1>7. QED BY <1>5, <1>6

\* What a token account contains.
LEMMA FourAccountData ==
  ASSUME NEW l, NEW n \in Nat, Fits(l, FourView(n)),
         NEW m \in DOMAIN FourView(n).mints, NEW w \in Wallets,
         Exists(l, AtaIn(FourView(n), w, m))
  PROVE  \E h : l.accts[AtaIn(FourView(n), w, m)].data = Fields(m, w, FourHeld(m, n)[w], h)
<1> DEFINE v == FourView(n)
           x == l.accts[AtaIn(v, w, m)].data
           k == FourHeld(m, n)[w]
<1>1. Sane(v) /\ Fits(l, v)
  BY FourViewSane
<1>2. m \in DOMAIN v.mints /\ v.mints[m].held[w] = k
  BY FourMintRow, SMT
<1>3. AtaIn(v, w, m) \in DOMAIN l.accts
  BY DEF Exists
<1> HIDE DEF v, k
<1>4. x = Holding(m, w, v.mints[m].held[w], x.withheld)
  BY <1>1, <1>2, <1>3, HoldingOf
<1> HIDE DEF x
<1>5. x = Holding(m, w, k, x.withheld)
  BY <1>2, <1>4
<1>6. x = Fields(m, w, k, x.withheld)
  BY <1>5, HoldingIs
<1>7. QED BY <1>6 DEF x, k, v

LEMMA FourAmountShown ==
  ASSUME NEW n \in Nat, Fits(ledger, FourView(n)),
         NEW m \in DOMAIN FourView(n).mints, NEW w \in Wallets,
         NEW what, NEW key, key = AtaIn(FourView(n), w, m),
         NEW c, c = Read(what, key, AmountBytes), Made(c)
  PROVE  Reported(what, [amount |-> FourHeld(m, n)[w]])
<1> DEFINE k == FourHeld(m, n)[w]
<1>1. c.call = "read" /\ c.what = what /\ c.key = key
  BY SMT DEF Read
<1>2. Exists(ledger, key) /\ Reported(what, Printed(c, ledger.accts[key].data))
  BY <1>1 DEF Made
<1> HIDE DEF k
<1>3. PICK h : ledger.accts[key].data = Fields(m, w, k, h)
  BY <1>2, FourAccountData DEF k
<1>4. Printed(c, Fields(m, w, k, h)) = [amount |-> k]
  BY AmountShown
<1>5. QED BY <1>2, <1>3, <1>4 DEF k

\* What the call after the n-th prints.
LEMMA FourPrints ==
  ASSUME NEW n \in 0 .. 12, Fits(ledger, FourView(n)), Made(FourScript[n + 1])
  PROVE  /\ n \notin {2, 6, 11, 12} => UNCHANGED report
         /\ n = 2  => \E b \in Nat : /\ Reported("blank", b)
                                     /\ b >= MinimumBalance(0) + 1000000
         /\ n = 6  => Reported("ata", [amount |-> 1000000])
         /\ n = 11 => Reported("sender", [amount |-> 900000])
         /\ n = 12 => Reported("receiver", [amount |-> 95000])
<1> DEFINE c == FourScript[n + 1]
           v == FourView(n)
<1>1. ASSUME n \notin {2, 6, 11, 12}
      PROVE  UNCHANGED report
  <2>1. c.call = "send"
    <3>1. n + 1 \in {1, 2, 4, 5, 6, 8, 9, 10, 11}
      BY <1>1
    <3>2. QED BY <3>1, FourCalls, SMT DEF Send
  <2> HIDE DEF c
  <2>2. QED BY <2>1 DEF Made, c
<1>2. ASSUME n = 2
      PROVE  \E b \in Nat : Reported("blank", b) /\ b >= MinimumBalance(0) + 1000000
  <2>1. c.call = "lamports" /\ c.what = "blank" /\ c.key = blank
    BY <1>2, FourCalls, SMT DEF ReadLamports
  <2>2. v.plain = {blank} /\ v.floor = MinimumBalance(0) + 1000000 /\ Sane(v) /\ Fits(ledger, v)
    <3>1. v.plain = {blank} /\ v.floor = MinimumBalance(0) + 1000000
      BY <1>2, SMT DEF FourView
    <3>2. QED BY <3>1, FourViewSane
  <2> HIDE DEF c, v
  <2>3. Exists(ledger, blank) /\ Reported("blank", ledger.accts[blank].lamports)
    BY <2>1 DEF Made, c
  <2>4. blank \in DOMAIN ledger.accts /\ blank \in NewKeys /\ blank \notin DOMAIN v.mints
    BY <2>2, <2>3 DEF Exists, Sane
  <2>5. IsPlain(v, blank, ledger.accts[blank])
    BY <2>2, <2>4, Kinds
  <2>6. ledger.accts[blank].lamports \in Nat /\ ledger.accts[blank].lamports >= v.floor
    BY <2>5 DEF IsPlain
  <2>7. QED BY <2>2, <2>3, <2>6, SMT
<1>3. ASSUME n = 6
      PROVE  Reported("ata", [amount |-> 1000000])
  <2> DEFINE k == 1000000
             m == splMint
             key == PayerAta
  <2>1. c = Read("ata", key, AmountBytes)
    BY <1>3, FourCalls, SMT DEF TokenAmount
  <2>2. m \in DOMAIN v.mints
    BY <1>3, FourViewIs, SMT
  <2>3. v.mints[m].program = "Token"
    <3>1. v.mints[m].program = FourProgram(m)
      BY <2>2, FourMintRow, SMT
    <3>2. QED BY <3>1, SMT DEF FourProgram
  <2>4. key = AtaIn(v, Payer, m)
    BY <2>3, SMT DEF AtaIn, PayerAta, DeriveAta
  <2>5. FourHeld(m, n)[Payer] = k
    BY <1>3, FourHeldIs, SMT
  <2> HIDE DEF c, k, m, key
  <2>6. Reported("ata", [amount |-> FourHeld(m, n)[Payer]])
    BY <2>1, <2>2, <2>4, FourKeys, FourAmountShown DEF c
  <2>7. Reported("ata", [amount |-> k])
    BY <2>5, <2>6
  <2>8. QED BY <2>7, SMT DEF k
<1>4. ASSUME n \in {11, 12}, NEW w \in {Payer, Recipient}, NEW what, NEW k,
             c = Read(what, DeriveAta(w, mint22, "Token2022"), AmountBytes),
             FourHeld(mint22, n)[w] = k
      PROVE  Reported(what, [amount |-> k])
  <2> DEFINE m == mint22
             key == DeriveAta(w, m, "Token2022")
  <2>1. c = Read(what, key, AmountBytes)
    BY <1>4
  <2>2. m \in DOMAIN v.mints
    BY <1>4, FourViewIs, SMT
  <2>3. v.mints[m].program = "Token2022"
    <3>1. v.mints[m].program = FourProgram(m)
      BY <2>2, FourMintRow, SMT
    <3>2. QED BY <3>1, FourKeys, SMT DEF FourProgram
  <2>4. key = AtaIn(v, w, m)
    BY <2>3, SMT DEF AtaIn, DeriveAta
  <2>5. FourHeld(m, n)[w] = k /\ w \in Wallets /\ n \in Nat
    BY <1>4, FourKeys
  <2> HIDE DEF c, m, key
  <2>6. Reported(what, [amount |-> FourHeld(m, n)[w]])
    BY <2>1, <2>2, <2>4, <2>5, FourAmountShown DEF c
  <2>7. QED BY <2>5, <2>6
<1>5. ASSUME n = 11
      PROVE  Reported("sender", [amount |-> 900000])
  <2> DEFINE k == 900000
  <2>1. c = Read("sender", DeriveAta(Payer, mint22, "Token2022"), AmountBytes)
    BY <1>5, FourCalls, SMT DEF TokenAmount, Source
  <2>2. FourHeld(mint22, n)[Payer] = k
    BY <1>5, FourKeys, FourHeldIs, SMT
  <2> HIDE DEF c, k
  <2>3. Reported("sender", [amount |-> k])
    BY <1>4, <1>5, <2>1, <2>2
  <2>4. QED BY <2>3, SMT DEF k
<1>6. ASSUME n = 12
      PROVE  Reported("receiver", [amount |-> 95000])
  <2> DEFINE k == 95000
  <2>1. c = Read("receiver", DeriveAta(Recipient, mint22, "Token2022"), AmountBytes)
    BY <1>6, FourCalls, SMT DEF TokenAmount, Dest
  <2>2. FourHeld(mint22, n)[Recipient] = k
    BY <1>6, FourKeys, FourHeldIs, SMT
  <2> HIDE DEF c, k
  <2>3. Reported("receiver", [amount |-> k])
    BY <1>4, <1>6, <2>1, <2>2
  <2>4. QED BY <2>3, SMT DEF k
<1>7. QED BY <1>1, <1>2, <1>3, <1>5, <1>6, SMT

\* An amount main has read.
BlankShown ==
  /\ "blank" \in DOMAIN report /\ report["blank"] \in Nat
  /\ report["blank"] >= MinimumBalance(0) + 1000000

LEMMA FourShownNext ==
  ASSUME NEW n \in 0 .. 12, Fits(ledger, FourView(n)), FourShown(n), Made(FourScript[n + 1])
  PROVE  FourShown(n + 1)'
<1> DEFINE r1 == [amount |-> 1000000]
           s1 == [amount |-> 900000]
           t1 == [amount |-> 95000]
           least == MinimumBalance(0) + 1000000
<1>1. /\ n >= 3  => BlankShown
      /\ n >= 7  => Shown("ata", r1)
      /\ n >= 12 => Shown("sender", s1)
      /\ n >= 13 => Shown("receiver", t1)
  BY SMT DEF FourShown, BlankShown
<1>2. /\ n \notin {2, 6, 11, 12} => UNCHANGED report
      /\ n = 2  => \E b \in Nat : /\ Reported("blank", b)
                                  /\ b >= least
      /\ n = 6  => Reported("ata", r1)
      /\ n = 11 => Reported("sender", s1)
      /\ n = 12 => Reported("receiver", t1)
  BY FourPrints, SMT
<1> HIDE DEF r1, s1, t1, least
<1>3. \A what, x : Reported(what, x) /\ what # "blank" /\ BlankShown => BlankShown'
  <2> SUFFICES ASSUME NEW what, NEW x, Reported(what, x), what # "blank", BlankShown
               PROVE  BlankShown'
    OBVIOUS
  <2>1. "blank" \in DOMAIN report
    BY SMT DEF BlankShown
  <2>2. Shown("blank", report["blank"])
    BY <2>1 DEF Shown
  <2>3. PICK b : b = report["blank"]
    OBVIOUS
  <2>4. Shown("blank", b)'
    BY <2>2, <2>3, PrintedIs
  <2>5. "blank" \in DOMAIN report' /\ report'["blank"] = b
    BY <2>4 DEF Shown
  <2>6. QED BY <2>3, <2>5, SMT DEF BlankShown
<1>4. /\ n + 1 >= 3  => BlankShown'
      /\ n + 1 >= 7  => Shown("ata", r1)'
      /\ n + 1 >= 12 => Shown("sender", s1)'
      /\ n + 1 >= 13 => Shown("receiver", t1)'
  <2>1. CASE n \notin {2, 6, 11, 12}
    <3>1. report' = report
      BY <1>2, <2>1
    <3>2. /\ n + 1 >= 3 => n >= 3
          /\ n + 1 >= 7 => n >= 7
          /\ ~(n + 1 >= 12)
      BY <2>1
    <3>3. BlankShown => BlankShown'
      BY <3>1, SMT DEF BlankShown
    <3>4. \A w, x : Shown(w, x) => Shown(w, x)'
      BY <3>1 DEF Shown
    <3>5. QED BY <1>1, <3>2, <3>3, <3>4
  <2>2. CASE n = 2
    <3>1. PICK b \in Nat : Reported("blank", b) /\ b >= least
      BY <1>2, <2>2
    <3>2. "blank" \in DOMAIN report' /\ report'["blank"] = b
      BY <3>1, PrintedIs
    <3>3. BlankShown'
      BY <3>1, <3>2, SMT DEF BlankShown, least
    <3>4. QED BY <2>2, <3>3
  <2>3. CASE n = 6
    <3>1. /\ Reported("ata", r1) /\ BlankShown
      BY <1>1, <1>2, <2>3
    <3>2. Shown("ata", r1)' /\ BlankShown'
      BY <1>3, <3>1, PrintedIs
    <3>3. QED BY <2>3, <3>2
  <2>4. CASE n = 11
    <3>1. /\ Reported("sender", s1) /\ BlankShown /\ Shown("ata", r1)
      BY <1>1, <1>2, <2>4
    <3>2. Shown("sender", s1)' /\ BlankShown'
      BY <1>3, <3>1, PrintedIs
    <3>3. \A y, z : y # "sender" /\ Shown(y, z) => Shown(y, z)'
      BY <3>1, PrintedIs
    <3>4. Shown("ata", r1)'
      BY <3>1, <3>3
    <3>5. QED BY <2>4, <3>2, <3>4
  <2>5. CASE n = 12
    <3>1. /\ Reported("receiver", t1) /\ BlankShown /\ Shown("ata", r1)
          /\ Shown("sender", s1)
      BY <1>1, <1>2, <2>5
    <3>2. Shown("receiver", t1)' /\ BlankShown'
      BY <1>3, <3>1, PrintedIs
    <3>3. \A y, z : y # "receiver" /\ Shown(y, z) => Shown(y, z)'
      BY <3>1, PrintedIs
    <3>4. Shown("ata", r1)' /\ Shown("sender", s1)'
      BY <3>1, <3>3
    <3>5. QED BY <2>5, <3>2, <3>4
  <2>6. QED BY <2>1, <2>2, <2>3, <2>4, <2>5
<1>5. QED BY <1>4, SMT DEF FourShown, BlankShown, r1, s1, t1

LEMMA FourShownStays ==
  ASSUME NEW n, FourShown(n), UNCHANGED report
  PROVE  FourShown(n)'
BY SMT DEF FourShown, Shown

LEMMA FourInvIs ==
  /\ FourInv <=> Stands(FourScript, FourViews, FourMade) /\ FourShown(FourMade)
  /\ FourInv' <=> Stands(FourScript, FourViews, FourMade)' /\ FourShown(FourMade)'
<1>1. Len(FourScript) = 13
  BY FourCalls, SMT
<1>2. \A n \in Nat : FourViews[n] = FourView(n)
  BY DEF FourViews
<1>3. FourMade \in 0 .. 13 => FourViews[FourMade] = FourView(FourMade)
                              /\ FourViews[FourMade + 1] = FourView(FourMade + 1)
  BY <1>2
<1>4. FourMade' \in 0 .. 13 => FourViews[FourMade'] = FourView(FourMade')
                               /\ FourViews[FourMade' + 1] = FourView(FourMade' + 1)
  BY <1>2
<1>5. FourInv <=> Stands(FourScript, FourViews, FourMade) /\ FourShown(FourMade)
  BY <1>1, <1>3, SMT DEF FourInv, Stands
<1>6. FourInv' <=> Stands(FourScript, FourViews, FourMade)' /\ FourShown(FourMade)'
  BY <1>1, <1>4, SMT DEF FourInv, Stands
<1>7. QED BY <1>5, <1>6

LEMMA FourInitially == FourInit => FourInv
<1> SUFFICES ASSUME FourInit
             PROVE  FourInv
  OBVIOUS
<1>1. PICK S : FourScript \in Seq(S)
  BY FourScriptIsSeq
<1>2. Len(FourScript) = 13 /\ todo = FourScript
  BY FourCalls, SMT DEF FourInit
<1>3. FourMade = 0
  BY <1>2 DEF FourMade
<1>4. SubSeq(FourScript, 0 + 1, Len(FourScript)) = FourScript
  BY <1>1, WholeSubSeq
<1>5. Fits(ledger, FourView(0))
  <2>1. ledger.accts = [a \in {} |-> a] /\ ledger.err = "none"
    BY DEF FourInit, ClientInit, EmptyLedger
  <2>2. FourView(0).plain = {} /\ DOMAIN FourView(0).mints = {} /\ FourView(0).open = {}
    BY FourViewIs, SMT
  <2>3. QED BY <2>1, <2>2 DEF Fits
<1>6. FourShown(0)
  BY SMT DEF FourShown
<1>7. outcome = "running" /\ FailsOnlyOnForeignAta
  BY DEF FourInit, ClientInit, FailsOnlyOnForeignAta
<1>8. QED BY <1>2, <1>3, <1>4, <1>5, <1>6, <1>7, SMT DEF FourInv

LEMMA FourStep == FourInv /\ [Next]_vars => FourInv'
<1> SUFFICES ASSUME FourInv, [Next]_vars
             PROVE  FourInv'
  OBVIOUS
<1> DEFINE s == FourScript
           V == FourViews
<1>1. PICK S : s \in Seq(S)
  BY FourScriptIsSeq
<1>2. Len(s) = 13
  BY FourCalls, SMT
<1>3. PICK n : n = FourMade
  OBVIOUS
<1>4. Stands(s, V, n) /\ FourShown(n)
  BY <1>3, FourInvIs
<1>5. n \in 0 .. Len(s)
  BY <1>4 DEF Stands
<1>6. \A i \in 1 .. Len(s) : Leads(s[i], V[i - 1], V[i])
  BY <1>2, FourLeads
<1>7. \A i \in Nat : Sane(V[i]) /\ V[i] = FourView(i)
  BY FourViewSane DEF FourViews
<1>8. FourMade' = Len(s) - Len(todo')
  BY DEF FourMade
<1>9. ASSUME NEW k \in 0 .. Len(s), Stands(s, V, k)'
      PROVE  FourMade' = k
  <2>1. todo' = SubSeq(s, k + 1, Len(s))
    BY <1>9 DEF Stands
  <2> HIDE DEF s, V
  <2>2. Len(todo') = Len(s) - k
    BY <1>1, <2>1, Position
  <2>3. QED BY <1>2, <1>8, <2>2
<1> HIDE DEF s, V
<1>10. CASE SendSucceeds \/ SimulationEnds \/ ReadBytes \/ ReadBalance
  <2>1. /\ n < Len(s) /\ n + 1 \in 0 .. Len(s)
        /\ Stands(s, V, n + 1)' /\ Fits(ledger, V[n]) /\ Made(s[n + 1])
    BY <1>1, <1>4, <1>5, <1>6, <1>10, CallMade
  <2>2. n \in 0 .. 12 /\ V[n] = FourView(n)
    BY <1>2, <1>5, <1>7, <2>1
  <2>3. PICK k : k = n + 1
    OBVIOUS
  <2>4. FourShown(k)' /\ Stands(s, V, k)'
    BY <1>4, <2>1, <2>2, <2>3, FourShownNext DEF s
  <2>5. FourMade' = k
    BY <1>9, <2>1, <2>3, <2>4
  <2>6. QED BY <2>4, <2>5, FourInvIs DEF s, V
<1>11. CASE SendFails \/ RpcFails \/ OthersAct \/ UNCHANGED vars
  <2>1. Stands(s, V, n)' /\ UNCHANGED <<todo, report>> /\ Keeps(ledger, ledger')
    BY <1>1, <1>4, <1>5, <1>6, <1>7, <1>11, MainWaits
  <2>2. FourMade' = n
    BY <1>5, <1>9, <2>1
  <2>3. FourShown(n)'
    BY <1>4, <2>1, FourShownStays
  <2>4. QED BY <2>1, <2>2, <2>3, FourInvIs DEF s, V
<1>12. QED BY <1>10, <1>11 DEF Next, ClientStep

-----------------------------------------------------------------------------
(* The theorems about exercise 03. *)

\* Whatever others do between two calls and whichever call fails, the ledger is
\* what main believes after the calls it made, and what it printed came of them.
THEOREM FourInvariant == FourSpec => []FourInv
<1>1. QED BY FourInitially, FourStep, PTL DEF FourSpec

LEMMA FourSomeView ==
  ASSUME FourInv
  PROVE  \E n \in Nat : /\ Fits(ledger, FourView(n)) /\ Sane(FourView(n))
                        /\ Bounded(FourView(n)) /\ n >= FourMade
<1>1. Len(FourScript) = 13
  BY FourCalls, SMT
<1>2. FourMade \in Nat /\ FourMade + 1 \in Nat
  BY <1>1, SMT DEF FourInv
<1>3. Fits(ledger, FourView(FourMade)) \/ Fits(ledger, FourView(FourMade + 1))
  BY SMT DEF FourInv
<1>4. PICK n \in Nat : Fits(ledger, FourView(n)) /\ n >= FourMade
  BY <1>2, <1>3
<1>5. QED BY <1>4, FourViewSane, FourBounded

\* The ledger of exercise 03 is well typed; no amount leaves a u64.
THEOREM FourTypeOK == FourSpec => []TypeOK
<1>1. FourInv => TypeOK
  <2> SUFFICES ASSUME FourInv
               PROVE  TypeOK
    OBVIOUS
  <2>1. PICK n \in Nat :
          Fits(ledger, FourView(n)) /\ Sane(FourView(n)) /\ Bounded(FourView(n))
    BY FourSomeView
  <2>2. outcome \in {"running", "failed", "rpc_error"}
    BY SMT DEF FourInv
  <2>3. QED BY <2>1, <2>2, FitsTyped
<1>2. QED BY <1>1, FourInvariant, PTL

\* Both mints of exercise 03 have the authority and the fee main asked for,
\* although anybody may initialize what is not initialized yet.
THEOREM FourMintsAreAsAsked == FourSpec => []MintsAreAsAsked
<1>1. FourInv => MintsAreAsAsked
  <2> SUFFICES ASSUME FourInv, NEW m \in {splMint, mint22}, IsA(ledger, "mint", m)
               PROVE  /\ ledger.accts[m].data.authority = Payer
                      /\ ledger.accts[m].data.fee =
                           IF m = mint22 THEN Fee22 ELSE NoFee
    BY SMT DEF MintsAreAsAsked, Fee22
  <2>1. PICK n \in Nat : Fits(ledger, FourView(n)) /\ Sane(FourView(n))
    BY FourSomeView
  <2>2. m \in DOMAIN FourView(n).mints /\ ledger.accts[m].data = FourView(n).mints[m].data
    BY <2>1, MintsKnown
  <2>3. /\ FourView(n).mints[m].data.authority = Payer
        /\ FourView(n).mints[m].data.fee = FourFee(m)
    BY <2>2, FourMintRow, SMT
  <2>4. FourFee(m) = IF m = mint22 THEN Fee22 ELSE NoFee
    BY FourKeys, SMT DEF FourFee
  <2>5. QED BY <2>2, <2>3, <2>4, SMT
<1>2. QED BY <1>1, FourInvariant, PTL

\* What exercise 03 prints is what it explains: the transfer, short its fee.
THEOREM FourReportIsExplained == FourSpec => []ReportIsExplained
<1>1. FourInv => ReportIsExplained
  <2> SUFFICES ASSUME FourInv, todo = <<>>
               PROVE  /\ report["blank"] >= MinimumBalance(0) + 1000000
                      /\ report["ata"].amount = 1000000
                      /\ report["sender"].amount = 900000
                      /\ report["sender"].amount + report["receiver"].amount
                           = ledger.accts[mint22].data.supply - 5000
    BY SMT DEF ReportIsExplained, Done
  <2> DEFINE a == [amount |-> 1000000]
             b == [amount |-> 900000]
             c == [amount |-> 95000]
  <2>1. Len(todo) = 0
    OBVIOUS
  <2>2. FourMade = 13
    BY <2>1, FourCalls, SMT DEF FourMade
  <2>3. FourShown(13)
    BY <2>2, SMT DEF FourInv
  <2>4. /\ report["blank"] >= MinimumBalance(0) + 1000000
        /\ Shown("ata", a) /\ Shown("sender", b) /\ Shown("receiver", c)
    BY <2>3, SMT DEF FourShown
  <2>5. a.amount = 1000000 /\ b.amount = 900000 /\ c.amount = 95000
    BY SMT
  <2> HIDE DEF a, b, c
  <2>6. /\ report["ata"].amount = a.amount /\ report["sender"].amount = b.amount
        /\ report["receiver"].amount = c.amount
    BY <2>4, SMT DEF Shown
  <2>7. ledger.accts[mint22].data.supply = 1000000
    <3>1. PICK n \in Nat : /\ Fits(ledger, FourView(n)) /\ Sane(FourView(n))
                           /\ n >= FourMade
      BY FourSomeView
    <3>2. n >= 13
      BY <2>2, <3>1, SMT
    <3>3. mint22 \in DOMAIN FourView(n).mints
      BY <3>2, FourViewIs, SMT
    <3>4. ledger.accts[mint22].data = FourView(n).mints[mint22].data
      BY <3>1, <3>3, MintsThere
    <3>5. FourView(n).mints[mint22].data.supply = FourSupply(mint22, n)
      BY <3>3, FourMintRow, SMT
    <3>6. FourSupply(mint22, n) = 1000000
      BY <3>2, FourKeys, SMT DEF FourSupply
    <3>7. QED BY <3>4, <3>5, <3>6, SMT
  <2>8. QED BY <2>4, <2>5, <2>6, <2>7, SMT
<1>2. QED BY <1>1, FourInvariant, PTL

\* main of exercise 03 fails only where somebody else paid for its account.
THEOREM FourFailsOnlyOnForeignAta == FourSpec => []FailsOnlyOnForeignAta
<1>1. FourInv => FailsOnlyOnForeignAta
  BY SMT DEF FourInv
<1>2. QED BY <1>1, FourInvariant, PTL

=============================================================================
