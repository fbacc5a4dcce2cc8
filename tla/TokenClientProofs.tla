------------------------- MODULE TokenClientProofs -------------------------
(***************************************************************************)
(* Lemmas about TokenClient that do not depend on a script: what a ledger  *)
(* that fits a view of main contains, what each instruction makes of it,   *)
(* and that nobody else's instruction takes it out of the view.            *)
(***************************************************************************)
EXTENDS TokenClient, SequenceTheorems, TLAPS

\* A view that main can have: keys are not shared, everything is in its
\* range, only opened accounts hold tokens, and others hold no tokens and no
\* authority.
SaneRow(v, m) ==
  LET r == v.mints[m]
  IN  /\ r.program \in TokenPrograms
      /\ r.data.kind = "mint" /\ r.data.authority \in Wallets \ Others
      /\ r.data = [kind |-> r.data.kind, authority |-> r.data.authority,
                   decimals |-> r.data.decimals,
                   is_initialized |-> r.data.is_initialized,
                   supply |-> r.data.supply, fee |-> r.data.fee]
      /\ r.data.supply \in Nat
      /\ r.data.fee.bps \in Nat /\ r.data.fee.max \in Nat
      /\ r.cap \in Nat /\ r.held \in [Wallets -> Nat]
      /\ \A w \in Wallets : r.held[w] # 0 => <<w, m>> \in v.open
      /\ \A o \in Others : r.held[o] = 0

Sane(v) ==
  /\ v.floor \in Nat
  /\ v.plain \subseteq NewKeys \ DOMAIN v.mints
  /\ DOMAIN v.mints \subseteq NewKeys
  /\ v.open \subseteq Wallets \X DOMAIN v.mints
  /\ \A m \in DOMAIN v.mints : SaneRow(v, m)

-----------------------------------------------------------------------------
(* What is at an address. *)

\* Associated addresses are nobody's key, and determine their seeds.
LEMMA AtaSeedsUnique ==
  ASSUME NEW w \in Wallets, NEW m \in NewKeys, NEW p \in TokenPrograms
  PROVE  /\ Ata[w][m][p] \notin NewKeys
         /\ \A w2 \in Wallets, m2 \in NewKeys, p2 \in TokenPrograms :
              Ata[w][m][p] = Ata[w2][m2][p2] => w = w2 /\ m = m2 /\ p = p2
<1> DEFINE s == <<w, m, p>>
<1>1. s \in AtaSeeds
  BY DEF AtaSeeds
<1>2. Ata[w][m][p] \notin NewKeys
  BY <1>1, AtaAssumption
<1>3. ASSUME NEW w2 \in Wallets, NEW m2 \in NewKeys, NEW p2 \in TokenPrograms,
             Ata[w][m][p] = Ata[w2][m2][p2]
      PROVE  w = w2 /\ m = m2 /\ p = p2
  <2> DEFINE t == <<w2, m2, p2>>
  <2>1. t \in AtaSeeds
    BY DEF AtaSeeds
  <2>2. s = t
    BY <1>1, <2>1, <1>3, AtaAssumption
  <2>3. QED BY <2>2
<1>4. QED BY <1>2, <1>3

\* The fields of a token account.
Fields(m, w, n, h) ==
  [kind |-> "account", mint |-> m, owner |-> w, amount |-> n,
   state |-> "Initialized", withheld |-> h]

LEMMA HoldingIs ==
  ASSUME NEW m, NEW w, NEW n, NEW h
  PROVE  Holding(m, w, n, h) = Fields(m, w, n, h)
<1> DEFINE t == TokenAccount(m, w)
           u == [t EXCEPT !.amount = n]
<1>1. t = Fields(m, w, 0, 0)
  BY DEF TokenAccount, Fields
<1>2. u = Fields(m, w, n, 0)
  <2> HIDE DEF t
  <2>1. QED BY <1>1 DEF Fields
<1>3. [t EXCEPT !.amount = n, !.withheld = h] = [u EXCEPT !.withheld = h]
  <2> HIDE DEF t
  <2>1. QED OBVIOUS
<1>4. [u EXCEPT !.withheld = h] = Fields(m, w, n, h)
  <2> HIDE DEF u
  <2>1. QED BY <1>2 DEF Fields
<1>5. QED BY <1>3, <1>4, Zenon DEF Holding

\* Each kind of account is where the view has it.
LEMMA Kinds ==
  ASSUME NEW l, NEW v, Fits(l, v), Sane(v), NEW a \in DOMAIN l.accts
  PROVE  /\ IsPlain(v, a, l.accts[a]) =>
              a \in v.plain /\ a \in NewKeys /\ l.accts[a].data.kind = "raw"
              /\ l.accts[a].program = "System"
         /\ IsMint(v, a, l.accts[a]) =>
              a \in DOMAIN v.mints /\ a \in NewKeys /\ l.accts[a].data.kind = "mint"
         /\ IsHolding(v, a, l.accts[a]) =>
              a \notin NewKeys /\ l.accts[a].data.kind = "account"
         /\ IsPlain(v, a, l.accts[a]) \/ IsMint(v, a, l.accts[a])
              \/ IsHolding(v, a, l.accts[a])
<1>1. IsPlain(v, a, l.accts[a]) =>
        a \in v.plain /\ a \in NewKeys /\ l.accts[a].data.kind = "raw"
        /\ l.accts[a].program = "System"
  BY DEF IsPlain, Raw, Sane
<1>2. IsMint(v, a, l.accts[a]) =>
        a \in DOMAIN v.mints /\ a \in NewKeys /\ l.accts[a].data.kind = "mint"
  BY DEF IsMint, Sane, SaneRow
<1>3. ASSUME IsHolding(v, a, l.accts[a])
      PROVE  a \notin NewKeys /\ l.accts[a].data.kind = "account"
  <2>1. PICK m \in DOMAIN v.mints, w \in Wallets :
          /\ a = AtaIn(v, w, m)
          /\ l.accts[a].data = Holding(m, w, v.mints[m].held[w], l.accts[a].data.withheld)
    BY <1>3 DEF IsHolding
  <2>2. m \in NewKeys /\ v.mints[m].program \in TokenPrograms
    BY DEF Sane, SaneRow
  <2>3. a \notin NewKeys
    <3> DEFINE p == v.mints[m].program
    <3>1. a = Ata[w][m][p]
      BY <2>1 DEF AtaIn
    <3>2. p \in TokenPrograms
      BY <2>2
    <3> HIDE DEF p
    <3>3. QED BY <3>1, <3>2, <2>2, AtaSeedsUnique
  <2>4. l.accts[a].data.kind = "account"
    BY <2>1 DEF Holding, TokenAccount
  <2>5. QED BY <2>3, <2>4
<1>4. QED BY <1>1, <1>2, <1>3 DEF Fits

\* So a mint is one of main's, with the fields main gave it.
LEMMA MintsKnown ==
  ASSUME NEW l, NEW v, Fits(l, v), Sane(v), NEW m, IsA(l, "mint", m)
  PROVE  /\ m \in DOMAIN v.mints /\ m \in NewKeys
         /\ l.accts[m].data = v.mints[m].data
         /\ l.accts[m].program = v.mints[m].program
<1>1. m \in DOMAIN l.accts /\ l.accts[m].data.kind = "mint"
  BY DEF IsA, Exists
<1>2. IsMint(v, m, l.accts[m])
  BY <1>1, Kinds
<1>3. QED BY <1>1, <1>2, Kinds DEF IsMint

\* And it is there.
LEMMA MintsThere ==
  ASSUME NEW l, NEW v, Fits(l, v), Sane(v), NEW m \in DOMAIN v.mints
  PROVE  /\ m \in DOMAIN l.accts /\ m \in NewKeys /\ IsA(l, "mint", m)
         /\ l.accts[m].data = v.mints[m].data
         /\ l.accts[m].program = v.mints[m].program
<1>1. m \in DOMAIN l.accts /\ m \in NewKeys /\ m \notin v.plain
  BY DEF Fits, Sane
<1>2. IsMint(v, m, l.accts[m])
  BY <1>1, Kinds
<1>3. QED BY <1>1, <1>2, Kinds DEF IsMint, IsA, Exists

\* An account without contents is the System account main made.
LEMMA RawIsPlain ==
  ASSUME NEW l, NEW v, Fits(l, v), Sane(v), NEW a, IsA(l, "raw", a)
  PROVE  a \in v.plain /\ l.accts[a].program = "System"
<1>1. a \in DOMAIN l.accts /\ l.accts[a].data.kind = "raw"
  BY DEF IsA, Exists
<1>2. IsPlain(v, a, l.accts[a])
  BY <1>1, Kinds
<1>3. QED BY <1>1, <1>2, Kinds

\* A token account is the associated one of its owner and mint, and holds what
\* main believes the owner holds.
LEMMA HoldingsKnown ==
  ASSUME NEW l, NEW v, Fits(l, v), Sane(v), NEW a, IsA(l, "account", a)
  PROVE  LET d == l.accts[a].data
         IN  /\ d.mint \in DOMAIN v.mints /\ d.owner \in Wallets
             /\ a = AtaIn(v, d.owner, d.mint)
             /\ l.accts[a].program = v.mints[d.mint].program
             /\ d.withheld \in 0 .. v.mints[d.mint].cap
             /\ d.amount = v.mints[d.mint].held[d.owner]
             /\ d = Holding(d.mint, d.owner, d.amount, d.withheld)
<1>1. a \in DOMAIN l.accts /\ l.accts[a].data.kind = "account"
  BY DEF IsA, Exists
<1>2. IsHolding(v, a, l.accts[a])
  BY <1>1, Kinds
<1>3. PICK m \in DOMAIN v.mints, w \in Wallets :
        /\ a = AtaIn(v, w, m)
        /\ l.accts[a].program = v.mints[m].program
        /\ l.accts[a].data.withheld \in 0 .. v.mints[m].cap
        /\ l.accts[a].data = Holding(m, w, v.mints[m].held[w], l.accts[a].data.withheld)
  BY <1>2 DEF IsHolding
<1>4. /\ l.accts[a].data.mint = m /\ l.accts[a].data.owner = w
      /\ l.accts[a].data.amount = v.mints[m].held[w]
  BY <1>3 DEF Holding, TokenAccount
<1>5. QED BY <1>3, <1>4

\* The account of a wallet for one of main's mints.
LEMMA HoldingOf ==
  ASSUME NEW l, NEW v, Fits(l, v), Sane(v),
         NEW m \in DOMAIN v.mints, NEW w \in Wallets,
         AtaIn(v, w, m) \in DOMAIN l.accts
  PROVE  LET x == l.accts[AtaIn(v, w, m)]
         IN  /\ IsA(l, "account", AtaIn(v, w, m)) /\ x.program = v.mints[m].program
             /\ x.data.withheld \in 0 .. v.mints[m].cap
             /\ x.data = Holding(m, w, v.mints[m].held[w], x.data.withheld)
             /\ x.data.mint = m /\ x.data.owner = w
             /\ x.data.amount = v.mints[m].held[w]
<1> DEFINE a == AtaIn(v, w, m)
           x == l.accts[a]
           p == v.mints[m].program
<1>1. m \in NewKeys /\ p \in TokenPrograms
  BY DEF Sane, SaneRow
<1>2. a = Ata[w][m][p]
  BY DEF AtaIn
<1>3. a \notin NewKeys
  <2> HIDE DEF p, a
  <2>1. QED BY <1>1, <1>2, AtaSeedsUnique
<1>4. IsHolding(v, a, x)
  BY <1>3, Kinds
<1>5. PICK m2 \in DOMAIN v.mints, w2 \in Wallets :
        /\ a = AtaIn(v, w2, m2)
        /\ x.program = v.mints[m2].program
        /\ x.data.withheld \in 0 .. v.mints[m2].cap
        /\ x.data = Holding(m2, w2, v.mints[m2].held[w2], x.data.withheld)
  BY <1>4 DEF IsHolding
<1>6. m2 = m /\ w2 = w
  <2> DEFINE p2 == v.mints[m2].program
  <2>1. m2 \in NewKeys /\ p2 \in TokenPrograms /\ a = Ata[w2][m2][p2]
    BY <1>5 DEF Sane, SaneRow, AtaIn
  <2>2. Ata[w][m][p] = Ata[w2][m2][p2]
    BY <1>2, <2>1
  <2> HIDE DEF p, p2, a
  <2>3. \A w3 \in Wallets, m3 \in NewKeys, p3 \in TokenPrograms :
          Ata[w][m][p] = Ata[w3][m3][p3] => w = w3 /\ m = m3 /\ p = p3
    BY <1>1, AtaSeedsUnique
  <2>4. QED BY <2>1, <2>2, <2>3
<1>7. /\ x.data.mint = m /\ x.data.owner = w
      /\ x.data.amount = v.mints[m].held[w] /\ x.data.kind = "account"
  BY <1>5, <1>6 DEF Holding, TokenAccount
<1>8. IsA(l, "account", a)
  BY <1>7 DEF IsA, Exists
<1>9. QED BY <1>5, <1>6, <1>7, <1>8

-----------------------------------------------------------------------------
(* What the instructions make of a ledger. *)

\* Which operator an instruction runs.
LEMMA ExecuteIs ==
  ASSUME NEW l, NEW ix, l.err = "none"
  PROVE  /\ ix.op = "createAccount"   => Execute(l, ix) = CreateAccount(l, ix)
         /\ ix.op = "transfer"        => Execute(l, ix) = SolTransfer(l, ix)
         /\ ix.op = "initFee"         => Execute(l, ix) = InitializeTransferFeeConfig(l, ix)
         /\ ix.op = "initializeMint2" => Execute(l, ix) = InitializeMint2(l, ix)
         /\ ix.op = "createAta"       => Execute(l, ix) = CreateAta(l, ix)
         /\ ix.op = "mintTo"          => Execute(l, ix) = MintTo(l, ix)
         /\ ix.op = "transferChecked" => Execute(l, ix) = TransferChecked(l, ix)
         /\ ix.op = "harvest"         => Execute(l, ix) = HarvestWithheld(l, ix)
BY DEF Execute

\* The first error stays.
LEMMA ErrorStays ==
  ASSUME NEW l, NEW ix, l.err # "none"
  PROVE  Execute(l, ix) = l
BY DEF Execute

LEMMA StoredAt ==
  ASSUME NEW l, NEW a, NEW p, NEW space, NEW lamports, NEW d
  PROVE  LET r == Stored(l, a, p, space, lamports, d)
         IN  /\ r.err = l.err
             /\ DOMAIN r.accts = DOMAIN l.accts \cup {a}
             /\ r.accts[a] = [program |-> p, space |-> space,
                              lamports |-> lamports, data |-> d]
             /\ \A b \in DOMAIN l.accts : b # a => r.accts[b] = l.accts[b]
BY DEF Stored, With

LEMMA RewrittenAt ==
  ASSUME NEW l, NEW a \in DOMAIN l.accts, NEW d
  PROVE  LET r == Rewritten(l, a, d)
         IN  /\ r.err = l.err
             /\ DOMAIN r.accts = DOMAIN l.accts
             /\ r.accts[a] = [program |-> l.accts[a].program,
                              space |-> l.accts[a].space,
                              lamports |-> l.accts[a].lamports, data |-> d]
             /\ \A b \in DOMAIN l.accts : b # a => r.accts[b] = l.accts[b]
<1> DEFINE x == l.accts[a]
           r == Stored(l, a, x.program, x.space, x.lamports, d)
<1>1. Rewritten(l, a, d) = r
  BY DEF Rewritten
<1>2. DOMAIN l.accts \cup {a} = DOMAIN l.accts
  OBVIOUS
<1>3. /\ r.err = l.err /\ DOMAIN r.accts = DOMAIN l.accts \cup {a}
      /\ r.accts[a] = [program |-> x.program, space |-> x.space,
                       lamports |-> x.lamports, data |-> d]
      /\ \A b \in DOMAIN l.accts : b # a => r.accts[b] = l.accts[b]
  BY StoredAt
<1> HIDE DEF r
<1>4. QED BY <1>1, <1>2, <1>3

\* An account x at a that the view explains.
Explained(v, a, x) == IsPlain(v, a, x) \/ IsMint(v, a, x) \/ IsHolding(v, a, x)

\* A view explains what another one did, when it only adds to it.
LEMMA StillExplained ==
  ASSUME NEW v, NEW v2, NEW a, NEW x, Explained(v, a, x),
         Sane(v), v2.floor \in Nat,
         v.plain \subseteq v2.plain, v2.floor <= v.floor,
         DOMAIN v.mints \subseteq DOMAIN v2.mints,
         \A m \in DOMAIN v.mints : v2.mints[m] = v.mints[m]
  PROVE  Explained(v2, a, x)
<1>1. CASE IsPlain(v, a, x)
  BY <1>1 DEF Explained, IsPlain, Sane
<1>2. CASE IsMint(v, a, x)
  BY <1>2 DEF Explained, IsMint
<1>3. CASE IsHolding(v, a, x)
  <2>1. PICK m \in DOMAIN v.mints, w \in Wallets :
          /\ a = AtaIn(v, w, m)
          /\ x.program = v.mints[m].program
          /\ x.data.withheld \in 0 .. v.mints[m].cap
          /\ x.data = Holding(m, w, v.mints[m].held[w], x.data.withheld)
    BY <1>3 DEF IsHolding
  <2>2. v2.mints[m] = v.mints[m] /\ m \in DOMAIN v2.mints
    BY <2>1
  <2>3. IsHolding(v2, a, x)
    BY <2>1, <2>2 DEF IsHolding, AtaIn
  <2>4. QED BY <2>3 DEF Explained
<1>4. QED BY <1>1, <1>2, <1>3 DEF Explained

\* One account is written, and the view may change with it.
LEMMA StoredFits ==
  ASSUME NEW l, NEW v, Fits(l, v), NEW v2,
         NEW a, NEW p, NEW space, NEW lamports, NEW d,
         Explained(v2, a, [program |-> p, space |-> space,
                           lamports |-> lamports, data |-> d]),
         \A b \in DOMAIN l.accts : b # a => Explained(v2, b, l.accts[b]),
         v2.plain \cup DOMAIN v2.mints \subseteq DOMAIN l.accts \cup {a},
         \A e \in v2.open : AtaIn(v2, e[1], e[2]) \in DOMAIN l.accts \cup {a}
  PROVE  LET r == Stored(l, a, p, space, lamports, d)
         IN  Fits(r, v2) /\ DOMAIN r.accts = DOMAIN l.accts \cup {a}
<1> DEFINE r == Stored(l, a, p, space, lamports, d)
           x == [program |-> p, space |-> space, lamports |-> lamports, data |-> d]
<1>1. /\ r.err = "none" /\ DOMAIN r.accts = DOMAIN l.accts \cup {a}
      /\ r.accts[a] = x
      /\ \A b \in DOMAIN l.accts : b # a => r.accts[b] = l.accts[b]
  BY StoredAt DEF Fits
<1>2. Explained(v2, a, x)
  OBVIOUS
<1> HIDE DEF r, x
<1>3. \A b \in DOMAIN r.accts : Explained(v2, b, r.accts[b])
  BY <1>1, <1>2
<1>4. Fits(r, v2)
  BY <1>1, <1>3 DEF Fits, Explained
<1>5. QED BY <1>1, <1>4 DEF r

\* Lamports for the System account.
LEMMA GiftFits ==
  ASSUME NEW l, NEW v, Fits(l, v), Sane(v), NEW k \in v.plain,
         NEW n \in Nat, NEW ix, ix.to = k, ix.lamports = n,
         NEW v2, v2.floor \in Nat,
         v2.plain = v.plain, v2.mints = v.mints, v2.open = v.open,
         v2.floor <= v.floor + n, v2.floor = v.floor \/ v.plain = {k}
  PROVE  /\ Fits(SolTransfer(l, ix), v2)
         /\ DOMAIN SolTransfer(l, ix).accts = DOMAIN l.accts
<1> DEFINE x == l.accts[k]
           y == [program |-> x.program, space |-> x.space,
                 lamports |-> x.lamports + n, data |-> x.data]
<1>1. k \in DOMAIN l.accts /\ k \in NewKeys /\ k \notin DOMAIN v.mints
  BY DEF Fits, Sane
<1>2. IsPlain(v, k, x)
  BY <1>1, Kinds
<1>3. Explained(v2, k, y)
  BY <1>2 DEF IsPlain, Explained, Sane
<1>4. ASSUME NEW a \in DOMAIN l.accts, a # k
      PROVE  Explained(v2, a, l.accts[a])
  <2>1. IsPlain(v, a, l.accts[a]) => IsPlain(v2, a, l.accts[a])
    BY <1>4 DEF IsPlain
  <2>2. IsMint(v, a, l.accts[a]) => IsMint(v2, a, l.accts[a])
    BY DEF IsMint
  <2>3. IsHolding(v, a, l.accts[a]) => IsHolding(v2, a, l.accts[a])
    BY DEF IsHolding, AtaIn
  <2>4. QED BY <2>1, <2>2, <2>3, Kinds DEF Explained
<1>5. \A e \in v2.open : AtaIn(v2, e[1], e[2]) \in DOMAIN l.accts \cup {k}
  BY DEF Fits, AtaIn
<1>6. v2.plain \cup DOMAIN v2.mints \subseteq DOMAIN l.accts \cup {k}
  BY DEF Fits
<1>7. SolTransfer(l, ix) = Stored(l, k, x.program, x.space, x.lamports + n, x.data)
  BY DEF SolTransfer
<1>8. DOMAIN l.accts \cup {k} = DOMAIN l.accts
  BY <1>1
<1> DEFINE la == x.lamports + n
<1> HIDE DEF x, y, la
<1>9. /\ Fits(Stored(l, k, x.program, x.space, la, x.data), v2)
      /\ DOMAIN Stored(l, k, x.program, x.space, la, x.data).accts = DOMAIN l.accts \cup {k}
  BY <1>3, <1>4, <1>5, <1>6, StoredFits DEF y, la
<1>10. QED BY <1>7, <1>8, <1>9 DEF la

\* What main opened is there, also under a view with the same programs.
LEMMA OpenThere ==
  ASSUME NEW l, NEW v, Fits(l, v), Sane(v), NEW v2, v2.open = v.open,
         \A n \in DOMAIN v.mints : v2.mints[n].program = v.mints[n].program
  PROVE  \A e \in v2.open : AtaIn(v2, e[1], e[2]) \in DOMAIN l.accts
<1> SUFFICES ASSUME NEW e \in v.open
             PROVE  AtaIn(v2, e[1], e[2]) \in DOMAIN l.accts
  OBVIOUS
<1>1. e[2] \in DOMAIN v.mints
  BY DEF Sane
<1>2. v2.mints[e[2]].program = v.mints[e[2]].program
  BY <1>1
<1>3. QED BY <1>2 DEF Fits, AtaIn

\* The mint's fields are written.
MintChanged(v, v2, m) ==
  /\ v2.plain = v.plain /\ v2.floor = v.floor /\ v2.open = v.open
  /\ DOMAIN v2.mints = DOMAIN v.mints
  /\ \A n \in DOMAIN v.mints : /\ n # m => v2.mints[n] = v.mints[n]
                               /\ v2.mints[n].program = v.mints[n].program
                               /\ v2.mints[n].held = v.mints[n].held
                               /\ v2.mints[n].cap = v.mints[n].cap

LEMMA MintRewritten ==
  ASSUME NEW l, NEW v, Fits(l, v), Sane(v), NEW m \in DOMAIN v.mints, NEW v2,
         MintChanged(v, v2, m)
  PROVE  /\ Fits(Rewritten(l, m, v2.mints[m].data), v2)
         /\ DOMAIN Rewritten(l, m, v2.mints[m].data).accts = DOMAIN l.accts
<1> USE DEF MintChanged
<1> DEFINE x == l.accts[m]
           y == [program |-> x.program, space |-> x.space,
                 lamports |-> x.lamports, data |-> v2.mints[m].data]
<1>1. m \in DOMAIN l.accts /\ x.program = v.mints[m].program
  BY MintsThere
<1>2. Explained(v2, m, y)
  BY <1>1 DEF IsMint, Explained
<1>3. ASSUME NEW a \in DOMAIN l.accts, a # m
      PROVE  Explained(v2, a, l.accts[a])
  <2>1. IsPlain(v, a, l.accts[a]) => IsPlain(v2, a, l.accts[a])
    BY DEF IsPlain
  <2>2. IsMint(v, a, l.accts[a]) => IsMint(v2, a, l.accts[a])
    BY <1>3 DEF IsMint
  <2>3. ASSUME IsHolding(v, a, l.accts[a])
        PROVE  IsHolding(v2, a, l.accts[a])
    <3> DEFINE z == l.accts[a]
    <3>1. PICK m2 \in DOMAIN v.mints, w2 \in Wallets :
            /\ a = AtaIn(v, w2, m2)
            /\ z.program = v.mints[m2].program
            /\ z.data.withheld \in 0 .. v.mints[m2].cap
            /\ z.data = Holding(m2, w2, v.mints[m2].held[w2], z.data.withheld)
      BY <2>3 DEF IsHolding
    <3>2. /\ v2.mints[m2].held = v.mints[m2].held
          /\ v2.mints[m2].cap = v.mints[m2].cap
      BY <3>1
    <3>3. a = AtaIn(v2, w2, m2) /\ z.program = v2.mints[m2].program
      BY <3>1 DEF AtaIn
    <3> HIDE DEF z
    <3>4. QED BY <3>1, <3>2, <3>3 DEF IsHolding, z
  <2>4. QED BY <2>1, <2>2, <2>3, Kinds DEF Explained
<1>4. \A e \in v2.open : AtaIn(v2, e[1], e[2]) \in DOMAIN l.accts \cup {m}
  BY OpenThere
<1>5. v2.plain \cup DOMAIN v2.mints \subseteq DOMAIN l.accts \cup {m}
  BY DEF Fits
<1>6. Rewritten(l, m, v2.mints[m].data)
        = Stored(l, m, x.program, x.space, x.lamports, v2.mints[m].data)
  BY DEF Rewritten
<1>7. DOMAIN l.accts \cup {m} = DOMAIN l.accts
  BY <1>1
<1> DEFINE d == v2.mints[m].data
<1> HIDE DEF x, y, d
<1>8. /\ Fits(Stored(l, m, x.program, x.space, x.lamports, d), v2)
      /\ DOMAIN Stored(l, m, x.program, x.space, x.lamports, d).accts = DOMAIN l.accts \cup {m}
  BY <1>2, <1>3, <1>4, <1>5, StoredFits DEF y, d
<1>9. QED BY <1>6, <1>7, <1>8 DEF d

\* What a wallet holds is written.
HoldingChanged(v, v2, m, w, d) ==
  /\ v2.plain = v.plain /\ v2.floor = v.floor /\ v2.open = v.open
  /\ DOMAIN v2.mints = DOMAIN v.mints
  /\ \A n \in DOMAIN v.mints : /\ n # m => v2.mints[n] = v.mints[n]
                               /\ v2.mints[n].program = v.mints[n].program
                               /\ v2.mints[n].data = v.mints[n].data
  /\ v2.mints[m].cap \in Nat /\ v2.mints[m].cap >= v.mints[m].cap
  /\ \A w2 \in Wallets : w2 # w => v2.mints[m].held[w2] = v.mints[m].held[w2]
  /\ d.withheld \in 0 .. v2.mints[m].cap
  /\ d = Holding(m, w, v2.mints[m].held[w], d.withheld)

LEMMA HoldingRewritten ==
  ASSUME NEW l, NEW v, Fits(l, v), Sane(v),
         NEW m \in DOMAIN v.mints, NEW w \in Wallets,
         AtaIn(v, w, m) \in DOMAIN l.accts, NEW d, NEW v2,
         HoldingChanged(v, v2, m, w, d)
  PROVE  /\ Fits(Rewritten(l, AtaIn(v, w, m), d), v2)
         /\ DOMAIN Rewritten(l, AtaIn(v, w, m), d).accts = DOMAIN l.accts
<1> USE DEF HoldingChanged
<1> DEFINE k == AtaIn(v, w, m)
           x == l.accts[k]
           y == [program |-> x.program, space |-> x.space,
                 lamports |-> x.lamports, data |-> d]
<1>1. x.program = v.mints[m].program
  BY HoldingOf
<1>2. Explained(v2, k, y)
  <2>1. /\ k = AtaIn(v2, w, m) /\ m \in DOMAIN v2.mints
        /\ y.program = v2.mints[m].program /\ y.data = d
    BY <1>1 DEF AtaIn
  <2>2. IsHolding(v2, k, y)
    BY <2>1 DEF IsHolding
  <2>3. QED BY <2>2 DEF Explained
<1>3. ASSUME NEW a \in DOMAIN l.accts, a # k
      PROVE  Explained(v2, a, l.accts[a])
  <2>1. IsPlain(v, a, l.accts[a]) => IsPlain(v2, a, l.accts[a])
    BY DEF IsPlain
  <2>2. IsMint(v, a, l.accts[a]) => IsMint(v2, a, l.accts[a])
    BY DEF IsMint
  <2>3. ASSUME IsHolding(v, a, l.accts[a])
        PROVE  IsHolding(v2, a, l.accts[a])
    <3> DEFINE z == l.accts[a]
    <3>1. PICK m2 \in DOMAIN v.mints, w2 \in Wallets :
            /\ a = AtaIn(v, w2, m2)
            /\ z.program = v.mints[m2].program
            /\ z.data.withheld \in 0 .. v.mints[m2].cap
            /\ z.data = Holding(m2, w2, v.mints[m2].held[w2], z.data.withheld)
      BY <2>3 DEF IsHolding
    <3>2. m2 # m \/ w2 # w
      BY <1>3, <3>1
    <3>3. v2.mints[m2].held[w2] = v.mints[m2].held[w2]
      BY <3>2
    <3>4. z.data.withheld \in 0 .. v2.mints[m2].cap
      <4>1. CASE m2 # m
        BY <4>1, <3>1
      <4>2. CASE m2 = m
        <5>1. v.mints[m].cap \in Nat
          BY DEF Sane, SaneRow
        <5>2. QED BY <4>2, <5>1, <3>1
      <4>3. QED BY <4>1, <4>2
    <3>5. a = AtaIn(v2, w2, m2) /\ z.program = v2.mints[m2].program
      BY <3>1 DEF AtaIn
    <3> HIDE DEF z
    <3>6. QED BY <3>1, <3>3, <3>4, <3>5 DEF IsHolding, z
  <2>4. QED BY <2>1, <2>2, <2>3, Kinds DEF Explained
<1>4. \A e \in v2.open : AtaIn(v2, e[1], e[2]) \in DOMAIN l.accts \cup {k}
  BY OpenThere
<1>5. v2.plain \cup DOMAIN v2.mints \subseteq DOMAIN l.accts \cup {k}
  BY DEF Fits
<1>6. Rewritten(l, k, d) = Stored(l, k, x.program, x.space, x.lamports, d)
  BY DEF Rewritten
<1> HIDE DEF k, x, y
<1>7. DOMAIN l.accts \cup {k} = DOMAIN l.accts
  BY DEF k
<1>8. /\ Fits(Stored(l, k, x.program, x.space, x.lamports, d), v2)
      /\ DOMAIN Stored(l, k, x.program, x.space, x.lamports, d).accts = DOMAIN l.accts \cup {k}
  BY <1>2, <1>3, <1>4, <1>5, StoredFits DEF y
<1>9. QED BY <1>6, <1>7, <1>8 DEF k

\* A key that is neither the System account nor a mint is free.
LEMMA KeyFree ==
  ASSUME NEW l, NEW v, Fits(l, v), Sane(v), NEW m \in NewKeys,
         m \notin v.plain, m \notin DOMAIN v.mints
  PROVE  m \notin DOMAIN l.accts
BY Kinds

\* An account of a mint that did not exist is created, with nothing in it.
AtaMade(l, v, w, m) ==
  Stored(l, AtaIn(v, w, m), v.mints[m].program, 165, MinimumBalance(165),
         TokenAccount(m, w))

LEMMA AtaStored ==
  ASSUME NEW l, NEW v, Fits(l, v), Sane(v),
         NEW m \in DOMAIN v.mints, NEW w \in Wallets,
         AtaIn(v, w, m) \notin DOMAIN l.accts
  PROVE  /\ Fits(AtaMade(l, v, w, m), v)
         /\ DOMAIN AtaMade(l, v, w, m).accts = DOMAIN l.accts \cup {AtaIn(v, w, m)}
<1> DEFINE k == AtaIn(v, w, m)
           p == v.mints[m].program
           d == TokenAccount(m, w)
           space == 165
           lamports == MinimumBalance(165)
           x == [program |-> p, space |-> space, lamports |-> lamports, data |-> d]
<1>1. <<w, m>> \notin v.open
  BY DEF Fits
<1>2. /\ v.mints[m].held[w] = 0 /\ v.mints[m].cap \in Nat
  BY <1>1 DEF Sane, SaneRow
<1>3. d.withheld = 0 /\ d = Holding(m, w, 0, 0)
  <2>1. d = Fields(m, w, 0, 0)
    BY DEF TokenAccount, Fields
  <2>2. QED BY <2>1, HoldingIs DEF Fields
<1>4. d.withheld \in 0 .. v.mints[m].cap /\ d = Holding(m, w, v.mints[m].held[w], d.withheld)
  BY <1>2, <1>3
<1>5. AtaMade(l, v, w, m) = Stored(l, k, p, space, lamports, d)
  BY Zenon DEF AtaMade
<1> HIDE DEF d, space, lamports
<1>6. x.program = v.mints[m].program /\ x.data = d
  OBVIOUS
<1>7. IsHolding(v, k, x)
  BY <1>4, <1>6 DEF IsHolding
<1>8. Explained(v, k, x)
  BY <1>7 DEF Explained
<1>9. \A b \in DOMAIN l.accts : Explained(v, b, l.accts[b])
  BY DEF Fits, Explained
<1>10. /\ v.plain \cup DOMAIN v.mints \subseteq DOMAIN l.accts \cup {k}
       /\ \A e \in v.open : AtaIn(v, e[1], e[2]) \in DOMAIN l.accts \cup {k}
  BY DEF Fits
<1> HIDE DEF k, p
<1>11. /\ Fits(Stored(l, k, p, space, lamports, d), v)
       /\ DOMAIN Stored(l, k, p, space, lamports, d).accts = DOMAIN l.accts \cup {k}
  BY <1>8, <1>9, <1>10, StoredFits
<1>12. QED BY <1>5, <1>11 DEF k

\* Once it exists, main may count on it.
LEMMA Opened ==
  ASSUME NEW l, NEW v, Fits(l, v), Sane(v), NEW v2,
         v2.plain = v.plain, v2.floor = v.floor, v2.mints = v.mints,
         \A e \in v2.open : e \in v.open \/ AtaIn(v, e[1], e[2]) \in DOMAIN l.accts
  PROVE  Fits(l, v2)
<1>1. \A a \in DOMAIN l.accts : Explained(v2, a, l.accts[a])
  <2> SUFFICES ASSUME NEW a \in DOMAIN l.accts
               PROVE  Explained(v2, a, l.accts[a])
    OBVIOUS
  <2>1. IsPlain(v, a, l.accts[a]) => IsPlain(v2, a, l.accts[a])
    BY DEF IsPlain
  <2>2. IsMint(v, a, l.accts[a]) => IsMint(v2, a, l.accts[a])
    BY DEF IsMint
  <2>3. IsHolding(v, a, l.accts[a]) => IsHolding(v2, a, l.accts[a])
    BY DEF IsHolding, AtaIn
  <2>4. QED BY <2>1, <2>2, <2>3, Kinds DEF Explained
<1>2. \A e \in v2.open : AtaIn(v2, e[1], e[2]) \in DOMAIN l.accts
  BY DEF Fits, AtaIn
<1>3. QED BY <1>1, <1>2 DEF Fits, Explained

\* create_ata works exactly when there is such a mint and no such account.
LEMMA CreateAtaOutcome ==
  ASSUME NEW l, NEW v, Fits(l, v), Sane(v),
         NEW f, NEW w \in Wallets, NEW m \in NewKeys, NEW p \in TokenPrograms
  PROVE  LET ix == CreateAtaIx(f, w, m, p)
             r  == Execute(l, ix)
         IN  /\ r.err = "none" =>
                  /\ m \in DOMAIN v.mints /\ p = v.mints[m].program
                  /\ Fits(r, v)
                  /\ DOMAIN r.accts = DOMAIN l.accts \cup {Ata[w][m][p]}
             /\ m \in DOMAIN v.mints /\ p = v.mints[m].program
                  /\ ~Exists(l, Ata[w][m][p]) => r.err = "none"
<1> DEFINE ix == CreateAtaIx(f, w, m, p)
           r  == Execute(l, ix)
           s == Stored(l, Ata[w][m][p], p, 165, MinimumBalance(165), TokenAccount(m, w))
<1>1. /\ ix.op = "createAta" /\ ix.wallet = w /\ ix.mint = m /\ ix.program = p
      /\ ix.ata = Ata[w][m][p] /\ ix.tag = 0
  BY DEF CreateAtaIx, DeriveAta
<1> HIDE DEF ix
<1>2. r = CreateAta(l, ix)
  <2>1. l.err = "none"
    BY DEF Fits
  <2>2. QED BY <1>1, <2>1, ExecuteIs
<1>3. CASE Exists(l, Ata[w][m][p])
  <2>1. r = Failed(l, "IllegalOwner")
    BY <1>1, <1>2, <1>3 DEF CreateAta
  <2>2. r.err # "none"
    BY <2>1 DEF Failed
  <2>3. QED BY <2>2, <1>3 DEF ix
<1>4. CASE ~Exists(l, Ata[w][m][p]) /\ ~(IsA(l, "mint", m) /\ Of(l, m, p))
  <2>1. r = Failed(l, "InvalidMint")
    BY <1>1, <1>2, <1>4 DEF CreateAta
  <2>2. r.err # "none"
    BY <2>1 DEF Failed
  <2>3. ~(m \in DOMAIN v.mints /\ p = v.mints[m].program)
    BY <1>4, MintsThere DEF Of
  <2>4. QED BY <2>2, <2>3 DEF ix
<1>5. CASE ~Exists(l, Ata[w][m][p]) /\ IsA(l, "mint", m) /\ Of(l, m, p)
  <2>1. r = s
    BY <1>1, <1>2, <1>5 DEF CreateAta
  <2>2. m \in DOMAIN v.mints /\ p = v.mints[m].program
    BY <1>5, MintsKnown DEF Of
  <2>3. AtaIn(v, w, m) = Ata[w][m][p] /\ Ata[w][m][p] \notin DOMAIN l.accts
    BY <2>2, <1>5 DEF AtaIn, Exists
  <2>4. s = AtaMade(l, v, w, m)
    BY <2>2, <2>3, Zenon DEF AtaMade
  <2> HIDE DEF s
  <2>5. Fits(s, v) /\ DOMAIN s.accts = DOMAIN l.accts \cup {Ata[w][m][p]}
    BY <2>2, <2>3, <2>4, AtaStored
  <2>6. r.err = "none"
    BY <2>1, <2>5 DEF Fits
  <2>7. QED BY <2>1, <2>2, <2>5, <2>6 DEF ix
<1>6. QED BY <1>3, <1>4, <1>5

\* A mint that was created and initialized by one transaction.
LEMMA MintBorn ==
  ASSUME NEW l, NEW v, Fits(l, v), Sane(v), NEW m \in NewKeys,
         NEW l2, l2.err = "none", DOMAIN l2.accts = DOMAIN l.accts \cup {m},
         \A b \in DOMAIN l.accts : b # m => l2.accts[b] = l.accts[b],
         NEW v2, v2.floor \in Nat,
         v2.plain = v.plain, v2.floor <= v.floor, v2.open = v.open,
         DOMAIN v2.mints = DOMAIN v.mints \cup {m},
         \A n \in DOMAIN v.mints : v2.mints[n] = v.mints[n],
         IsMint(v2, m, l2.accts[m])
  PROVE  Fits(l2, v2)
<1>1. \A b \in DOMAIN l.accts : Explained(v, b, l.accts[b])
  BY DEF Fits, Explained
<1>2. \A b \in DOMAIN l.accts : Explained(v2, b, l.accts[b])
  BY <1>1, StillExplained
<1>3. \A b \in DOMAIN l2.accts : Explained(v2, b, l2.accts[b])
  BY <1>2 DEF Explained
<1>4. \A e \in v2.open : AtaIn(v2, e[1], e[2]) \in DOMAIN l.accts
  <2>1. \A n \in DOMAIN v.mints : v2.mints[n].program = v.mints[n].program
    OBVIOUS
  <2>2. QED BY <2>1, OpenThere
<1>5. QED BY <1>3, <1>4 DEF Fits, Explained

-----------------------------------------------------------------------------
(* The transactions of others. *)

LEMMA RunOne ==
  ASSUME NEW l, NEW a
  PROVE  RunTransaction(l, <<a>>) = Execute(l, a)
BY DEF RunTransaction

LEMMA RunTwo ==
  ASSUME NEW l, NEW a, NEW b
  PROVE  RunTransaction(l, <<a, b>>) = Execute(Execute(l, a), b)
BY DEF RunTransaction

LEMMA RunThree ==
  ASSUME NEW l, NEW a, NEW b, NEW c
  PROVE  RunTransaction(l, <<a, b, c>>) = Execute(Execute(Execute(l, a), b), c)
BY DEF RunTransaction

\* Nothing is waiting to be initialized: main's mints were, in the transaction
\* that made them, and its System account is no token program's.
LEMMA NothingToInitialize ==
  ASSUME NEW l, NEW v, Fits(l, v), Sane(v), NEW ix,
         \/ ix.op = "initFee"
         \/ ix.op = "initializeMint2" /\ ix.program \in TokenPrograms
  PROVE  Execute(l, ix).err # "none"
<1>1. l.err = "none"
  BY DEF Fits
<1>2. \A p \in TokenPrograms : ~(IsA(l, "raw", ix.mint) /\ Of(l, ix.mint, p))
  BY RawIsPlain DEF Of, TokenPrograms
<1>3. CASE ix.op = "initFee"
  <2>1. Execute(l, ix) = Failed(l, "InvalidAccountData")
    BY <1>1, <1>2, <1>3, ExecuteIs DEF InitializeTransferFeeConfig, TokenPrograms
  <2>2. QED BY <2>1 DEF Failed
<1>4. CASE ix.op = "initializeMint2" /\ ix.program \in TokenPrograms
  <2>1. Execute(l, ix) = Failed(l, "InvalidAccountData")
    BY <1>1, <1>2, <1>4, ExecuteIs DEF InitializeMint2
  <2>2. QED BY <2>1 DEF Failed
<1>5. QED BY <1>3, <1>4

\* Others are no mint's authority.
LEMMA NotTheirMint ==
  ASSUME NEW l, NEW v, Fits(l, v), Sane(v), NEW ix,
         ix.op = "mintTo", ix.authority \in Others
  PROVE  Execute(l, ix).err # "none"
<1>1. Execute(l, ix) = MintTo(l, ix)
  BY ExecuteIs DEF Fits
<1>2. CASE IsA(l, "mint", ix.mint)
  <2> DEFINE m == ix.mint
  <2>1. l.accts[ix.mint].data.authority # ix.authority
    <3>1. m \in DOMAIN v.mints /\ l.accts[m].data = v.mints[m].data
      BY <1>2, MintsKnown
    <3>2. v.mints[m].data.authority \in Wallets \ Others
      BY <3>1 DEF Sane, SaneRow
    <3>3. QED BY <3>1, <3>2
  <2>2. MintTo(l, ix) \in {Failed(l, "InvalidAccountData"), Failed(l, "OwnerMismatch")}
    BY <2>1 DEF MintTo
  <2>3. QED BY <1>1, <2>2 DEF Failed
<1>3. CASE ~IsA(l, "mint", ix.mint)
  <2>1. MintTo(l, ix) = Failed(l, "InvalidAccountData")
    BY <1>3 DEF MintTo
  <2>2. QED BY <1>1, <2>1 DEF Failed
<1>4. QED BY <1>2, <1>3

\* The fee of a transfer of nothing is nothing.
LEMMA NoFeeOfNothing ==
  ASSUME NEW fee, fee.bps \in Nat, fee.max \in Nat
  PROVE  FeeOf(fee, 0) = 0
BY DEF FeeOf

\* Withheld fees may be taken out; main does not count on them.
LEMMA HarvestFits ==
  ASSUME NEW l, NEW v, Fits(l, v), Sane(v), NEW a, IsA(l, "account", a),
         NEW ix, ix.op = "harvest", ix.from = a, Execute(l, ix).err = "none"
  PROVE  /\ Fits(Execute(l, ix), v)
         /\ DOMAIN Execute(l, ix).accts = DOMAIN l.accts
<1> DEFINE d == l.accts[a].data
           m == d.mint
           w == d.owner
           e == [d EXCEPT !.withheld = 0]
<1>1. Execute(l, ix) = HarvestWithheld(l, ix)
  BY ExecuteIs DEF Fits
<1>2. Execute(l, ix) = Rewritten(l, a, e)
  <2>1. "InvalidAccountData" # "none"
    OBVIOUS
  <2>2. HarvestWithheld(l, ix) # Failed(l, "InvalidAccountData")
    BY <1>1, <2>1 DEF Failed
  <2>3. QED BY <1>1, <2>2 DEF HarvestWithheld
<1>3. /\ m \in DOMAIN v.mints /\ w \in Wallets /\ a = AtaIn(v, w, m)
      /\ d.amount = v.mints[m].held[w]
      /\ d = Holding(m, w, d.amount, d.withheld)
  BY HoldingsKnown
<1>4. e = Fields(m, w, d.amount, 0)
  <2> DEFINE n == d.amount
             h == d.withheld
  <2>1. d = Fields(m, w, n, h)
    BY <1>3, HoldingIs
  <2> HIDE DEF d, m, w, n, h
  <2>2. [d EXCEPT !.withheld = 0] = Fields(m, w, n, 0)
    BY <2>1 DEF Fields
  <2>3. QED BY <2>2 DEF n
<1>5. e.withheld = 0 /\ e = Holding(m, w, v.mints[m].held[w], e.withheld)
  BY <1>3, <1>4, HoldingIs DEF Fields
<1>6. v.mints[m].cap \in Nat
  BY <1>3 DEF Sane, SaneRow
<1>7. a \in DOMAIN l.accts
  BY DEF IsA, Exists
<1> HIDE DEF d, m, w, e
<1>8. e.withheld \in 0 .. v.mints[m].cap
  BY <1>5, <1>6
<1>9. HoldingChanged(v, v, m, w, e)
  BY <1>5, <1>6, <1>8 DEF HoldingChanged
<1>10. /\ Fits(Rewritten(l, AtaIn(v, w, m), e), v)
       /\ DOMAIN Rewritten(l, AtaIn(v, w, m), e).accts = DOMAIN l.accts
  BY <1>3, <1>7, <1>9, HoldingRewritten
<1>11. QED BY <1>2, <1>3, <1>10

\* What a transfer of n with a fee of f writes.
Transferred(l, src, dst, n, f) ==
  LET s == l.accts[src].data
      d == l.accts[dst].data
      c == [d EXCEPT !.amount = @ + n - f]
  IN  Rewritten(Rewritten(l, src, [s EXCEPT !.amount = @ - n]),
                dst, [c EXCEPT !.withheld = @ + f])

\* A transfer that works is between two accounts of one of main's mints, and
\* signed by the owner of the first.
LEMMA TransferIs ==
  ASSUME NEW l, NEW v, Fits(l, v), Sane(v), NEW ix, ix.op = "transferChecked",
         Execute(l, ix).err = "none"
  PROVE  LET m == ix.mint
             s == l.accts[ix.src].data
             d == l.accts[ix.dst].data
         IN  /\ m \in DOMAIN v.mints
             /\ IsA(l, "account", ix.src) /\ IsA(l, "account", ix.dst)
             /\ s.mint = m /\ d.mint = m
             /\ ~(s.amount < ix.amount) /\ s.owner = ix.authority
             /\ Execute(l, ix) =
                  IF ix.src = ix.dst THEN l
                  ELSE Transferred(l, ix.src, ix.dst, ix.amount,
                                   FeeOf(v.mints[m].data.fee, ix.amount))
<1> DEFINE m == ix.mint
           s == l.accts[ix.src].data
           d == l.accts[ix.dst].data
           f == FeeOf(l.accts[m].data.fee, ix.amount)
           r == Transferred(l, ix.src, ix.dst, ix.amount, f)
<1>1. Execute(l, ix) = TransferChecked(l, ix)
  BY ExecuteIs DEF Fits
<1>2. /\ TransferChecked(l, ix) # Failed(l, "InvalidAccountData")
      /\ TransferChecked(l, ix) # Failed(l, "InsufficientFunds")
      /\ TransferChecked(l, ix) # Failed(l, "OwnerMismatch")
      /\ TransferChecked(l, ix) # Failed(l, "MintDecimalsMismatch")
  BY <1>1 DEF Failed
<1>3. IsAccountOf(l, ix.src, m) /\ IsAccountOf(l, ix.dst, m)
  BY <1>2, Zenon DEF TransferChecked
<1>4. ~(s.amount < ix.amount) /\ s.owner = ix.authority
  BY <1>2, Zenon DEF TransferChecked
<1>5. TransferChecked(l, ix) = IF ix.src = ix.dst THEN l ELSE r
  BY <1>2, Zenon DEF TransferChecked, Transferred
<1>6. /\ IsA(l, "account", ix.src) /\ IsA(l, "account", ix.dst)
      /\ s.mint = m /\ d.mint = m
  BY <1>3 DEF IsAccountOf
<1>7. m \in DOMAIN v.mints
  <2>1. IsA(l, "account", ix.src)
    BY <1>6
  <2>2. l.accts[ix.src].data.mint \in DOMAIN v.mints
    BY <2>1, HoldingsKnown
  <2>3. QED BY <1>6, <2>2
<1>8. l.accts[m].data = v.mints[m].data
  BY <1>7, MintsThere
<1> HIDE DEF s, d, r
<1>9. r = Transferred(l, ix.src, ix.dst, ix.amount, FeeOf(v.mints[m].data.fee, ix.amount))
  BY <1>8 DEF r
<1>10. QED BY <1>1, <1>4, <1>5, <1>6, <1>7, <1>9 DEF s, d

\* A view in which one mint has another row.
WithRow(v, m, r) ==
  [plain |-> v.plain, floor |-> v.floor, open |-> v.open,
   mints |-> [n \in DOMAIN v.mints |-> IF n = m THEN r ELSE v.mints[n]]]

LEMMA WithRowIs ==
  ASSUME NEW v, NEW m \in DOMAIN v.mints, NEW r
  PROVE  LET v1 == WithRow(v, m, r)
         IN  /\ v1.plain = v.plain /\ v1.floor = v.floor /\ v1.open = v.open
             /\ DOMAIN v1.mints = DOMAIN v.mints /\ v1.mints[m] = r
             /\ \A n \in DOMAIN v.mints : n # m => v1.mints[n] = v.mints[n]
BY DEF WithRow

LEMMA WithRowSane ==
  ASSUME NEW v, Sane(v), NEW m \in DOMAIN v.mints, NEW r,
         SaneRow(WithRow(v, m, r), m)
  PROVE  Sane(WithRow(v, m, r))
<1> DEFINE v1 == WithRow(v, m, r)
<1>1. /\ v1.plain = v.plain /\ v1.floor = v.floor /\ v1.open = v.open
      /\ DOMAIN v1.mints = DOMAIN v.mints
      /\ \A n \in DOMAIN v.mints : n # m => v1.mints[n] = v.mints[n]
  BY WithRowIs
<1> HIDE DEF v1
<1>2. ASSUME NEW n \in DOMAIN v.mints, n # m
      PROVE  SaneRow(v1, n)
  <2>1. v1.mints[n] = v.mints[n] /\ SaneRow(v, n)
    BY <1>1, <1>2 DEF Sane
  <2>2. QED BY <1>1, <2>1 DEF SaneRow
<1>3. SaneRow(v1, m)
  BY DEF v1
<1>4. Sane(v1)
  BY <1>1, <1>2, <1>3 DEF Sane
<1>5. QED BY <1>4 DEF v1

\* The transfer is the one main believes to happen.
Moved(v, v2, m, w1, w2, n, f) ==
  /\ v2.plain = v.plain /\ v2.floor = v.floor /\ v2.open = v.open
  /\ DOMAIN v2.mints = DOMAIN v.mints
  /\ \A k \in DOMAIN v.mints : k # m => v2.mints[k] = v.mints[k]
  /\ v2.mints[m].program = v.mints[m].program
  /\ v2.mints[m].data = v.mints[m].data
  /\ v2.mints[m].cap \in Nat /\ v2.mints[m].cap >= v.mints[m].cap + f
  /\ v2.mints[m].held[w1] = v.mints[m].held[w1] - n
  /\ v2.mints[m].held[w2] = v.mints[m].held[w2] + n - f
  /\ \A w \in Wallets : w \notin {w1, w2} => v2.mints[m].held[w] = v.mints[m].held[w]

LEMMA TransferredFits ==
  ASSUME NEW l, NEW v, Fits(l, v), Sane(v), NEW m \in DOMAIN v.mints,
         NEW w1 \in Wallets, NEW w2 \in Wallets, w1 # w2,
         AtaIn(v, w1, m) \in DOMAIN l.accts, AtaIn(v, w2, m) \in DOMAIN l.accts,
         NEW n \in Nat, NEW f \in Nat, f <= n, n <= v.mints[m].held[w1],
         NEW v2, Moved(v, v2, m, w1, w2, n, f)
  PROVE  LET r == Transferred(l, AtaIn(v, w1, m), AtaIn(v, w2, m), n, f)
         IN  Fits(r, v2) /\ DOMAIN r.accts = DOMAIN l.accts
<1> USE DEF Moved
<1> DEFINE a == AtaIn(v, w1, m)
           b == AtaIn(v, w2, m)
           row == v.mints[m]
           held1 == [w \in Wallets |-> IF w = w1 THEN row.held[w] - n ELSE row.held[w]]
           row1 == Row(row.program, row.data, held1, row.cap)
           v1 == WithRow(v, m, row1)
           s == l.accts[a].data
           d == l.accts[b].data
           s1 == [s EXCEPT !.amount = @ - n]
           l1 == Rewritten(l, a, s1)
           c == [d EXCEPT !.amount = @ + n - f]
           d1 == [c EXCEPT !.withheld = @ + f]
<1>1. SaneRow(v, m)
  BY DEF Sane
<1>2. /\ row.held \in [Wallets -> Nat] /\ row.cap \in Nat
  BY <1>1 DEF SaneRow
<1>3. /\ v1.plain = v.plain /\ v1.floor = v.floor /\ v1.open = v.open
      /\ DOMAIN v1.mints = DOMAIN v.mints
      /\ \A k \in DOMAIN v.mints : k # m => v1.mints[k] = v.mints[k]
      /\ v1.mints[m] = row1
  <2> HIDE DEF row1
  <2>1. QED BY WithRowIs
<1>4. /\ row1.program = row.program /\ row1.data = row.data
      /\ row1.held = held1 /\ row1.cap = row.cap
  BY DEF Row
<1>5. /\ held1 \in [Wallets -> Nat]
      /\ held1[w1] = row.held[w1] - n
      /\ \A w \in Wallets : w # w1 => held1[w] = row.held[w]
  BY <1>2
<1> HIDE DEF v1, row1, held1
<1>6. Sane(v1)
  <2>1. SaneRow(v1, m)
    <3>1. /\ \A w \in Wallets : held1[w] # 0 => <<w, m>> \in v.open
          /\ \A o \in Others : held1[o] = 0
      BY <1>1, <1>2, <1>5, OthersAssumption DEF SaneRow
    <3>2. QED BY <1>1, <1>2, <1>3, <1>4, <1>5, <3>1 DEF SaneRow
  <2>2. QED BY <2>1, WithRowSane DEF v1
<1>7. s = Fields(m, w1, row.held[w1], s.withheld) /\ s.withheld \in 0 .. row.cap
  BY HoldingOf, HoldingIs
<1>8. d = Fields(m, w2, row.held[w2], d.withheld) /\ d.withheld \in 0 .. row.cap
  BY HoldingOf, HoldingIs
<1>9. s1 = Fields(m, w1, held1[w1], s.withheld)
  <2> DEFINE h == s.withheld
             k == row.held[w1]
  <2>1. s = Fields(m, w1, k, h)
    BY <1>7
  <2>2. held1[w1] = k - n
    BY <1>5
  <2> HIDE DEF h, s, k
  <2>3. [s EXCEPT !.amount = k - n] = Fields(m, w1, k - n, h)
    BY <2>1 DEF Fields
  <2>4. s.amount = k
    BY <2>1 DEF Fields
  <2>5. s1 = [s EXCEPT !.amount = s.amount - n]
    OBVIOUS
  <2>6. QED BY <2>2, <2>3, <2>4, <2>5 DEF h
<1>10. d1 = Fields(m, w2, row.held[w2] + n - f, d.withheld + f)
  <2> DEFINE h == d.withheld
             k == row.held[w2]
             n2 == k + n - f
             h2 == h + f
  <2>1. d = Fields(m, w2, k, h)
    BY <1>8
  <2> HIDE DEF d, k
  <2>2. d.amount = k /\ d.withheld = h
    BY <2>1 DEF Fields
  <2>3. c = [d EXCEPT !.amount = n2]
    BY <2>2
  <2> HIDE DEF c, n2, h
  <2>4. c = Fields(m, w2, n2, h)
    BY <2>1, <2>3 DEF Fields
  <2>5. d1 = [c EXCEPT !.withheld = h2]
    BY <2>4 DEF Fields
  <2> HIDE DEF h2
  <2>6. d1 = Fields(m, w2, n2, h2)
    BY <2>4, <2>5 DEF Fields
  <2>7. QED BY <2>6 DEF k, h, n2, h2
<1>11. a # b
  <2>1. l.accts[a].data.owner = w1 /\ l.accts[b].data.owner = w2
    BY HoldingOf
  <2>2. QED BY <2>1
<1> HIDE DEF row, s, d, s1, d1, l1
<1>12. Fits(l1, v1) /\ DOMAIN l1.accts = DOMAIN l.accts
  <2>1. /\ s1.withheld \in 0 .. v1.mints[m].cap
        /\ s1 = Holding(m, w1, v1.mints[m].held[w1], s1.withheld)
    BY <1>3, <1>4, <1>7, <1>9, HoldingIs DEF Fields
  <2>2. \A k \in DOMAIN v.mints :
          /\ k # m => v1.mints[k] = v.mints[k]
          /\ v1.mints[k].program = v.mints[k].program
          /\ v1.mints[k].data = v.mints[k].data
    BY <1>3, <1>4 DEF row
  <2>3. /\ v1.mints[m].cap \in Nat /\ v1.mints[m].cap >= v.mints[m].cap
        /\ \A w \in Wallets : w # w1 => v1.mints[m].held[w] = v.mints[m].held[w]
    BY <1>2, <1>3, <1>4, <1>5 DEF row
  <2>4. HoldingChanged(v, v1, m, w1, s1)
    BY <1>3, <2>1, <2>2, <2>3 DEF HoldingChanged
  <2>5. /\ Fits(Rewritten(l, AtaIn(v, w1, m), s1), v1)
        /\ DOMAIN Rewritten(l, AtaIn(v, w1, m), s1).accts = DOMAIN l.accts
    BY <2>4, HoldingRewritten
  <2>6. QED BY <2>5 DEF l1
<1>13. AtaIn(v1, w2, m) = b
  BY <1>3, <1>4 DEF AtaIn, row
<1>14. Fits(Rewritten(l1, b, d1), v2) /\ DOMAIN Rewritten(l1, b, d1).accts = DOMAIN l1.accts
  <2>1. /\ d1.withheld \in 0 .. v2.mints[m].cap
        /\ d1 = Holding(m, w2, v2.mints[m].held[w2], d1.withheld)
    <3>1. d1.withheld = d.withheld + f
      BY <1>10 DEF Fields
    <3>2. d1.withheld \in 0 .. v2.mints[m].cap
      BY <1>2, <1>8, <3>1 DEF row
    <3>3. v2.mints[m].held[w2] = row.held[w2] + n - f
      BY DEF row
    <3>4. QED BY <1>10, <3>1, <3>2, <3>3, HoldingIs
  <2>2. \A k \in DOMAIN v1.mints :
          /\ k # m => v2.mints[k] = v1.mints[k]
          /\ v2.mints[k].program = v1.mints[k].program
          /\ v2.mints[k].data = v1.mints[k].data
    BY <1>3, <1>4 DEF row
  <2>3. /\ v2.mints[m].cap \in Nat /\ v2.mints[m].cap >= v1.mints[m].cap
        /\ \A w \in Wallets : w # w2 => v2.mints[m].held[w] = v1.mints[m].held[w]
    BY <1>2, <1>3, <1>4, <1>5 DEF row
  <2>4. /\ v2.plain = v1.plain /\ v2.floor = v1.floor /\ v2.open = v1.open
        /\ DOMAIN v2.mints = DOMAIN v1.mints /\ m \in DOMAIN v1.mints
    BY <1>3
  <2>5. AtaIn(v1, w2, m) \in DOMAIN l1.accts
    BY <1>12, <1>13
  <2>6. HoldingChanged(v1, v2, m, w2, d1)
    BY <2>1, <2>2, <2>3, <2>4 DEF HoldingChanged
  <2>7. /\ Fits(Rewritten(l1, AtaIn(v1, w2, m), d1), v2)
        /\ DOMAIN Rewritten(l1, AtaIn(v1, w2, m), d1).accts = DOMAIN l1.accts
    BY <1>6, <1>12, <2>4, <2>5, <2>6, HoldingRewritten
  <2>8. QED BY <1>13, <2>7
<1>15. Transferred(l, a, b, n, f) = Rewritten(l1, b, d1)
  BY Zenon DEF Transferred, l1, s1, d1, s, d
<1>16. QED BY <1>12, <1>14, <1>15

\* What minting n writes.
Minted(l, m, dest, n) ==
  Rewritten(Rewritten(l, m, [l.accts[m].data EXCEPT !.supply = @ + n]),
            dest, [l.accts[dest].data EXCEPT !.amount = @ + n])

Issued(v, v2, m, w, n) ==
  /\ v2.plain = v.plain /\ v2.floor = v.floor /\ v2.open = v.open
  /\ DOMAIN v2.mints = DOMAIN v.mints
  /\ \A k \in DOMAIN v.mints : k # m => v2.mints[k] = v.mints[k]
  /\ v2.mints[m].program = v.mints[m].program
  /\ v2.mints[m].cap = v.mints[m].cap
  /\ v2.mints[m].data = [v.mints[m].data EXCEPT !.supply = @ + n]
  /\ v2.mints[m].held[w] = v.mints[m].held[w] + n
  /\ \A w2 \in Wallets : w2 # w => v2.mints[m].held[w2] = v.mints[m].held[w2]

LEMMA MintedFits ==
  ASSUME NEW l, NEW v, Fits(l, v), Sane(v), NEW m \in DOMAIN v.mints,
         NEW w \in Wallets, AtaIn(v, w, m) \in DOMAIN l.accts, NEW n \in Nat,
         NEW v2, Sane(v2), Issued(v, v2, m, w, n)
  PROVE  LET r == Minted(l, m, AtaIn(v, w, m), n)
         IN  Fits(r, v2) /\ DOMAIN r.accts = DOMAIN l.accts
<1> USE DEF Issued
<1> DEFINE a == AtaIn(v, w, m)
           row == v.mints[m]
           row1 == Row(row.program, v2.mints[m].data, row.held, row.cap)
           v1 == WithRow(v, m, row1)
           l1 == Rewritten(l, m, [l.accts[m].data EXCEPT !.supply = @ + n])
           d == l.accts[a].data
           d1 == [d EXCEPT !.amount = @ + n]
<1>1. SaneRow(v, m) /\ SaneRow(v2, m)
  BY DEF Sane
<1>2. /\ row1.program = row.program /\ row1.data = v2.mints[m].data
      /\ row1.held = row.held /\ row1.cap = row.cap
  BY DEF Row
<1>3. /\ v1.plain = v.plain /\ v1.floor = v.floor /\ v1.open = v.open
      /\ DOMAIN v1.mints = DOMAIN v.mints
      /\ \A k \in DOMAIN v.mints : k # m => v1.mints[k] = v.mints[k]
      /\ v1.mints[m] = row1
  <2> HIDE DEF row1
  <2>1. QED BY WithRowIs
<1> HIDE DEF row1, v1
<1>4. Sane(v1)
  <2>1. SaneRow(v1, m)
    BY <1>1, <1>2, <1>3 DEF SaneRow
  <2>2. QED BY <2>1, WithRowSane DEF v1
<1>5. Fits(l1, v1) /\ DOMAIN l1.accts = DOMAIN l.accts
  <2>1. MintChanged(v, v1, m)
    BY <1>2, <1>3 DEF MintChanged
  <2>2. /\ Fits(Rewritten(l, m, v1.mints[m].data), v1)
        /\ DOMAIN Rewritten(l, m, v1.mints[m].data).accts = DOMAIN l.accts
    BY <2>1, MintRewritten
  <2>3. l.accts[m].data = v.mints[m].data
    BY MintsThere
  <2>4. v1.mints[m].data = [l.accts[m].data EXCEPT !.supply = @ + n]
    BY <1>2, <1>3, <2>3
  <2>5. QED BY <2>2, <2>4
<1>6. d = Fields(m, w, row.held[w], d.withheld) /\ d.withheld \in 0 .. row.cap
  BY HoldingOf, HoldingIs
<1>7. d1 = Fields(m, w, v2.mints[m].held[w], d.withheld)
  <2> DEFINE k == row.held[w]
             h == d.withheld
             n2 == k + n
  <2>1. d = Fields(m, w, k, h)
    BY <1>6
  <2> HIDE DEF d, k, h
  <2>2. d.amount = k
    BY <2>1 DEF Fields
  <2>3. d1 = [d EXCEPT !.amount = n2]
    BY <2>2
  <2> HIDE DEF n2
  <2>4. d1 = Fields(m, w, n2, h)
    BY <2>1, <2>3 DEF Fields
  <2>5. n2 = v2.mints[m].held[w]
    BY DEF n2, k
  <2>6. QED BY <2>4, <2>5 DEF h
<1> HIDE DEF d, d1, l1
<1>8. HoldingChanged(v1, v2, m, w, d1)
  <2>1. d1.withheld = d.withheld
    BY <1>7 DEF Fields
  <2>2. d1 = Holding(m, w, v2.mints[m].held[w], d1.withheld)
    BY <1>7, <2>1, HoldingIs
  <2>3. v2.mints[m].cap \in Nat /\ v2.mints[m].cap = row.cap
    BY <1>1 DEF SaneRow
  <2>4. QED BY <1>2, <1>3, <1>6, <2>1, <2>2, <2>3 DEF HoldingChanged
<1>9. AtaIn(v1, w, m) = a
  BY <1>2, <1>3 DEF AtaIn
<1>10. m \in DOMAIN v1.mints /\ AtaIn(v1, w, m) \in DOMAIN l1.accts
  BY <1>3, <1>5, <1>9
<1>11. /\ Fits(Rewritten(l1, AtaIn(v1, w, m), d1), v2)
       /\ DOMAIN Rewritten(l1, AtaIn(v1, w, m), d1).accts = DOMAIN l1.accts
  BY <1>4, <1>5, <1>8, <1>10, HoldingRewritten
<1>12. Minted(l, m, a, n) = Rewritten(l1, a, d1)
  BY Zenon DEF Minted, l1, d1, d
<1>13. QED BY <1>5, <1>9, <1>11, <1>12

\* Every account that was there still is.
Keeps(l, r) == DOMAIN l.accts \subseteq DOMAIN r.accts

\* Minting works for the authority while the supply stays in a u64.
LEMMA MintToOutcome ==
  ASSUME NEW l, NEW v, Fits(l, v), Sane(v), NEW m \in DOMAIN v.mints,
         NEW w \in Wallets, Exists(l, AtaIn(v, w, m)), NEW n \in Nat,
         NEW v2, Sane(v2), Issued(v, v2, m, w, n),
         v.mints[m].data.supply + n <= MaxU64
  PROVE  LET r == Execute(l, MintToIx(v.mints[m].program, m, AtaIn(v, w, m),
                                      v.mints[m].data.authority, n))
         IN  Fits(r, v2) /\ Keeps(l, r)
<1> DEFINE a == AtaIn(v, w, m)
           p == v.mints[m].program
           auth == v.mints[m].data.authority
           supply == v.mints[m].data.supply
           ix == MintToIx(p, m, a, auth, n)
<1>1. /\ ix.op = "mintTo" /\ ix.program = p /\ ix.mint = m /\ ix.dest = a
      /\ ix.authority = auth /\ ix.amount = n
  BY DEF MintToIx
<1>2. IsA(l, "mint", m) /\ Of(l, m, p) /\ l.accts[m].data = v.mints[m].data
  BY MintsThere DEF Of
<1>3. IsAccountOf(l, a, m)
  BY HoldingOf DEF IsAccountOf, Exists
<1>4. /\ l.accts[m].data.authority = auth /\ l.accts[m].data.supply = supply
      /\ supply \in Nat /\ supply + n <= MaxU64
  BY <1>2 DEF Sane, SaneRow
<1> HIDE DEF ix, p, auth, supply, a
<1>5. Execute(l, ix) = MintTo(l, ix)
  BY <1>1, ExecuteIs DEF Fits
<1>6. MintTo(l, ix) = Minted(l, m, a, n)
  <2>1. ~(supply + n > MaxU64)
    BY <1>4, SupplyAssumption
  <2>2. QED BY <1>1, <1>2, <1>3, <1>4, <2>1, Zenon DEF MintTo, Minted
<1>7. Fits(Minted(l, m, a, n), v2) /\ DOMAIN Minted(l, m, a, n).accts = DOMAIN l.accts
  BY MintedFits DEF a, Exists
<1>8. Fits(Execute(l, ix), v2) /\ Keeps(l, Execute(l, ix))
  BY <1>5, <1>6, <1>7 DEF Keeps
<1>9. QED BY <1>8 DEF ix, p, auth, a

\* A transfer works for an owner who has the tokens, to an account that exists.
LEMMA TransferOutcome ==
  ASSUME NEW l, NEW v, Fits(l, v), Sane(v), NEW m \in DOMAIN v.mints,
         NEW w1 \in Wallets, NEW w2 \in Wallets, w1 # w2,
         AtaIn(v, w1, m) \in DOMAIN l.accts,
         NEW n \in Nat, n <= v.mints[m].held[w1],
         v.mints[m].data.decimals = DECIMALS
  PROVE  LET f == FeeOf(v.mints[m].data.fee, n)
             r == Execute(l, TransferCheckedIx(v.mints[m].program, AtaIn(v, w1, m), m,
                                               AtaIn(v, w2, m), w1, n))
         IN  /\ ~Exists(l, AtaIn(v, w2, m)) =>
                  r = Failed(l, "InvalidAccountData")
             /\ Exists(l, AtaIn(v, w2, m)) =>
                  r = Transferred(l, AtaIn(v, w1, m), AtaIn(v, w2, m), n, f)
<1> DEFINE a == AtaIn(v, w1, m)
           b == AtaIn(v, w2, m)
           p == v.mints[m].program
           f == FeeOf(v.mints[m].data.fee, n)
           ix == TransferCheckedIx(p, a, m, b, w1, n)
<1>1. /\ ix.op = "transferChecked" /\ ix.program = p /\ ix.mint = m
      /\ ix.src = a /\ ix.dst = b /\ ix.authority = w1 /\ ix.amount = n
      /\ ix.decimals = DECIMALS
  BY DEF TransferCheckedIx
<1>2. Of(l, m, p) /\ l.accts[m].data = v.mints[m].data
  BY MintsThere DEF Of
<1>3. /\ IsAccountOf(l, a, m) /\ l.accts[a].data.owner = w1
      /\ l.accts[a].data.amount = v.mints[m].held[w1]
  BY HoldingOf DEF IsAccountOf
<1>4. Exists(l, b) => IsAccountOf(l, b, m) /\ l.accts[b].data.owner = w2
  BY HoldingOf DEF IsAccountOf, Exists
<1>5. ~(l.accts[a].data.amount < n)
  <2>1. v.mints[m].held \in [Wallets -> Nat]
    BY DEF Sane, SaneRow
  <2>2. QED BY <1>3, <2>1
<1>6. Exists(l, b) => a # b
  BY <1>3, <1>4
<1> HIDE DEF ix, p, a, b
<1>7. Execute(l, ix) = TransferChecked(l, ix)
  BY <1>1, ExecuteIs DEF Fits
<1>8. CASE ~Exists(l, b)
  <2>1. TransferChecked(l, ix) = Failed(l, "InvalidAccountData")
    BY <1>1, <1>8, Zenon DEF TransferChecked, IsAccountOf, IsA
  <2>2. QED BY <1>7, <1>8, <2>1 DEF ix, p, a, b
<1>9. CASE Exists(l, b)
  <2>1. TransferChecked(l, ix) = Transferred(l, a, b, n, f)
    BY <1>1, <1>2, <1>3, <1>4, <1>5, <1>6, <1>9, Zenon DEF TransferChecked, Transferred
  <2> HIDE DEF f
  <2>2. QED BY <1>7, <1>9, <2>1 DEF ix, p, a, b, f
<1>10. QED BY <1>8, <1>9

\* So with the fee main reckons with, its view follows.
LEMMA TransferFits ==
  ASSUME NEW l, NEW v, Fits(l, v), Sane(v), NEW m \in DOMAIN v.mints,
         NEW w1 \in Wallets, NEW w2 \in Wallets, w1 # w2,
         Exists(l, AtaIn(v, w1, m)), Exists(l, AtaIn(v, w2, m)),
         NEW n \in Nat, n <= v.mints[m].held[w1],
         v.mints[m].data.decimals = DECIMALS,
         NEW f \in Nat, f <= n, f = FeeOf(v.mints[m].data.fee, n),
         NEW v2, Moved(v, v2, m, w1, w2, n, f)
  PROVE  LET r == Execute(l, TransferCheckedIx(v.mints[m].program, AtaIn(v, w1, m), m,
                                               AtaIn(v, w2, m), w1, n))
         IN  Fits(r, v2) /\ Keeps(l, r)
<1> DEFINE a == AtaIn(v, w1, m)
           b == AtaIn(v, w2, m)
           r == Execute(l, TransferCheckedIx(v.mints[m].program, a, m, b, w1, n))
           t == Transferred(l, a, b, n, f)
<1>1. a \in DOMAIN l.accts /\ b \in DOMAIN l.accts
  BY DEF Exists
<1>2. Fits(t, v2) /\ DOMAIN t.accts = DOMAIN l.accts
  BY <1>1, TransferredFits
<1>3. r = Transferred(l, a, b, n, FeeOf(v.mints[m].data.fee, n))
  BY <1>1, TransferOutcome
<1>4. r = t
  BY <1>3
<1> HIDE DEF r, t
<1>5. Fits(r, v2) /\ Keeps(l, r)
  BY <1>2, <1>4 DEF Keeps
<1>6. QED BY <1>5 DEF r

\* create_ata for a mint of main's: refused exactly if there is one.
LEMMA OpenOutcome ==
  ASSUME NEW l, NEW v, Fits(l, v), Sane(v), NEW f, NEW w \in Wallets,
         NEW m \in DOMAIN v.mints
  PROVE  LET r == Execute(l, CreateAtaIx(f, w, m, v.mints[m].program))
         IN  /\ r.err = "none" => /\ Fits(r, v) /\ Keeps(l, r)
                                  /\ Exists(r, AtaIn(v, w, m))
             /\ r.err # "none" => Exists(l, AtaIn(v, w, m))
<1> DEFINE p == v.mints[m].program
           r == Execute(l, CreateAtaIx(f, w, m, p))
           a == Ata[w][m][p]
<1>1. m \in NewKeys /\ p \in TokenPrograms
  BY DEF Sane, SaneRow
<1>2. AtaIn(v, w, m) = a
  BY DEF AtaIn
<1>3. /\ r.err = "none" => Fits(r, v) /\ DOMAIN r.accts = DOMAIN l.accts \cup {a}
      /\ ~Exists(l, a) => r.err = "none"
  <2>1. \A q \in TokenPrograms :
          LET z == Execute(l, CreateAtaIx(f, w, m, q))
          IN  /\ z.err = "none" =>
                   /\ m \in DOMAIN v.mints /\ q = v.mints[m].program
                   /\ Fits(z, v)
                   /\ DOMAIN z.accts = DOMAIN l.accts \cup {Ata[w][m][q]}
              /\ m \in DOMAIN v.mints /\ q = v.mints[m].program
                   /\ ~Exists(l, Ata[w][m][q]) => z.err = "none"
    BY <1>1, CreateAtaOutcome
  <2>2. QED BY <1>1, <2>1
<1> HIDE DEF r, a, p
<1>4. /\ r.err = "none" => Fits(r, v) /\ Keeps(l, r) /\ Exists(r, a)
      /\ r.err # "none" => Exists(l, a)
  BY <1>3 DEF Keeps, Exists
<1>5. QED BY <1>2, <1>4 DEF r, p

\* A mint is made and initialized by one transaction.
MintIxs(payer, m, auth) ==
  << SysCreateAccount(payer, m, MinimumBalance(82), 82, "Token"),
     InitializeMint2Ix("Token", m, auth) >>

MintAdded(v, v2, m, p, d) ==
  /\ m \in NewKeys /\ m \notin v.plain /\ m \notin DOMAIN v.mints
  /\ v2.plain = v.plain /\ v2.open = v.open
  /\ v2.floor \in Nat /\ v2.floor <= v.floor
  /\ DOMAIN v2.mints = DOMAIN v.mints \cup {m}
  /\ \A n \in DOMAIN v.mints : v2.mints[n] = v.mints[n]
  /\ v2.mints[m].program = p /\ v2.mints[m].data = d

LEMMA MintMade ==
  ASSUME NEW l, NEW v, Fits(l, v), Sane(v), NEW m, NEW payer, NEW auth,
         NEW v2, MintAdded(v, v2, m, "Token", Mint(auth, DECIMALS, NoFee))
  PROVE  LET r == RunTransaction(l, MintIxs(payer, m, auth))
         IN  Fits(r, v2) /\ Keeps(l, r)
<1> USE DEF MintAdded
<1> DEFINE a == SysCreateAccount(payer, m, MinimumBalance(82), 82, "Token")
           b == InitializeMint2Ix("Token", m, auth)
           lam == MinimumBalance(82)
           d == Mint(auth, DECIMALS, NoFee)
           one == Stored(l, m, "Token", 82, lam, Raw(NoFee))
           two == Rewritten(one, m, d)
<1>1. m \notin DOMAIN l.accts /\ l.err = "none"
  BY KeyFree DEF Fits
<1>2. /\ a.op = "createAccount" /\ a.new = m /\ a.lamports = lam
      /\ a.space = 82 /\ a.owner = "Token"
  BY DEF SysCreateAccount
<1>3. /\ b.op = "initializeMint2" /\ b.program = "Token" /\ b.mint = m
      /\ b.authority = auth /\ b.decimals = DECIMALS
  BY DEF InitializeMint2Ix
<1>4. ~(lam < MinimumBalance(82))
  BY DEF MinimumBalance
<1> HIDE DEF a, b, lam, d
<1>5. Execute(l, a) = one
  <2>1. Execute(l, a) = CreateAccount(l, a)
    BY <1>1, <1>2, ExecuteIs
  <2>2. CreateAccount(l, a) = one
    BY <1>1, <1>2, <1>4, Zenon DEF CreateAccount, Exists
  <2>3. QED BY <2>1, <2>2
<1>6. /\ one.err = "none" /\ DOMAIN one.accts = DOMAIN l.accts \cup {m}
      /\ one.accts[m].program = "Token" /\ one.accts[m].space = 82
      /\ one.accts[m].data = Raw(NoFee)
      /\ \A k \in DOMAIN l.accts : k # m => one.accts[k] = l.accts[k]
  <2> DEFINE tok == "Token"
             raw == Raw(NoFee)
             space == 82
             x == [program |-> tok, space |-> space, lamports |-> lam, data |-> raw]
  <2>1. x.program = tok /\ x.space = space /\ x.data = raw
    OBVIOUS
  <2> HIDE DEF tok, raw, space
  <2>2. LET r == Stored(l, m, tok, space, lam, raw)
        IN  /\ r.err = l.err
            /\ DOMAIN r.accts = DOMAIN l.accts \cup {m}
            /\ r.accts[m] = x
            /\ \A k \in DOMAIN l.accts : k # m => r.accts[k] = l.accts[k]
    BY StoredAt
  <2> HIDE DEF x
  <2>3. one = Stored(l, m, tok, space, lam, raw)
    BY DEF tok, raw, space
  <2>4. QED BY <1>1, <2>1, <2>2, <2>3 DEF tok, raw, space
<1> HIDE DEF one
<1>7. Execute(one, b) = two
  <2>1. Execute(one, b) = InitializeMint2(one, b)
    BY <1>3, <1>6, ExecuteIs
  <2>2. IsA(one, "raw", m) /\ Of(one, m, "Token")
    BY <1>6 DEF IsA, Exists, Of, Raw
  <2>3. one.accts[m].data.fee = NoFee /\ MintSpace(NoFee) = 82
    BY <1>6 DEF Raw, MintSpace
  <2>4. InitializeMint2(one, b) = two
    BY <1>3, <1>6, <2>2, <2>3, Zenon DEF InitializeMint2, d
  <2>5. QED BY <2>1, <2>4
<1>8. /\ two.err = "none" /\ DOMAIN two.accts = DOMAIN l.accts \cup {m}
      /\ two.accts[m].program = "Token" /\ two.accts[m].data = d
      /\ \A k \in DOMAIN l.accts : k # m => two.accts[k] = l.accts[k]
  <2> DEFINE x == [program |-> one.accts[m].program, space |-> one.accts[m].space,
                   lamports |-> one.accts[m].lamports, data |-> d]
  <2>1. m \in DOMAIN one.accts
    BY <1>6
  <2>2. x.program = one.accts[m].program /\ x.data = d
    OBVIOUS
  <2>3. /\ two.err = one.err /\ DOMAIN two.accts = DOMAIN one.accts
        /\ two.accts[m] = x
        /\ \A k \in DOMAIN one.accts : k # m => two.accts[k] = one.accts[k]
    BY <2>1, RewrittenAt
  <2> HIDE DEF x, two
  <2>4. QED BY <1>6, <2>2, <2>3
<1>9. RunTransaction(l, MintIxs(payer, m, auth)) = two
  <2>1. RunTransaction(l, <<a, b>>) = Execute(Execute(l, a), b)
    BY RunTwo
  <2>2. QED BY <1>5, <1>7, <2>1 DEF MintIxs, a, b
<1> HIDE DEF two
<1>10. IsMint(v2, m, two.accts[m])
  BY <1>8 DEF IsMint, d
<1>11. Fits(two, v2)
  BY <1>8, <1>10, MintBorn
<1>12. Keeps(l, two)
  BY <1>8 DEF Keeps
<1>13. QED BY <1>9, <1>11, <1>12

\* The same with a transfer fee: three instructions, the extension first.
FeeMintIxs(payer, m, auth, fee) ==
  << SysCreateAccount(payer, m, MinimumBalance(278), 278, "Token2022"),
     [op |-> "initFee", signers |-> {}, mint |-> m, fee |-> fee],
     InitializeMint2Ix("Token2022", m, auth) >>

LEMMA FeeMintMade ==
  ASSUME NEW l, NEW v, Fits(l, v), Sane(v), NEW m, NEW payer, NEW auth,
         NEW fee, fee # NoFee,
         NEW v2, MintAdded(v, v2, m, "Token2022", Mint(auth, DECIMALS, fee))
  PROVE  LET r == RunTransaction(l, FeeMintIxs(payer, m, auth, fee))
         IN  Fits(r, v2) /\ Keeps(l, r)
<1> USE DEF MintAdded
<1> DEFINE tok == "Token2022"
           space == 278
           a == SysCreateAccount(payer, m, MinimumBalance(space), space, tok)
           b == [op |-> "initFee", signers |-> {}, mint |-> m, fee |-> fee]
           c == InitializeMint2Ix(tok, m, auth)
           lam == MinimumBalance(space)
           raw == Raw(NoFee)
           raw2 == Raw(fee)
           d == Mint(auth, DECIMALS, fee)
           one == Stored(l, m, tok, space, lam, raw)
           two == Rewritten(one, m, raw2)
           three == Rewritten(two, m, d)
<1>1. m \notin DOMAIN l.accts /\ l.err = "none"
  BY KeyFree DEF Fits
<1>2. /\ a.op = "createAccount" /\ a.new = m /\ a.lamports = lam
      /\ a.space = space /\ a.owner = tok
  BY DEF SysCreateAccount
<1>3. b.op = "initFee" /\ b.mint = m /\ b.fee = fee
  OBVIOUS
<1>4. /\ c.op = "initializeMint2" /\ c.program = tok /\ c.mint = m
      /\ c.authority = auth /\ c.decimals = DECIMALS
  BY DEF InitializeMint2Ix
<1>5. ~(lam < MinimumBalance(space))
  BY DEF MinimumBalance
<1>6. MintSpace(fee) = space
  BY DEF MintSpace
<1>7. ~(space < space)
  OBVIOUS
<1>8. raw.kind = "raw" /\ raw.fee = NoFee /\ raw2.kind = "raw" /\ raw2.fee = fee
  BY DEF Raw
<1> HIDE DEF a, b, c, lam, d, raw, raw2, space
<1>9. Execute(l, a) = one
  <2>1. Execute(l, a) = CreateAccount(l, a)
    BY <1>1, <1>2, ExecuteIs
  <2>2. CreateAccount(l, a) = one
    BY <1>1, <1>2, <1>5, Zenon DEF CreateAccount, Exists, raw
  <2>3. QED BY <2>1, <2>2
<1> DEFINE MAt(x, e) == /\ x.err = "none" /\ DOMAIN x.accts = DOMAIN l.accts \cup {m}
                        /\ x.accts[m].program = tok /\ x.accts[m].space = space
                        /\ x.accts[m].data = e
                        /\ \A k \in DOMAIN l.accts : k # m => x.accts[k] = l.accts[k]
<1>10. MAt(one, raw)
  <2> DEFINE x == [program |-> tok, space |-> space, lamports |-> lam, data |-> raw]
  <2> HIDE DEF tok
  <2>1. x.program = tok /\ x.space = space /\ x.data = raw
    OBVIOUS
  <2>2. /\ one.err = l.err
        /\ DOMAIN one.accts = DOMAIN l.accts \cup {m}
        /\ one.accts[m] = x
        /\ \A k \in DOMAIN l.accts : k # m => one.accts[k] = l.accts[k]
    BY StoredAt
  <2> HIDE DEF x, one
  <2>3. QED BY <1>1, <2>1, <2>2
<1>11. ASSUME NEW x, NEW e, NEW e2, MAt(x, e)
       PROVE  MAt(Rewritten(x, m, e2), e2)
  <2> DEFINE y == [program |-> x.accts[m].program, space |-> x.accts[m].space,
                   lamports |-> x.accts[m].lamports, data |-> e2]
             z == Rewritten(x, m, e2)
  <2>1. m \in DOMAIN x.accts
    BY <1>11
  <2>2. y.program = x.accts[m].program /\ y.space = x.accts[m].space /\ y.data = e2
    OBVIOUS
  <2>3. /\ z.err = x.err /\ DOMAIN z.accts = DOMAIN x.accts
        /\ z.accts[m] = y
        /\ \A k \in DOMAIN x.accts : k # m => z.accts[k] = x.accts[k]
    BY <2>1, RewrittenAt
  <2> HIDE DEF y, z
  <2>4. MAt(z, e2)
    BY <1>11, <2>2, <2>3
  <2>5. QED BY <2>4 DEF z
<1>12. MAt(two, raw2)
  <2> HIDE DEF MAt, one
  <2>1. QED BY <1>10, <1>11
<1>13. MAt(three, d)
  <2> HIDE DEF MAt, two
  <2>1. QED BY <1>12, <1>11
<1>14. Execute(one, b) = two
  <2> HIDE DEF one
  <2>1. Execute(one, b) = InitializeTransferFeeConfig(one, b)
    BY <1>3, <1>10, ExecuteIs
  <2>2. IsA(one, "raw", m) /\ Of(one, m, "Token2022")
    BY <1>8, <1>10 DEF IsA, Exists, Of
  <2>3. one.accts[m].data.fee = NoFee /\ one.accts[m].space = space
    BY <1>8, <1>10
  <2>4. InitializeTransferFeeConfig(one, b) = two
    BY <1>3, <1>6, <1>7, <2>2, <2>3, Zenon DEF InitializeTransferFeeConfig, raw2
  <2>5. QED BY <2>1, <2>4
<1>15. Execute(two, c) = three
  <2> HIDE DEF two
  <2>1. Execute(two, c) = InitializeMint2(two, c)
    BY <1>4, <1>12, ExecuteIs
  <2>2. IsA(two, "raw", m) /\ Of(two, m, tok)
    BY <1>8, <1>12 DEF IsA, Exists, Of
  <2>3. two.accts[m].data.fee = fee /\ two.accts[m].space = space
    BY <1>8, <1>12
  <2>4. InitializeMint2(two, c) = three
    BY <1>4, <1>6, <2>2, <2>3, Zenon DEF InitializeMint2, d
  <2>5. QED BY <2>1, <2>4
<1>16. RunTransaction(l, FeeMintIxs(payer, m, auth, fee)) = three
  <2>1. RunTransaction(l, <<a, b, c>>) = Execute(Execute(Execute(l, a), b), c)
    BY RunThree
  <2>2. QED BY <1>9, <1>14, <1>15, <2>1 DEF FeeMintIxs, a, b, c, space
<1> HIDE DEF three
<1>17. IsMint(v2, m, three.accts[m])
  BY <1>13 DEF IsMint, d
<1>18. Fits(three, v2)
  BY <1>13, <1>17, MintBorn
<1>19. Keeps(l, three)
  BY <1>13 DEF Keeps
<1>20. QED BY <1>16, <1>18, <1>19

\* The System account, made when there was nothing.
LEMMA PlainMade ==
  ASSUME NEW l, NEW v, Fits(l, v), Sane(v), NEW k \in NewKeys,
         v.plain = {}, DOMAIN v.mints = {}, v.open = {}, NEW payer, NEW n \in Nat,
         n >= MinimumBalance(0),
         NEW v2, v2.plain = {k}, DOMAIN v2.mints = {}, v2.open = {},
         v2.floor \in Nat, v2.floor <= n
  PROVE  LET r == Execute(l, SysCreateAccount(payer, k, n, 0, "System"))
         IN  Fits(r, v2) /\ DOMAIN r.accts = {k}
<1> DEFINE ix == SysCreateAccount(payer, k, n, 0, "System")
           tok == "System"
           raw == Raw(NoFee)
           space == 0
           x == [program |-> tok, space |-> space, lamports |-> n, data |-> raw]
           r == Stored(l, k, tok, space, n, raw)
<1>1. DOMAIN l.accts = {} /\ l.err = "none"
  BY DEF Fits, IsPlain, IsMint, IsHolding
<1>2. /\ ix.op = "createAccount" /\ ix.new = k /\ ix.lamports = n
      /\ ix.space = space /\ ix.owner = tok
  BY DEF SysCreateAccount
<1>3. ~(n < MinimumBalance(space))
  BY DEF MinimumBalance
<1> HIDE DEF ix, raw, space
<1>4. Execute(l, ix) = r
  <2>1. Execute(l, ix) = CreateAccount(l, ix)
    BY <1>1, <1>2, ExecuteIs
  <2>2. CreateAccount(l, ix) = r
    BY <1>1, <1>2, <1>3 DEF CreateAccount, Exists, raw
  <2>3. QED BY <2>1, <2>2
<1>5. x.program = "System" /\ x.data = raw /\ x.lamports = n
  OBVIOUS
<1> HIDE DEF tok, x
<1>6. r.err = l.err /\ DOMAIN r.accts = DOMAIN l.accts \cup {k} /\ r.accts[k] = x
  BY StoredAt DEF x
<1> HIDE DEF r
<1>7. IsPlain(v2, k, r.accts[k])
  BY <1>5, <1>6 DEF IsPlain, raw
<1>8. Fits(r, v2) /\ DOMAIN r.accts = {k}
  BY <1>1, <1>6, <1>7 DEF Fits
<1>9. QED BY <1>4, <1>8 DEF ix, tok, space

\* Their transfers can only be of nothing: they own no tokens of main's mints.
LEMMA TheirTransferFits ==
  ASSUME NEW l, NEW v, Fits(l, v), Sane(v), NEW ix, ix.op = "transferChecked",
         ix.authority \in Others, ix.amount \in Nat, Execute(l, ix).err = "none"
  PROVE  /\ Fits(Execute(l, ix), v)
         /\ DOMAIN Execute(l, ix).accts = DOMAIN l.accts
<1> DEFINE m == ix.mint
           s == l.accts[ix.src].data
           d == l.accts[ix.dst].data
           f == FeeOf(v.mints[m].data.fee, ix.amount)
           r == Transferred(l, ix.src, ix.dst, ix.amount, f)
<1>1. /\ m \in DOMAIN v.mints
      /\ IsA(l, "account", ix.src) /\ IsA(l, "account", ix.dst)
      /\ s.mint = m /\ d.mint = m
      /\ ~(s.amount < ix.amount) /\ s.owner = ix.authority
      /\ Execute(l, ix) = IF ix.src = ix.dst THEN l ELSE r
  BY TransferIs
<1>2. /\ s.owner \in Wallets /\ ix.src = AtaIn(v, s.owner, s.mint)
      /\ s.amount = v.mints[s.mint].held[s.owner]
  <2> DEFINE a == ix.src
             e == l.accts[a].data
  <2>1. IsA(l, "account", a)
    BY <1>1
  <2> HIDE DEF a
  <2>2. e.owner \in Wallets
    BY <2>1, HoldingsKnown
  <2>3. a = AtaIn(v, e.owner, e.mint)
    BY <2>1, HoldingsKnown
  <2>4. e.amount = v.mints[e.mint].held[e.owner]
    BY <2>1, HoldingsKnown
  <2>5. QED BY <2>2, <2>3, <2>4 DEF a
<1>3. d.owner \in Wallets /\ ix.dst = AtaIn(v, d.owner, d.mint)
  <2>1. IsA(l, "account", ix.dst)
    BY <1>1
  <2>2. QED BY <2>1, HoldingsKnown
<1> DEFINE w1 == s.owner
           w2 == d.owner
<1>4. ix.src = AtaIn(v, w1, m) /\ ix.dst = AtaIn(v, w2, m) /\ w1 \in Others
  BY <1>1, <1>2, <1>3
<1>5. SaneRow(v, m)
  BY <1>1 DEF Sane
<1>6. v.mints[m].held[w1] = 0
  BY <1>4, <1>5 DEF SaneRow
<1>7. ix.amount = 0
  <2>1. s.amount = 0
    BY <1>1, <1>2, <1>6
  <2>2. QED BY <1>1, <2>1
<1>8. f = 0
  BY <1>5, <1>7, NoFeeOfNothing DEF SaneRow
<1>9. ix.src \in DOMAIN l.accts /\ ix.dst \in DOMAIN l.accts
  BY <1>1 DEF IsA, Exists
<1> HIDE DEF m, w1, w2, f, s, d
<1>10. CASE ix.src = ix.dst
  BY <1>1, <1>10
<1>11. CASE ix.src # ix.dst
  <2>1. w1 # w2
    BY <1>4, <1>11
  <2>2. Moved(v, v, m, w1, w2, 0, 0)
    <3>1. v.mints[m].cap \in Nat /\ v.mints[m].held \in [Wallets -> Nat]
      BY <1>5 DEF SaneRow
    <3>2. w1 \in Wallets /\ w2 \in Wallets
      BY <1>2, <1>3 DEF w1, w2
    <3>3. v.mints[m].held[w1] \in Nat /\ v.mints[m].held[w2] \in Nat
      BY <3>1, <3>2
    <3>4. QED BY <3>1, <3>3 DEF Moved
  <2>3. w1 \in Wallets /\ w2 \in Wallets /\ 0 \in Nat /\ 0 <= 0 /\ 0 <= v.mints[m].held[w1]
    BY <1>2, <1>3, <1>6 DEF w1, w2
  <2>4. AtaIn(v, w1, m) \in DOMAIN l.accts /\ AtaIn(v, w2, m) \in DOMAIN l.accts
    BY <1>4, <1>9
  <2>5. LET z == Transferred(l, AtaIn(v, w1, m), AtaIn(v, w2, m), 0, 0)
        IN  Fits(z, v) /\ DOMAIN z.accts = DOMAIN l.accts
    BY <1>1, <2>1, <2>2, <2>3, <2>4, TransferredFits
  <2>6. QED BY <1>1, <1>4, <1>7, <1>8, <1>11, <2>5
<1>12. QED BY <1>10, <1>11

\* What anybody else does, main's view stays right and what exists stays.
LEMMA OthersKeep ==
  ASSUME NEW v, Sane(v), Fits(ledger, v), OthersAct
  PROVE  Fits(ledger', v) /\ Keeps(ledger, ledger')
<1> USE DEF Keeps
<1>1. PICK ix \in TheirInstructions :
        ix.signers \subseteq Others /\ Execute(ledger, ix).err = "none"
        /\ ledger' = Execute(ledger, ix)
  BY RunOne DEF OthersAct, After
<1>2. CASE ix \in Gifts
  <2>1. PICK o \in Others, k \in Givable :
          ix = [op |-> "transfer", signers |-> {o}, to |-> k, lamports |-> 1]
    BY <1>2 DEF Gifts
  <2>2. ix.op = "transfer" /\ ix.to = k /\ ix.lamports = 1
    BY <2>1
  <2>3. k \in v.plain
    <3>1. k \in NewKeys /\ k \in DOMAIN ledger.accts /\ ledger.accts[k].program = "System"
      BY DEF Givable, Exists, Of
    <3>2. ~IsHolding(v, k, ledger.accts[k])
      BY <3>1, Kinds
    <3>3. ~IsMint(v, k, ledger.accts[k])
      BY <3>1 DEF IsMint, Sane, SaneRow, TokenPrograms
    <3>4. QED BY <3>1, <3>2, <3>3, Kinds
  <2>4. Execute(ledger, ix) = SolTransfer(ledger, ix)
    BY <2>2, ExecuteIs DEF Fits
  <2>5. v.floor \in Nat
    BY DEF Sane
  <2>6. /\ Fits(SolTransfer(ledger, ix), v)
        /\ DOMAIN SolTransfer(ledger, ix).accts = DOMAIN ledger.accts
    BY <2>2, <2>3, <2>5, GiftFits
  <2>7. QED BY <1>1, <2>4, <2>6
<1>3. CASE ix \notin Gifts
  <2>1. PICK o \in Others, m \in NewKeys, p \in TokenPrograms :
          ix \in {CreateAtaIx(o, w, m, p) : w \in Wallets}
            \cup {InitializeMint2Ix(p, m, o),
                  [op |-> "initFee", signers |-> {}, mint |-> m,
                   fee |-> [bps |-> 10000, max |-> MaxU64]]}
            \cup {MintToIx(p, m, a, o, 5) : a \in TokenAccounts}
            \cup {TransferCheckedIx(p, a, m, b, o, n) :
                    a \in TokenAccounts, b \in TokenAccounts, n \in {0, 5}}
            \cup {[op |-> "harvest", signers |-> {}, from |-> a] :
                    a \in TokenAccounts}
    BY <1>3 DEF TheirInstructions
  <2>2. CASE \E w \in Wallets : ix = CreateAtaIx(o, w, m, p)
    <3>1. PICK w \in Wallets : ix = CreateAtaIx(o, w, m, p)
      BY <2>2
    <3>2. LET r == Execute(ledger, CreateAtaIx(o, w, m, p))
          IN  r.err = "none" =>
                Fits(r, v) /\ DOMAIN r.accts = DOMAIN ledger.accts \cup {Ata[w][m][p]}
      BY CreateAtaOutcome
    <3>3. QED BY <1>1, <3>1, <3>2
  <2>3. CASE ix = InitializeMint2Ix(p, m, o)
    <3>1. ix.op = "initializeMint2" /\ ix.program = p
      BY <2>3 DEF InitializeMint2Ix
    <3>2. QED BY <1>1, <3>1, NothingToInitialize
  <2>4. CASE ix = [op |-> "initFee", signers |-> {}, mint |-> m,
                   fee |-> [bps |-> 10000, max |-> MaxU64]]
    <3>1. ix.op = "initFee"
      BY <2>4
    <3>2. QED BY <1>1, <3>1, NothingToInitialize
  <2>5. CASE \E a \in TokenAccounts : ix = MintToIx(p, m, a, o, 5)
    <3>1. ix.op = "mintTo" /\ ix.authority = o
      BY <2>5 DEF MintToIx
    <3>2. QED BY <1>1, <3>1, NotTheirMint
  <2>6. CASE \E a \in TokenAccounts, b \in TokenAccounts, n \in {0, 5} :
               ix = TransferCheckedIx(p, a, m, b, o, n)
    <3>1. PICK a \in TokenAccounts, b \in TokenAccounts, n \in {0, 5} :
            ix = TransferCheckedIx(p, a, m, b, o, n)
      BY <2>6
    <3>2. ix.op = "transferChecked" /\ ix.authority = o /\ ix.amount = n
      BY <3>1 DEF TransferCheckedIx
    <3>3. ix.amount \in Nat /\ ix.authority \in Others
      BY <3>2
    <3>4. QED BY <1>1, <3>2, <3>3, TheirTransferFits
  <2>7. CASE \E a \in TokenAccounts : ix = [op |-> "harvest", signers |-> {}, from |-> a]
    <3>1. PICK a \in TokenAccounts : ix = [op |-> "harvest", signers |-> {}, from |-> a]
      BY <2>7
    <3>2. ix.op = "harvest" /\ ix.from = a /\ IsA(ledger, "account", a)
      BY <3>1 DEF TokenAccounts
    <3>3. QED BY <1>1, <3>2, HarvestFits
  <2>8. QED BY <2>1, <2>2, <2>3, <2>4, <2>5, <2>6, <2>7
<1>4. QED BY <1>2, <1>3

=============================================================================
