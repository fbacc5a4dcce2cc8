---------------------------- MODULE TokenClient ----------------------------
(***************************************************************************)
(* What the clients of exercises 03 and 06 share: a main that makes a      *)
(* fixed sequence of calls (transactions, one simulation, reads of one     *)
(* account each) and stops at the first error, and the transactions others *)
(* get in between any two calls.  The keys of a client are made by itself, *)
(* so nobody else signs with them.                                         *)
(***************************************************************************)
EXTENDS TokenLedger

CONSTANT Others   \* the wallets of everybody else

ASSUME OthersAssumption == Others \subseteq Wallets

VARIABLES
  ledger,   \* the committed accounts
  todo,     \* the calls main has yet to make
  outcome,  \* "running", "failed" (send returned Err) or "rpc_error"
  report    \* name -> what main printed under it

vars == <<ledger, todo, outcome, report>>

DECIMALS == 6

MINT_LEN == 82

-----------------------------------------------------------------------------
(* Instructions.  The accounts marked as signers are `signers`. *)

SysCreateAccount(from, new, lamports, space, owner) ==
  [op |-> "createAccount", signers |-> {from, new}, new |-> new,
   lamports |-> lamports, space |-> space, owner |-> owner]

\* Mutant: the mint's own key is packed as the authority.
InitializeMint2Ix_MintKey(program, mint, authority) ==
  [op |-> "initializeMint2", signers |-> {}, program |-> program,
   mint |-> mint, authority |-> mint, decimals |-> DECIMALS]

InitializeMint2Ix(program, mint, authority) ==
  [op |-> "initializeMint2", signers |-> {}, program |-> program,
   mint |-> mint, authority |-> authority, decimals |-> DECIMALS]

MintToIx(program, mint, dest, authority, amount) ==
  [op |-> "mintTo", signers |-> {authority}, program |-> program,
   mint |-> mint, dest |-> dest, authority |-> authority, amount |-> amount]

TransferCheckedIx(program, src, mint, dst, authority, amount) ==
  [op |-> "transferChecked", signers |-> {authority}, program |-> program,
   src |-> src, mint |-> mint, dst |-> dst, authority |-> authority,
   amount |-> amount, decimals |-> DECIMALS]

DeriveAta(wallet, mint, program) == Ata[wallet][mint][program]

\* Mutant: instruction data [1], CreateIdempotent.
CreateAtaIx_Idempotent(funder, wallet, mint, program) ==
  [op |-> "createAta", signers |-> {funder}, program |-> program,
   wallet |-> wallet, mint |-> mint,
   ata |-> DeriveAta(wallet, mint, program), tag |-> 1]

CreateAtaIx(funder, wallet, mint, program) ==
  [op |-> "createAta", signers |-> {funder}, program |-> program,
   wallet |-> wallet, mint |-> mint,
   ata |-> DeriveAta(wallet, mint, program), tag |-> 0]

-----------------------------------------------------------------------------
(* Calls. *)

\* The payer signs, and the keys of `extra`.
Send(payer, ixs, extra) ==
  [call |-> "send", ixs |-> ixs, keys |-> {payer} \cup extra]

Simulate(what, ix) == [call |-> "simulate", what |-> what, ixs |-> <<ix>>]

\* get_account, and of its data the bytes from .. to - 1 of each field.
Read(what, key, fields) ==
  [call |-> "read", what |-> what, key |-> key, fields |-> fields]

AmountBytes == [amount |-> <<64, 72>>]

ReadLamports(what, key) == [call |-> "lamports", what |-> what, key |-> key]

Done    == todo = <<>>
Current == Head(todo)
Busy    == outcome = "running" /\ ~Done

\* A transaction lands whole, or its error leaves the ledger as it was.
Signed(c)   == \A i \in DOMAIN c.ixs : c.ixs[i].signers \subseteq c.keys
After(ixs)  == RunTransaction(ledger, ixs)
Accepted(c) == Signed(c) /\ After(c.ixs).err = "none"
Landed(ixs) == IF After(ixs).err = "none" THEN After(ixs) ELSE ledger

GoOn         == todo' = Tail(todo) /\ UNCHANGED outcome
Reported(what, value) == report' = With(report, what, value)
Shown(what, value)    == what \in DOMAIN report /\ report[what] = value

\* Mutant: the error is dropped and main goes on.
AfterError_Ignored == GoOn

\* `?` ends main (a missing signature panics before anything is sent).
AfterError == outcome' = "failed" /\ UNCHANGED todo

SendSucceeds ==
  /\ Busy /\ Current.call = "send"
  /\ Accepted(Current)
  /\ ledger' = After(Current.ixs)
  /\ GoOn
  /\ UNCHANGED report

SendFails ==
  /\ Busy /\ Current.call = "send"
  /\ ~Accepted(Current)
  /\ AfterError
  /\ UNCHANGED <<ledger, report>>

\* send_and_confirm_transaction gives up waiting, or a call fails: main ends
\* and the transaction may still land.
RpcFails ==
  /\ Busy
  /\ outcome' = "rpc_error"
  /\ \/ UNCHANGED ledger
     \/ Current.call = "send" /\ ledger' = Landed(Current.ixs)
  /\ UNCHANGED <<todo, report>>

\* The error is printed and main goes on.
SimulationEnds ==
  /\ Busy /\ Current.call = "simulate"
  /\ Reported(Current.what, After(Current.ixs).err)
  /\ GoOn
  /\ UNCHANGED ledger

ReadBytes ==
  /\ Busy /\ Current.call = "read"
  /\ Exists(ledger, Current.key)
  /\ Reported(Current.what,
           [f \in DOMAIN Current.fields |->
              BytesOf(ledger.accts[Current.key].data,
                      Current.fields[f][1], Current.fields[f][2])])
  /\ GoOn
  /\ UNCHANGED ledger

ReadBalance ==
  /\ Busy /\ Current.call = "lamports"
  /\ Exists(ledger, Current.key)
  /\ Reported(Current.what, ledger.accts[Current.key].lamports)
  /\ GoOn
  /\ UNCHANGED ledger

ClientStep == \/ SendSucceeds \/ SendFails \/ RpcFails
              \/ SimulationEnds \/ ReadBytes \/ ReadBalance

-----------------------------------------------------------------------------
(* Everybody else: any one instruction on the client's accounts for which
   they have the signatures. *)

TokenAccounts == {a \in DOMAIN ledger.accts : IsA(ledger, "account", a)}

\* Bound: an account is given one lamport, once (main deals in whole tens).
Givable == {k \in NewKeys : /\ Exists(ledger, k) /\ Of(ledger, k, "System")
                            /\ ledger.accts[k].lamports % 10 = 0}
Gifts   == {[op |-> "transfer", signers |-> {o}, to |-> k, lamports |-> 1] :
              o \in Others, k \in Givable}

TheirInstructions ==
  Gifts \cup
  UNION { {CreateAtaIx(o, w, m, p) : w \in Wallets}
            \cup {InitializeMint2Ix(p, m, o),
                  [op |-> "initFee", signers |-> {}, mint |-> m,
                   fee |-> [bps |-> 10000, max |-> MaxU64]]}
            \cup {MintToIx(p, m, a, o, 5) : a \in TokenAccounts}
            \cup {TransferCheckedIx(p, a, m, b, o, n) :
                    a, b \in TokenAccounts, n \in {0, 5}}
            \cup {[op |-> "harvest", signers |-> {}, from |-> a] :
                    a \in TokenAccounts}
          : o \in Others, m \in NewKeys, p \in TokenPrograms }

OthersAct ==
  /\ \E ix \in TheirInstructions :
       /\ ix.signers \subseteq Others
       /\ After(<<ix>>).err = "none"
       /\ ledger' = After(<<ix>>)
  /\ UNCHANGED <<todo, outcome, report>>

ClientInit ==
  /\ ledger = EmptyLedger
  /\ outcome = "running" /\ report = [what \in {} |-> what]

Next == ClientStep \/ OthersAct

-----------------------------------------------------------------------------
(* Properties *)

\* The types of mints, token accounts and outcomes; what is minted fits.
TypeOK ==
  /\ \A a \in DOMAIN ledger.accts :
       LET d == ledger.accts[a].data
       IN  \/ d.kind = "raw" /\ a \in NewKeys
           \/ d.kind = "mint" /\ a \in NewKeys
                /\ d.authority \in Wallets /\ d.supply \in 0 .. MaxU64
           \/ d.kind = "account"
                /\ d.owner \in Wallets /\ d.amount \in 0 .. MaxU64
                /\ d.withheld \in 0 .. MaxU64
  /\ ledger.err = "none"
  /\ outcome \in {"running", "failed", "rpc_error"}

\* main fails only when somebody else paid for a token account before it did:
\* create_ata uses the tag that refuses an existing account (06 main.rs 145,
\* 03 main.rs 201), and everything else main sends works whatever others do.
FailsOnlyOnForeignAta ==
  outcome = "failed" =>
    \E i \in DOMAIN Current.ixs :
      /\ Current.ixs[i].op = "createAta"
      /\ Exists(ledger, Current.ixs[i].ata)

-----------------------------------------------------------------------------
(* What main believes of the ledger, a view v: the System account it made and
   the least it holds; its mints, each with its program, its fields, what every
   wallet holds and the most an account has withheld; and the token accounts
   (wallet and mint) it has opened. *)

Row(program, data, held, cap) ==
  [program |-> program, data |-> data, held |-> held, cap |-> cap]

AtaIn(v, w, m) == Ata[w][m][v.mints[m].program]

Holding(m, w, amount, withheld) ==
  [TokenAccount(m, w) EXCEPT !.amount = amount, !.withheld = withheld]

IsPlain(v, a, x) ==
  /\ a \in v.plain
  /\ x.program = "System" /\ x.data = Raw(NoFee)
  /\ x.lamports \in Nat /\ x.lamports >= v.floor

IsMint(v, a, x) ==
  /\ a \in DOMAIN v.mints
  /\ x.program = v.mints[a].program /\ x.data = v.mints[a].data

IsHolding(v, a, x) ==
  \E m \in DOMAIN v.mints, w \in Wallets :
    /\ a = AtaIn(v, w, m)
    /\ x.program = v.mints[m].program
    /\ x.data.withheld \in 0 .. v.mints[m].cap
    /\ x.data = Holding(m, w, v.mints[m].held[w], x.data.withheld)

\* Nothing but what main made and what others opened for its mints is there.
Fits(l, v) ==
  /\ \A a \in DOMAIN l.accts :
       LET x == l.accts[a]
       IN  IsPlain(v, a, x) \/ IsMint(v, a, x) \/ IsHolding(v, a, x)
  /\ v.plain \cup DOMAIN v.mints \subseteq DOMAIN l.accts
  /\ \A e \in v.open : AtaIn(v, e[1], e[2]) \in DOMAIN l.accts
  /\ l.err = "none"

=============================================================================
