-------------------------- MODULE AccountInspector --------------------------
(***************************************************************************)
(* inspect-account.py of exercise 02: it reads an account, the Rent sysvar *)
(* and three answers of `solana rent`, one command each, and checks them   *)
(* against each other while the cluster may change both the account and    *)
(* its rent parameters.                                                    *)
(***************************************************************************)
EXTENDS Integers, Sequences

CONSTANTS
  Params,    \* rent parameters a cluster may have
  Accounts   \* [lamports, space] of the account under inspection

\* The threshold is a double, so a fraction; the overhead is in no sysvar.
ASSUME ParamsAssumption ==
  /\ \A p \in Params : /\ p.overhead \in Nat /\ p.rate \in Nat
                       /\ p.num \in Nat /\ p.den \in Nat \ {0}
  /\ \A a \in Accounts : a.lamports \in Nat /\ a.space \in Nat

VARIABLES
  cluster,   \* its parameters and the account
  reads,     \* the commands that have returned, in order
  seen,      \* what they returned
  check,     \* the verdicts of the three cross-checks
  paramsAt   \* history: the cluster's parameters at each read

vars == <<cluster, reads, seen, check, paramsAt>>

Commands == <<"account", "rent sysvar", "rent space", "rent 0", "rent 1">>

\* Mutant: the overhead is one byte short.
STORAGE_OVERHEAD_Short == 127

STORAGE_OVERHEAD == 128

\* Multiplied as doubles, then cut to an integer: the script and the cluster.
MinimumBalance(overhead, p, space) == ((overhead + space) * p.rate * p.num) \div p.den

RpcRent(space) == MinimumBalance(cluster.params.overhead, cluster.params, space)
Minimum        == MinimumBalance(STORAGE_OVERHEAD, seen["rent sysvar"], seen["account"].space)

\* Mutant: the account's size is looked up again for `solana rent`.
AskedSpace_Now == cluster.account.space

AskedSpace == seen["account"].space

Answer(cmd) == CASE cmd = "account"     -> cluster.account
                 [] cmd = "rent sysvar" -> cluster.params
                 [] cmd = "rent space"  -> RpcRent(AskedSpace)
                 [] cmd = "rent 0"      -> RpcRent(0)
                 [] cmd = "rent 1"      -> RpcRent(1)

Next1 == Commands[Len(reads) + 1]
Busy  == Len(reads) < Len(Commands)

\* A command that fails ends the script; an account without lamports is none.
ReadOne ==
  /\ Busy
  /\ (Next1 = "account" => cluster.account.lamports > 0)
  /\ reads' = Append(reads, Next1)
  /\ seen' = [seen EXCEPT ![Next1] = Answer(Next1)]
  /\ paramsAt' = [paramsAt EXCEPT ![Next1] = cluster.params]
  /\ UNCHANGED <<cluster, check>>

Verdict(ok) == IF ok THEN "OK" ELSE "MISMATCH"

\* A quotient of integers is 128 exactly when it is within 1e-9 of it; when
\* rent(0) = rent(1) it is not a number.
Overhead128(zero, one) == one # zero /\ zero = STORAGE_OVERHEAD * (one - zero)

\* Mutant: an account with just the minimum is not exempt.
Exempt_Above(balance, minimum) == balance > minimum

Exempt(balance, minimum) == balance >= minimum

Verdicts == << Verdict(seen["rent space"] = Minimum),
               Verdict(Overhead128(seen["rent 0"], seen["rent 1"])),
               Exempt(seen["account"].lamports, Minimum) >>

CrossCheck ==
  /\ ~Busy /\ check = <<>>
  /\ check' = Verdicts
  /\ UNCHANGED <<cluster, reads, seen, paramsAt>>

-----------------------------------------------------------------------------
(* The cluster (external). *)

ParametersChange ==
  /\ \E p \in Params : cluster' = [cluster EXCEPT !.params = p]
  /\ UNCHANGED <<reads, seen, check, paramsAt>>

AccountChanges ==
  /\ \E a \in Accounts : cluster' = [cluster EXCEPT !.account = a]
  /\ UNCHANGED <<reads, seen, check, paramsAt>>

Names == {"account", "rent sysvar", "rent space", "rent 0", "rent 1"}

Init ==
  /\ cluster \in [params : Params, account : Accounts]
  /\ reads = <<>> /\ check = <<>>
  /\ seen = [c \in Names |-> "unread"]
  /\ paramsAt = seen

Next == ReadOne \/ CrossCheck \/ ParametersChange \/ AccountChanges

Spec == Init /\ [][Next]_vars

-----------------------------------------------------------------------------
(* Properties *)

Unchanged(cmds) == \A c, d \in cmds : paramsAt[c] = paramsAt[d]

WholeRate(p) == p.rate * p.num > 0 /\ (p.rate * p.num) % p.den = 0

\* As long as the parameters stay the same between the commands, and a byte
\* costs a whole number of lamports, the first two cross-checks both say
\* whether the cluster's overhead is the 128 bytes assumed (lines 17, 102-111),
\* whatever happens to the account.
ChecksDecideOverhead ==
  check # <<>> =>
    LET p == paramsAt["rent sysvar"]
    IN  Unchanged({"rent sysvar", "rent space", "rent 0", "rent 1"}) /\ WholeRate(p)
          => /\ check[1] = Verdict(p.overhead = 128)
             /\ check[2] = Verdict(p.overhead = 128)

\* The verdict on the account is the cluster's own for the account it read,
\* when the parameters had not changed before they were read (lines 113-119)
\* and the first check agrees.
ExemptAsTheClusterSays ==
  check # <<>> /\ Unchanged({"account", "rent sysvar", "rent space"}) /\ check[1] = "OK" =>
    LET a == seen["account"]  p == paramsAt["account"]
    IN  check[3] = (a.lamports >= MinimumBalance(p.overhead, p, a.space))

\* The inductive invariant: which commands have returned, each with what the
\* cluster's parameters of that moment make it say, whatever they are now; and
\* the verdicts are still those of the answers.
TypeOK ==
  /\ cluster \in [params : Params, account : Accounts]
  /\ reads \in Seq(Names) /\ Len(reads) <= Len(Commands)
  /\ DOMAIN seen = Names /\ DOMAIN paramsAt = Names

RentAt(cmd, space) ==
  LET p == paramsAt[cmd] IN MinimumBalance(p.overhead, p, space)

AnswersExplained ==
  /\ Len(reads) >= 1 => seen["account"] \in Accounts /\ paramsAt["account"] \in Params
  /\ Len(reads) >= 2 => /\ paramsAt["rent sysvar"] \in Params
                        /\ seen["rent sysvar"] = paramsAt["rent sysvar"]
  /\ Len(reads) >= 3 => /\ paramsAt["rent space"] \in Params
                        /\ seen["rent space"] = RentAt("rent space", seen["account"].space)
  /\ Len(reads) >= 4 => /\ paramsAt["rent 0"] \in Params
                        /\ seen["rent 0"] = RentAt("rent 0", 0)
  /\ Len(reads) >= 5 => /\ paramsAt["rent 1"] \in Params
                        /\ seen["rent 1"] = RentAt("rent 1", 1)

VerdictsStand == check # <<>> => ~Busy /\ check = Verdicts

InspectorInv == TypeOK /\ AnswersExplained /\ VerdictsStand

=============================================================================
