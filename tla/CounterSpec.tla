----------------------------- MODULE CounterSpec -----------------------------
(***************************************************************************)
(* What exercise 05 promises: every user has at most one counter, opened   *)
(* at zero and only ever added to, by a transaction that the user signed;  *)
(* the changes of a transaction take effect together or not at all.        *)
(* Accounts, addresses, seeds, rent and fees do not appear here.           *)
(***************************************************************************)
EXTENDS Integers

CONSTANTS Users, MaxCount

NoCounter == -1

VARIABLES
  committed,   \* user -> count, as anyone reads it
  tentative,   \* user -> count, as the running transaction reads it
  signers      \* who signed the running transaction; {} when none runs

absVars == <<committed, tentative, signers>>

Init ==
  /\ committed = [u \in Users |-> NoCounter]
  /\ tentative = committed
  /\ signers = {}

Begin(S) ==
  /\ signers = {} /\ S # {}
  /\ signers' = S
  /\ UNCHANGED <<committed, tentative>>

Open(u) ==
  /\ u \in signers
  /\ tentative[u] = NoCounter
  /\ tentative' = [tentative EXCEPT ![u] = 0]
  /\ UNCHANGED <<committed, signers>>

Add(u, n) ==
  /\ u \in signers
  /\ tentative[u] # NoCounter
  /\ tentative[u] + n <= MaxCount
  /\ tentative' = [tentative EXCEPT ![u] = @ + n]
  /\ UNCHANGED <<committed, signers>>

Commit ==
  /\ signers # {}
  /\ committed' = tentative
  /\ signers' = {}
  /\ UNCHANGED tentative

Abort ==
  /\ signers # {}
  /\ tentative' = committed
  /\ signers' = {}
  /\ UNCHANGED committed

Next ==
  \/ \E S \in SUBSET Users : Begin(S)
  \/ \E u \in Users : Open(u) \/ \E n \in 0 .. MaxCount : Add(u, n)
  \/ Commit
  \/ Abort

Spec == Init /\ [][Next]_absVars

=============================================================================
