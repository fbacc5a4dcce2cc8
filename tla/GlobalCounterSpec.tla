-------------------------- MODULE GlobalCounterSpec --------------------------
(***************************************************************************)
(* What exercise 07 promises: one counter for the whole program.  The      *)
(* first user whose transaction takes effect owns it for good; only the    *)
(* owner counts, by ones, up to Limit; a transaction takes effect as a     *)
(* whole or not at all.                                                    *)
(***************************************************************************)
EXTENDS Integers

CONSTANTS Users, Nobody, Limit

VARIABLES
  committed,   \* [owner, count] as anyone reads it
  tentative,   \* [owner, count] as the running transaction reads it
  signers      \* who signed the running transaction; {} when none runs

absVars == <<committed, tentative, signers>>

Unowned == [owner |-> Nobody, count |-> 0]

Init ==
  /\ committed = Unowned
  /\ tentative = Unowned
  /\ signers = {}

Begin(S) ==
  /\ signers = {} /\ S # {}
  /\ signers' = S
  /\ UNCHANGED <<committed, tentative>>

Claim(u) ==
  /\ u \in signers
  /\ tentative = Unowned
  /\ tentative' = [owner |-> u, count |-> 0]
  /\ UNCHANGED <<committed, signers>>

CountUp ==
  /\ tentative.owner \in signers
  /\ tentative.count < Limit
  /\ tentative' = [owner |-> tentative.owner, count |-> tentative.count + 1]
  /\ UNCHANGED <<committed, signers>>

Commit ==
  /\ signers # {}
  /\ committed' = tentative
  /\ signers' = {}
  /\ UNCHANGED tentative

Abort ==
  /\ signers # {}
  /\ tentative' = committed
  /\ signers' = {}
  /\ UNCHANGED committed

Next ==
  \/ \E S \in SUBSET Users : Begin(S)
  \/ \E u \in Users : Claim(u)
  \/ CountUp
  \/ Commit
  \/ Abort

Spec == Init /\ [][Next]_absVars

=============================================================================
