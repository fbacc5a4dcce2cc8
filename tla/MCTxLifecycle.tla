---------------------------- MODULE MCTxLifecycle ----------------------------
(* A small instance of TxLifecycle, and the header of every message of up to
   five accounts. *)
EXTENDS TxLifecycle, MessageHeader

\* Nothing, the fee alone, the first transaction alone, and plenty.
MCKeypairBalances == {0, 6000, 100005010, 150000000}

ASSUME FlagsAssumption == \A n \in 0 .. 5 : \A rank \in Orders(n) : FlagsDecoded(n, rank)
=============================================================================
