------------------------- MODULE MCAccountInspector -------------------------
(* Small parameters with every case of a rate: whole and not, zero, and an
   overhead that is not 128; balances at and beside the minimums. *)
EXTENDS AccountInspector

P(o, r, n, d) == [overhead |-> o, rate |-> r, num |-> n, den |-> d]

MCParams   == {P(128, 4, 2, 1), P(128, 3, 1, 1), P(128, 3, 1, 2), P(128, 0, 1, 1),
               P(127, 4, 2, 1)}
A(l, s) == [lamports |-> l, space |-> s]

MCAccounts == {A(0, 0), A(384, 0), A(1023, 0), A(1024, 0), A(1024, 1)}
=============================================================================
