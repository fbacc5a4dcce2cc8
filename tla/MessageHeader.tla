---------------------------- MODULE MessageHeader ----------------------------
(***************************************************************************)
(* A transaction message says which accounts sign and which are writable   *)
(* only by their order and three counts.  `dissect` of exercise 04         *)
(* (04-transaction-lifecycle) decodes both flags from position and counts. *)
(***************************************************************************)
EXTENDS Integers, FiniteSets

\* The order of a message with n accounts: its account i is a writable signer
\* (0), a readonly signer (1), writable (2) or readonly (3).
Orders(n) == {rank \in [0 .. n - 1 -> 0 .. 3] :
                \A i, j \in 0 .. n - 1 : i <= j => rank[i] <= rank[j]}

Count(n, rank, kinds) == Cardinality({i \in 0 .. n - 1 : rank[i] \in kinds})

Header(n, rank) ==
  [num_required_signatures        |-> Count(n, rank, {0, 1}),
   num_readonly_signed_accounts   |-> Count(n, rank, {1}),
   num_readonly_unsigned_accounts |-> Count(n, rank, {3})]

IsSigner(h, i) == i < h.num_required_signatures

IsWritable(h, n, i) ==
  IF IsSigner(h, i)
  THEN i < h.num_required_signatures - h.num_readonly_signed_accounts
  ELSE i < n - h.num_readonly_unsigned_accounts

\* What dissect prints of account i is what the message says of it (main.rs
\* 85-91): no flag is one position off at any of the three boundaries.
FlagsDecoded(n, rank) ==
  \A i \in 0 .. n - 1 :
    /\ IsSigner(Header(n, rank), i)      <=> rank[i] \in {0, 1}
    /\ IsWritable(Header(n, rank), n, i) <=> rank[i] \in {0, 2}

=============================================================================
