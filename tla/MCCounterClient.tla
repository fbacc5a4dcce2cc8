--------------------------- MODULE MCCounterClient ---------------------------
(* A small instance of CounterClient: the client, and Carol with a second key,
   Dave's, that can sign for an account of her own. *)
EXTENDS CounterClient

CONSTANTS Carol, Dave, alicePda, bobPda, carolPda, davePda

MCKeys  == {Alice, Bob, Carol, Dave}
MCPdas  == {alicePda, bobPda, carolPda, davePda}
MCBumps == {0, 254, 255}

MCDerive == [k \in MCKeys |-> [b \in MCBumps |->
               CASE <<k, b>> = <<Alice, 255>> -> alicePda
                 [] <<k, b>> = <<Bob, 254>>   -> bobPda
                 [] <<k, b>> = <<Carol, 255>> -> carolPda
                 [] <<k, b>> = <<Dave, 255>>  -> davePda
                 [] OTHER                     -> OnCurve]]

MCLens     == {0, 41}
MCRentMin  == [l \in MCLens |-> IF l = 0 THEN 1 ELSE 2]
MCData     == [count     : 0 .. MaxU64,
               authority : MCKeys \cup {System},
               bump      : MCBumps]
MCZeroData == [count |-> 0, authority |-> System, bump |-> 0]
\* What another program may store: a copy of Bob's counter.
MCForeignData == {[count |-> 7, authority |-> Bob, bump |-> 254]}
MCFunding  == [k \in MCKeys |-> IF k = Carol THEN 5 ELSE 0]
=============================================================================
