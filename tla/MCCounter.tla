------------------------------ MODULE MCCounter ------------------------------
(* Small instances of CounterProgram. *)
EXTENDS CounterProgram

CONSTANTS alice, bob, alicePda, aliceOther, bobPda

MCKeys  == {alice, bob}
MCPdas  == {alicePda, aliceOther, bobPda}
MCBumps == {0, 254, 255}

\* Alice has two bumps off the curve, so only one of them is canonical; Bob's
\* bump 255 lands on the curve and find_program_address must go down.
MCDerive == [k \in MCKeys |-> [b \in MCBumps |->
               CASE <<k, b>> = <<alice, 255>> -> alicePda
                 [] <<k, b>> = <<alice, 254>> -> aliceOther
                 [] <<k, b>> = <<bob, 254>>   -> bobPda
                 [] OTHER                     -> OnCurve]]

\* Also accounts of the program that are not counters.
MCLens    == {0, 8, 41}
MCRentMin == [l \in MCLens |-> IF l = 0 THEN 1 ELSE 2]

MCData == [count     : 0 .. MaxU64,
           authority : MCKeys \cup {System},
           bump      : MCBumps]
MCZeroData == [count |-> 0, authority |-> System, bump |-> 0]

\* What the other program may store in its own accounts: exact copies of a
\* counter, with the canonical and with the other bump.
MCForeignData ==
  {[count |-> 0, authority |-> alice, bump |-> b] : b \in {254, 255}}

MCFundingBoth == [k \in MCKeys |-> 4]
=============================================================================
