------------------------------ MODULE MCAnchor ------------------------------
(* A small instance of AnchorCounter. *)
EXTENDS AnchorCounter

CONSTANTS alice, bob

MCKeys    == {alice, bob}
MCPdas    == {CounterPda}
MCLens    == {0, 48}
MCRentMin == [l \in MCLens |-> IF l = 0 THEN 1 ELSE 3]
MCData    == [tag       : {"none", "Counter"},
              count     : 0 .. MAX_COUNT,
              authority : MCKeys \cup {System}]
MCZeroData == [tag |-> "none", count |-> 0, authority |-> System]

\* Another program's copy of a counter, discriminator included.
MCForeignData == {[tag |-> "Counter", count |-> 0, authority |-> alice]}

MCFunding == [k \in MCKeys |-> IF k = alice THEN 8 ELSE 2]
=============================================================================
