------------------------- MODULE MCValidatorHarness -------------------------
(* Two runs, one after the other or at the same time, of nine pairs of
   scripts. *)
EXTENDS ValidatorHarness

CONSTANTS r1, r2

MCRuns == {r1, r2}
MCLaunches == {f \in [MCRuns -> {"hello", "hello --keep", "run", "counter"}] :
                 f[r1] # "run" /\ f[r2] # "hello --keep"}
=============================================================================
