---------------------------- MODULE MCInterpBudgets ----------------------------
(* InterpBudgets on small instances.  All data is numbers already small, so   *)
(* the model adds only the sets a .cfg cannot write.                          *)
EXTENDS InterpBudgets

RequestsWithNegative == {-1, 1, 2}
================================================================================
