------------------------------ MODULE MCAuthState ------------------------------
(***************************************************************************)
(* Instances of AuthState for TLC: the table's five rows, and the one the  *)
(* reading of restart-inheritance turns on.                                *)
(***************************************************************************)
EXTENDS AuthState

FiveStrategies == {"shared-lazy", "shared-file", "per-parallel-index", "per-worker-index", "per-test"}
PerTest == {"per-test"}
=============================================================================
