--------------------------- MODULE MCChargeJob ---------------------------
(* Small instances of ChargeJob for TLC.                                   *)
EXTENDS ChargeJob, TLC

CONSTANTS g0, g1

BothSupplies == {12, 24}
Only12 == {12}
LimitPlan == {"LIMIT"}
BothPlans == {"LIMIT", "AUTO"}

Guns == Permutations({g0, g1})
=============================================================================
