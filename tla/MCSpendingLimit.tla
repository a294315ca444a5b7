--------------------------- MODULE MCSpendingLimit ---------------------------
(* Small instances of SpendingLimit: periods that do not divide the        *)
(* capacity, so that the refill rounds; a fill that rounds down; caps      *)
(* below, at and above the capacity; a MaxU64 that two levels overflow.    *)
EXTENDS SpendingLimit

MCCapacities  == {2, 3}
MCPeriods     == {1, 2, 3, 4}
MCFillLevels  == {0, 5000, 10000}
MCTotalLimits == {0, 2, 4}
=============================================================================
