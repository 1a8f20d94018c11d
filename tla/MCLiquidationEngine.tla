------------------------- MODULE MCLiquidationEngine -------------------------
(***************************************************************************)
(* Instances of LiquidationEngine for TLC.                                 *)
(***************************************************************************)
EXTENDS LiquidationEngine

CONSTANTS weth, wbtc

MCAssets == {weth, wbtc}

(***************************************************************************)
(* A position; one with more debt, more of another collateral to seize and *)
(* other shares, which one quote cannot serve; and a seizure of nothing.   *)
(***************************************************************************)
Scanned == [debt |-> 1, seize |-> 1, coll |-> weth, shares |-> 1]
Shifted == [debt |-> 2, seize |-> 2, coll |-> wbtc, shares |-> 2]
Dust == [debt |-> 1, seize |-> 0, coll |-> wbtc, shares |-> 0]

MCProfiles == {Scanned, Shifted, Dust}

=============================================================================
