------------------------- MODULE MCProfitDistributor -------------------------
(***************************************************************************)
(* Instances of ProfitDistributor for TLC.                                 *)
(***************************************************************************)
EXTENDS ProfitDistributor

CONSTANTS wpol, usdc, mkr

=============================================================================
