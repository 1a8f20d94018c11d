----------------------------- MODULE MorphoReader -----------------------------
(***************************************************************************)
(* How a Morpho position is sized for a liquidation: evaluate_target and   *)
(* refresh_borrower of adapters/morpho_protocol_adapter.rs, over the       *)
(* fixed-point arithmetic of adapters/helpers/morpho_math_helpers.rs.      *)
(*                                                                         *)
(* The position, the market and the price come from calls of their own,    *)
(* so the three answers need not be of one block: each is any answer.      *)
(* Numbers are naturals.  The code's are 256 bits wide and the products it *)
(* forms, of 128-bit amounts, prices and scales, are checked: a product    *)
(* too wide panics as a zero price does.                                   *)
(***************************************************************************)
EXTENDS Integers

CONSTANTS
  Wad,           \* 10^18: the fixed-point one
  PriceScale,    \* oracle_price_scale, 10^36
  Cursor,        \* LIQUIDATION_CURSOR, 0.3 Wad
  MaxIncentive,  \* MAX_LIQUIDATION_INCENTIVE_FACTOR, 1.15 Wad
  VirtualAssets, \* 1
  VirtualShares, \* 10^6
  Lltv,          \* the market's liquidation loan-to-value
  MaxAmount,     \* bound: position and market amounts
  MaxPrice       \* bound: the oracle's price

ASSUME ScaleAssumption ==
  /\ Wad \in Nat \ {0} /\ PriceScale \in Nat \ {0}
  /\ Cursor \in 0 .. Wad - 1
  /\ Lltv \in 0 .. Wad
  /\ MaxIncentive \in Nat /\ MaxIncentive >= Wad
  /\ VirtualAssets \in Nat \ {0} /\ VirtualShares \in Nat \ {0}
  /\ MaxAmount \in Nat /\ MaxPrice \in Nat

Amounts == 0 .. MaxAmount
Prices == 0 .. MaxPrice
Positions == [shares : Amounts, collateral : Amounts]
Markets == [assets : Amounts, shares : Amounts]

-----------------------------------------------------------------------------
(* The arithmetic.  A zero divisor panics; see Panics. *)

MulDivDown(a, b, d) == (a * b) \div d

MulDivUp(a, b, d) == IF a * b = 0 THEN 0 ELSE (a * b + d - 1) \div d

WMulDown(a, b) == MulDivDown(a, b, Wad)
WDivDown(a, b) == MulDivDown(a, Wad, b)
WDivUp(a, b) == MulDivUp(a, Wad, b)

ToAssetsDown(s, m) == MulDivDown(s, m.assets + VirtualAssets, m.shares + VirtualShares)
ToAssetsUp(s, m) == MulDivUp(s, m.assets + VirtualAssets, m.shares + VirtualShares)
ToSharesUp(a, m) == MulDivUp(a, m.shares + VirtualShares, m.assets + VirtualAssets)

(* incentive_factor *)
IncentiveFactor ==
  LET lif == WDivDown(Wad, Wad - WMulDown(Cursor, Wad - Lltv))
  IN  IF MaxIncentive < lif THEN MaxIncentive ELSE lif

(* The collateral that repaying some assets is worth, incentive included. *)
CollateralFor(assets, price) ==
  MulDivDown(WMulDown(assets, IncentiveFactor), PriceScale, price)

SeizedFromRepaidShares(s, m, price) == CollateralFor(ToAssetsDown(s, m), price)

(***************************************************************************)
(* repaid_assets_from_seized_collateral, and the shares it rests on: what  *)
(* Morpho takes off the position, and pulls, for collateral seized.        *)
(***************************************************************************)
RepaidSharesFromSeized(seized, m, price) ==
  ToSharesUp(WDivUp(MulDivUp(seized, price, PriceScale), IncentiveFactor), m)

RepaidAssetsFromSeized(seized, m, price) ==
  ToAssetsUp(RepaidSharesFromSeized(seized, m, price), m)

(* Position::is_healthy *)
IsHealthy(p, m, price) ==
  ToAssetsUp(p.shares, m)
    <= WMulDown(MulDivDown(p.collateral, price, PriceScale), Lltv)

-----------------------------------------------------------------------------
VARIABLES
  at,       \* where the call is: "idle", "check", "fetch", "price",
            \* "decimals", or its end: "some", "none", "error", "panicked"
  position, \* the position read
  market,   \* the market read
  price,    \* the price read
  profile   \* the profile built: repaid_shares, seized_assets,
            \* debt_to_cover and seize_amount

vars == <<at, position, market, price, profile>>

Ends == {"some", "none", "error", "panicked"}

NoPosition == [shares |-> 0, collateral |-> 0]
NoMarket == [assets |-> 0, shares |-> 0]
NoProfile == [repaid |-> 0, seized |-> 0, debt |-> 0, swap |-> 0]

Init ==
  /\ at = "idle"
  /\ position = NoPosition
  /\ market = NoMarket
  /\ price = 0
  /\ profile = NoProfile

(* fetch_liquidation_candidates evaluates an identity at once. *)
Scan ==
  /\ at = "idle"
  /\ at' = "fetch"
  /\ UNCHANGED <<position, market, price, profile>>

(* refresh_borrower asks for the position first. *)
Refresh ==
  /\ at = "idle"
  /\ at' = "check"
  /\ UNCHANGED <<position, market, price, profile>>

CheckPosition ==
  /\ at = "check"
  /\ \E p \in Positions : at' = IF p.shares = 0 THEN "error" ELSE "fetch"
  /\ UNCHANGED <<position, market, price, profile>>

(* The three calls of try_join; the market's parameters do not change. *)
FetchPosition ==
  /\ at = "fetch"
  /\ position' \in Positions
  /\ market' \in Markets
  /\ at' = IF position'.shares = 0 THEN "none" ELSE "price"
  /\ UNCHANGED <<price, profile>>

(***************************************************************************)
(* What evaluate_target makes of its answers, from the health check on.    *)
(***************************************************************************)

(* Mutant: the totals are swapped. *)
DebtInShares ==
  MulDivDown(position.shares, market.shares + VirtualShares, market.assets + VirtualAssets)

Debt == ToAssetsDown(position.shares, market)

(* The divisions by the price are reached only by a debt that is not dust. *)
Panics(q) == Debt # 0 /\ q = 0

(* Mutant: a position whose collateral does not cover its debt is left. *)
LiquidatableCovered(q) ==
  /\ ~IsHealthy(position, market, q)
  /\ Debt # 0
  /\ q # 0 => position.collateral >= CollateralFor(Debt, q)

Liquidatable(q) == ~IsHealthy(position, market, q) /\ Debt # 0

(* Mutant: assets are given for shares. *)
RepayAssets(q) ==
  LET swap == SeizedFromRepaidShares(position.shares, market, q)
  IN  [repaid |-> Debt, seized |-> 0, debt |-> Debt, swap |-> swap]

RepayShares(q) ==
  LET swap == SeizedFromRepaidShares(position.shares, market, q)
  IN  [repaid |-> position.shares, seized |-> 0, debt |-> Debt, swap |-> swap]

SeizeCollateral ==
  [repaid |-> 0, seized |-> position.collateral, debt |-> Debt,
   swap |-> position.collateral]

(* Mutant: repays in full whatever the collateral is worth. *)
SizeInFull(q) == RepayShares(q)

(* The whole debt if the collateral is worth it, else the whole collateral. *)
Size(q) ==
  IF position.collateral >= CollateralFor(Debt, q) THEN RepayShares(q)
  ELSE SeizeCollateral

(* The oracle's answer, and the evaluation that follows without an await. *)
FetchPrice ==
  /\ at = "price"
  /\ \E q \in Prices :
       /\ price' = q
       /\ \/ /\ ~Liquidatable(q)
             /\ at' = "none"
             /\ UNCHANGED profile
          \/ /\ Liquidatable(q)
             /\ Panics(q)
             /\ at' = "panicked"
             /\ UNCHANGED profile
          \/ /\ Liquidatable(q)
             /\ ~Panics(q)
             /\ Size(q).swap = 0
             /\ at' = "none"
             /\ UNCHANGED profile
          \/ /\ Liquidatable(q)
             /\ ~Panics(q)
             /\ Size(q).swap # 0
             /\ profile' = Size(q)
             /\ at' = "decimals"
  /\ UNCHANGED <<position, market>>

FetchDecimals ==
  /\ at = "decimals"
  /\ at' = "some"
  /\ UNCHANGED <<position, market, price, profile>>

(***************************************************************************)
(* A failed call leaves no candidate ("none", which refresh_borrower turns *)
(* into an error); a failed check is an error at once.                     *)
(***************************************************************************)
CallFails ==
  /\ at \in {"check", "fetch", "price", "decimals"}
  /\ at' = IF at = "check" THEN "error" ELSE "none"
  /\ profile' = NoProfile
  /\ UNCHANGED <<position, market, price>>

Next ==
  \/ Scan
  \/ Refresh
  \/ CheckPosition
  \/ FetchPosition
  \/ FetchPrice
  \/ FetchDecimals
  \/ CallFails

Spec == Init /\ [][Next]_vars

-----------------------------------------------------------------------------
Profiles ==
  [repaid : Amounts, seized : Amounts, debt : Nat, swap : Nat]

TypeOK ==
  /\ at \in {"idle", "check", "fetch", "price", "decimals"} \cup Ends
  /\ position \in Positions
  /\ market \in Markets
  /\ price \in Prices
  /\ profile \in Profiles

(***************************************************************************)
(* Morpho executes what the reader asks for, whatever was read: it is      *)
(* given either shares or collateral; it seizes no more than the position  *)
(* has and takes off no more shares than it has, although it rounds up;    *)
(* and the swap sells exactly what is seized.  Morpho itself is external:  *)
(* what it does is taken from the comments of morpho_math_helpers.rs.      *)
(***************************************************************************)
Accepted(s) ==
  /\ (profile.repaid = 0) # (profile.seized = 0)
  /\ \/ /\ profile.seized = 0
        /\ profile.repaid <= s.shares
        /\ SeizedFromRepaidShares(profile.repaid, market, price) = profile.swap
        /\ profile.swap <= s.collateral
     \/ /\ profile.repaid = 0
        /\ RepaidSharesFromSeized(profile.seized, market, price) <= s.shares
        /\ profile.seized = profile.swap
        /\ profile.swap <= s.collateral

Executable == at = "some" => profile.swap # 0 /\ Accepted(position)

(***************************************************************************)
(* The debt to cover, which is what is borrowed by the flash loan, falls   *)
(* short of what Morpho pulls by one unit of the loan asset at most, on    *)
(* the market as it was read: to_assets_down against Morpho's to_assets_up.*)
(***************************************************************************)
Pulled ==
  IF profile.seized = 0 THEN ToAssetsUp(profile.repaid, market)
  ELSE RepaidAssetsFromSeized(profile.seized, market, price)

FlashShortByOne == at \in {"decimals", "some"} => Pulled <= profile.debt + 1

(***************************************************************************)
(* An unhealthy position is passed over only when a call fails, when its   *)
(* debt is dust, or when there is nothing to seize: neither what repaying  *)
(* it in full is worth nor its collateral, whichever is less.              *)
(***************************************************************************)
Overlooked(q) ==
  /\ ~IsHealthy(position, market, q)
  /\ Debt # 0
  /\ q # 0
  /\ position.collateral # 0
  /\ CollateralFor(Debt, q) # 0

NothingOverlooked ==
  [][at = "price" /\ at' = "none" /\ price' # price => ~Overlooked(price')]_vars

=============================================================================
