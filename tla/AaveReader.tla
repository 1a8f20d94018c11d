------------------------------ MODULE AaveReader ------------------------------
(***************************************************************************)
(* How an Aave position is sized for a liquidation: evaluate_borrower of   *)
(* adapters/aave_protocol_adapter.rs, for a scan or a refresh, over the    *)
(* arithmetic of adapters/helpers/aave_math_helpers.rs.                    *)
(*                                                                         *)
(* Health factor, reserves, debt, balances and prices come from calls of   *)
(* their own and need not be of one block: each answer is any at all.      *)
(* Numbers are naturals; the code's products are checked, and one too wide *)
(* loses the collateral it is about as a failed call does.                 *)
(***************************************************************************)
EXTENDS Integers

CONSTANTS
  Reserves,       \* the pool's assets
  NoReserve,      \* no asset
  Mapped,         \* the reserves whose vDebt token the configuration knows
  Unit,           \* 10^decimals of each reserve
  Bps,            \* 10,000
  HfOne,          \* 10^18
  CloseThreshold, \* the health factor below which all debt may be repaid
  HealthFactors,  \* bounds: what the node may answer
  Debts,
  Balances,
  AssetPrices,
  Bonuses

ASSUME AaveAssumption ==
  /\ NoReserve \notin Reserves
  /\ Mapped \subseteq Reserves
  /\ Unit \in [Reserves -> Nat \ {0}]
  /\ Bps \in Nat \ {0}
  /\ HfOne \in Nat /\ CloseThreshold \in Nat
  /\ HealthFactors \subseteq Nat /\ Debts \subseteq Nat /\ Balances \subseteq Nat
  /\ AssetPrices \subseteq Nat /\ Bonuses \subseteq Nat

(***************************************************************************)
(* What the calls about one collateral answer.  The asset's price is asked *)
(* for twice: to size the seizure, and to value it.                        *)
(***************************************************************************)
Answers ==
  [bonus : Bonuses, balance : Balances,
   price : AssetPrices, debtPrice : AssetPrices, again : AssetPrices]

(* liquidation_bonus_bps *)
ValidBonus(b) == Bps <= b /\ b <= 2 * Bps

(* close_factor_bps *)
CloseFactor(h) == IF h < CloseThreshold THEN Bps ELSE Bps \div 2

(* Mutant: rounded up. *)
ApplyCloseFactorUp(d, h) == (d * CloseFactor(h) + Bps - 1) \div Bps

(* apply_close_factor *)
ApplyCloseFactor(d, h) == (d * CloseFactor(h)) \div Bps

(***************************************************************************)
(* estimate_seizable_collateral_amount: what Aave gives of r for repaying  *)
(* c of the reserve d.                                                     *)
(***************************************************************************)
SeizableCollateral(c, d, r, a) ==
  (c * a.debtPrice * Unit[r] * a.bonus) \div (a.price * Bps * Unit[d])

(* What is seized: no more than the borrower has. *)
Seize(c, d, r, a) ==
  LET s == SeizableCollateral(c, d, r, a) IN IF a.balance < s THEN a.balance ELSE s

-----------------------------------------------------------------------------
VARIABLES
  reading,    \* where the evaluation is: "idle", "account", "reserves",
              \* "search", "debt", "collateral", "decimals", "some", "none"
  target,     \* the reserve a refresh names; NoReserve in a scan
  health,     \* the health factor read
  owing,      \* reserves with variable debt, not yet asked about
  unasked,    \* enabled collaterals not yet asked about
  debtAsset,  \* the reserve to repay
  owes,       \* the debt read
  offers,     \* what was answered of each collateral worth seizing
  candidate   \* the profile

aaveVars ==
  <<reading, target, health, owing, unasked, debtAsset, owes, offers, candidate>>

NoCandidate == [asset |-> NoReserve, seize |-> 0]

Cover == ApplyCloseFactor(owes, health)

SeizeOf(r, a) == Seize(Cover, debtAsset, r, a)

(* The value a collateral is ranked by. *)
ValueOf(r) == (SeizeOf(r, offers[r]) * offers[r].again) \div Unit[r]

AaveInit ==
  /\ reading = "idle"
  /\ target = NoReserve
  /\ health = 0
  /\ owing = {}
  /\ unasked = {}
  /\ debtAsset = NoReserve
  /\ owes = 0
  /\ offers = [r \in {} |-> 0]
  /\ candidate = NoCandidate

(* fetch_liquidation_candidates evaluates each borrower once, whatever the *)
(* number of reserves tracked for it; refresh_borrower names a reserve.    *)
EvaluateBorrower ==
  /\ reading = "idle"
  /\ reading' = "account"
  /\ target' \in Reserves \cup {NoReserve}
  /\ UNCHANGED <<health, owing, unasked, debtAsset, owes, offers, candidate>>

FetchAccount ==
  /\ reading = "account"
  /\ health' \in HealthFactors
  /\ reading' = IF health' >= HfOne THEN "none" ELSE "reserves"
  /\ UNCHANGED <<target, owing, unasked, debtAsset, owes, offers, candidate>>

(* A debt reserve without a vDebt token ends the evaluation. *)
SettleOn(r) ==
  /\ debtAsset' = r
  /\ reading' = IF r \in Mapped THEN "debt" ELSE "none"

FetchReserves ==
  /\ reading = "reserves"
  /\ unasked' \in SUBSET Reserves
  /\ \/ /\ unasked' = {}
        /\ reading' = "none"
        /\ UNCHANGED <<owing, debtAsset>>
     \/ /\ unasked' # {}
        /\ target # NoReserve
        /\ SettleOn(target)
        /\ UNCHANGED owing
     \/ /\ unasked' # {}
        /\ target = NoReserve
        /\ reading' = "search"
        /\ owing' \in SUBSET Reserves
        /\ UNCHANGED debtAsset
  /\ UNCHANGED <<target, health, owes, offers, candidate>>

(***************************************************************************)
(* The first reserve with an outstanding debt, in the provider's order; an *)
(* error of has_outstanding_debt, as for a reserve that is not mapped,     *)
(* passes on to the next.                                                  *)
(***************************************************************************)
SearchDebt ==
  /\ reading = "search"
  /\ \/ /\ owing = {}
        /\ reading' = "none"
        /\ UNCHANGED <<owing, debtAsset>>
     \/ \E r \in owing :
          \/ /\ owing' = owing \ {r}
             /\ UNCHANGED <<reading, debtAsset>>
          \/ /\ r \in Mapped
             /\ SettleOn(r)
             /\ UNCHANGED owing
  /\ UNCHANGED <<target, health, unasked, owes, offers, candidate>>

(* compute_debt_to_cover *)
FetchDebt ==
  /\ reading = "debt"
  /\ owes' \in Debts
  /\ reading' = IF ApplyCloseFactor(owes', health) = 0 THEN "none" ELSE "collateral"
  /\ UNCHANGED <<target, health, owing, unasked, debtAsset, offers, candidate>>

(***************************************************************************)
(* The calls about one collateral of select_collateral_candidate, which    *)
(* run concurrently with those about the others and share nothing with     *)
(* them.  Failed calls, a bonus out of bounds and a zero price only lose   *)
(* this collateral.                                                        *)
(***************************************************************************)
Appraise(r) ==
  /\ reading = "collateral"
  /\ r \in unasked
  /\ unasked' = unasked \ {r}
  /\ \/ UNCHANGED offers
     \/ \E a \in Answers :
          /\ ValidBonus(a.bonus)
          /\ a.price # 0
          /\ SeizeOf(r, a) # 0
          /\ offers' = [s \in DOMAIN offers \cup {r} |-> IF s = r THEN a ELSE offers[s]]
  /\ UNCHANGED <<reading, target, health, owing, debtAsset, owes, candidate>>

(* The first of the candidates sorted by value, the highest first. *)
RanksFirst(r) == \A s \in DOMAIN offers : ValueOf(s) <= ValueOf(r)

(* Mutant: any error among the collaterals ends the selection. *)
SelectUnlessErrors ==
  /\ reading = "collateral"
  /\ unasked = {}
  /\ reading' = "none"
  /\ UNCHANGED <<target, health, owing, unasked, debtAsset, owes, offers, candidate>>

SelectCollateral ==
  /\ reading = "collateral"
  /\ unasked = {}
  /\ \/ /\ DOMAIN offers = {}
        /\ reading' = "none"
        /\ UNCHANGED candidate
     \/ \E r \in DOMAIN offers :
          /\ RanksFirst(r)
          /\ candidate' = [asset |-> r, seize |-> SeizeOf(r, offers[r])]
          /\ reading' = "decimals"
  /\ UNCHANGED <<target, health, owing, unasked, debtAsset, owes, offers>>

FetchTokenDecimals ==
  /\ reading = "decimals"
  /\ reading' = "some"
  /\ UNCHANGED <<target, health, owing, unasked, debtAsset, owes, offers, candidate>>

(* A failed call is no candidate, which refresh_borrower makes an error. *)
EvaluationFails ==
  /\ reading \in {"account", "reserves", "debt", "decimals"}
  /\ reading' = "none"
  /\ candidate' = NoCandidate
  /\ UNCHANGED <<target, health, owing, unasked, debtAsset, owes, offers>>

AaveNext ==
  \/ EvaluateBorrower
  \/ FetchAccount
  \/ FetchReserves
  \/ SearchDebt
  \/ FetchDebt
  \/ \E r \in Reserves : Appraise(r)
  \/ SelectCollateral
  \/ FetchTokenDecimals
  \/ EvaluationFails

AaveSpec == AaveInit /\ [][AaveNext]_aaveVars

-----------------------------------------------------------------------------
AaveTypeOK ==
  /\ reading \in {"idle", "account", "reserves", "search", "debt", "collateral",
                  "decimals", "some", "none"}
  /\ target \in Reserves \cup {NoReserve}
  /\ health \in HealthFactors \cup {0}
  /\ owing \subseteq Reserves /\ unasked \subseteq Reserves
  /\ debtAsset \in Reserves \cup {NoReserve}
  /\ owes \in Debts \cup {0}
  /\ \E S \in SUBSET Reserves : offers \in [S -> Answers]
  /\ candidate \in [asset : Reserves \cup {NoReserve}, seize : Nat]

(***************************************************************************)
(* Aave can execute what the reader asks for, at the prices and balances   *)
(* it read.  The flash loan is no more than Aave lets be repaid: the debt, *)
(* or half of it while the health factor is not below the threshold.  The  *)
(* swap sells no more than the borrower has, and no more than repaying the *)
(* loan is worth with the bonus: every rounding, in the close factor and   *)
(* between the decimals of two tokens, goes down.                          *)
(***************************************************************************)
WithinCloseFactor ==
  /\ Cover <= owes
  /\ health >= CloseThreshold => 2 * Cover <= owes

SeizureCovered(r, a) ==
  /\ candidate.seize <= a.balance
  /\ candidate.seize * a.price * Bps * Unit[debtAsset]
       <= Cover * a.debtPrice * Unit[r] * a.bonus

AaveExecutable ==
  reading \in {"decimals", "some"} =>
    /\ debtAsset \in Mapped
    /\ target # NoReserve => debtAsset = target
    /\ Cover # 0 /\ candidate.seize # 0
    /\ WithinCloseFactor
    /\ SeizureCovered(candidate.asset, offers[candidate.asset])

(***************************************************************************)
(* One collateral whose calls fail, or whose bonus or price is of no use,  *)
(* costs the liquidation only that collateral: as long as another is worth *)
(* seizing there is a profile, and it seizes the one worth most.           *)
(***************************************************************************)
BestCollateral ==
  [][reading = "collateral" /\ reading' # "collateral" /\ DOMAIN offers # {} =>
       /\ reading' = "decimals"
       /\ \A r \in DOMAIN offers :
            ValueOf(r) <= ValueOf(candidate'.asset)]_aaveVars

=============================================================================
