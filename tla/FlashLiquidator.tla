--------------------------- MODULE FlashLiquidator ---------------------------
(***************************************************************************)
(* External: the flash liquidator contract, the wallet that calls it and   *)
(* the pool its transactions wait in, as profit_distributor.rs and         *)
(* liq_data_extractor.rs use them through common/abi_bindings.rs.          *)
(*                                                                         *)
(* A liquidation adds its profit to what the contract has accumulated of   *)
(* an asset; refuelGas turns accumulated WPOL into the wallet's gas;       *)
(* distributeProfits pays out all of an asset.  Both are transactions the  *)
(* wallet pays for: the node takes none it has not the gas for, and a      *)
(* block includes none, reverted or not, without charging it.              *)
(* Liquidations and distributions are logged.  A log may be delivered      *)
(* again, of another block, when the chain is reorganised.                 *)
(***************************************************************************)
EXTENDS Integers, Sequences, FiniteSets

CONSTANTS
  Assets,      \* the tokens
  Collaterals, \* those that collateral is held in
  Wpol,        \* the token gas is paid from
  Fee,         \* what the wallet must hold for a transaction, the most it costs
  Slots,       \* runs of the distributor that could be under way at once
  MaxProfit,   \* bound: a liquidation's profit, and what is there at first
  MaxLiqs,     \* bound: liquidations
  MaxAgain,    \* bound: logs delivered again
  MaxFaults,   \* bound: calls that fail and transactions that come to nothing
  MaxGas       \* bound: the wallet's gas at first

ASSUME ContractAssumption ==
  /\ Wpol \in Assets /\ Collaterals \subseteq Assets
  /\ 0 \notin Slots
  /\ Fee \in Nat \ {0}
  /\ MaxProfit \in Nat \ {0} /\ MaxLiqs \in Nat /\ MaxAgain \in Nat /\ MaxGas \in Nat
  /\ MaxFaults \in Nat

VARIABLES
  accumulated, \* accumulatedProfits of each asset
  gas,         \* the wallet's balance
  mined,       \* history: the logged transactions; one's place is its hash
  again,       \* logs delivered again so far
  faults,      \* faults so far
  feed,        \* the logs on their way to the extractor
  pending,     \* the distributor's transactions in the pool
  receipts     \* the runs whose transaction has been mined

chainVars == <<accumulated, gas, mined, again, faults, feed, pending, receipts>>

Events == [kind : {"liquidation", "distribution"}, asset : Assets, coll : Assets]

Liquidations == {t \in DOMAIN mined : mined[t].kind = "liquidation"}

ChainInit ==
  /\ accumulated \in [Assets -> 0 .. MaxProfit]
  /\ gas \in 0 .. MaxGas
  /\ mined = <<>>
  /\ again = 0
  /\ faults = 0
  /\ feed = <<>>
  /\ pending = {}
  /\ receipts = {}

(* An event is logged; subscribed tells whether a stream carries it. *)
Emit(e, subscribed) ==
  /\ mined' = Append(mined, e)
  /\ feed' = IF subscribed THEN Append(feed, [tx |-> Len(mined) + 1, again |-> FALSE])
             ELSE feed

Liquidate(subscribed) ==
  /\ Cardinality(Liquidations) < MaxLiqs
  /\ \E a \in Assets, c \in Collaterals, n \in 1 .. MaxProfit :
       /\ accumulated' = [accumulated EXCEPT ![a] = @ + n]
       /\ Emit([kind |-> "liquidation", asset |-> a, coll |-> c], subscribed)
  /\ UNCHANGED <<gas, again, faults, pending, receipts>>

(* The wallet's other transactions, the liquidations among them, cost gas. *)
SpendGas ==
  /\ gas > 0
  /\ gas' = gas - 1
  /\ UNCHANGED <<accumulated, mined, again, faults, feed, pending, receipts>>

(***************************************************************************)
(* A reorganisation: the last logged transaction is mined in another       *)
(* block, and its log sent again.                                          *)
(***************************************************************************)
DeliverAgain(subscribed) ==
  /\ subscribed
  /\ again < MaxAgain
  /\ again' = again + 1
  /\ mined # <<>>
  /\ feed' = Append(feed, [tx |-> Len(mined), again |-> TRUE])
  /\ UNCHANGED <<accumulated, gas, mined, faults, pending, receipts>>

-----------------------------------------------------------------------------
(***************************************************************************)
(* A transaction of the distributor: the run that sent it, 0 once that run *)
(* no longer waits for it; the call; its asset, WPOL for a refuel; and the *)
(* amount of a refuel.  The contract reverts what it cannot pay.           *)
(***************************************************************************)
Transactions ==
  [slot : Slots \cup {0}, call : {"refuelGas", "distributeProfits"},
   asset : Assets, amount : Nat]

Leaves(t) ==
  /\ pending' = pending \ {t}
  /\ receipts' = IF t.slot = 0 THEN receipts ELSE receipts \cup {t.slot}

Payable(t) ==
  IF t.call = "refuelGas" THEN t.amount <= accumulated[Wpol]
  ELSE accumulated[t.asset] > 0

(* The wallet can pay for a transaction. *)
Affordable == gas >= Fee

Costs == 1 .. Fee

MineRefuel(t) ==
  /\ t \in pending
  /\ Affordable
  /\ t.call = "refuelGas"
  /\ Payable(t)
  /\ accumulated' = [accumulated EXCEPT ![Wpol] = @ - t.amount]
  /\ \E cost \in Costs : gas' = gas - cost + t.amount
  /\ Leaves(t)
  /\ UNCHANGED <<mined, again, faults, feed>>

MineDistribution(t, subscribed) ==
  /\ t \in pending
  /\ t.call = "distributeProfits"
  /\ Affordable
  /\ Payable(t)
  /\ accumulated' = [accumulated EXCEPT ![t.asset] = 0]
  /\ Emit([kind |-> "distribution", asset |-> t.asset, coll |-> t.asset], subscribed)
  /\ \E cost \in Costs : gas' = gas - cost
  /\ Leaves(t)
  /\ UNCHANGED <<again, faults>>

Fault ==
  /\ faults < MaxFaults
  /\ faults' = faults + 1

(* Mined without effect, for want of funds or another reason of its own. *)
MineReverts(t) ==
  /\ t \in pending
  /\ Affordable
  /\ \/ ~Payable(t) /\ UNCHANGED faults
     \/ Payable(t) /\ Fault
  /\ \E cost \in Costs : gas' = gas - cost
  /\ Leaves(t)
  /\ UNCHANGED <<accumulated, mined, again, feed>>

(* The pool forgets it, perhaps because the wallet can no longer pay. *)
Drop(t) ==
  /\ t \in pending
  /\ \/ ~Affordable /\ UNCHANGED faults
     \/ Fault
  /\ pending' = pending \ {t}
  /\ UNCHANGED <<accumulated, gas, mined, again, feed, receipts>>

ChainTypeOK ==
  /\ accumulated \in [Assets -> Nat]
  /\ gas \in Nat
  /\ mined \in Seq(Events)
  /\ again \in 0 .. MaxAgain
  /\ faults \in 0 .. MaxFaults
  /\ feed \in Seq([tx : Nat \ {0}, again : BOOLEAN])
  /\ pending \subseteq Transactions
  /\ receipts \subseteq Slots

=============================================================================
