----------------------- MODULE ProfitDistributor_proofs -----------------------
(***************************************************************************)
(* The settlement, for any assets, amounts, numbers of runs, faults and    *)
(* restarts: what a run sent and waits for is covered, WPOL only buys gas, *)
(* and a logged transaction has one row.                                   *)
(***************************************************************************)
EXTENDS ProfitDistributor, TLAPS

Waiting == {"refuelling", "paying"}

(* The flag keeps a second run out. *)
OneRun ==
  \A s \in Slots : Active(s) => running /\ \A z \in Slots : Active(z) => z = s

(* A run waits for one transaction, beside which there is none: what other *)
(* runs left in the pool has gone when a run starts.                       *)
Waits ==
  \A t \in pending :
    IF t.slot = 0 THEN \A s \in Slots : ~Active(s)
    ELSE /\ pending = {t} /\ t.slot \notin receipts
         /\ stage[t.slot] \in Waiting

ReceiptsAwaited == \A s \in receipts : stage[s] \in Waiting

(* A run only sends what the contract can pay. *)
Funded ==
  \A s \in Slots :
    /\ stage[s] = "refuel" => needed[s] <= accumulated[Wpol]
    /\ stage[s] = "send" =>
         asset[s] \in Assets /\ asset[s] # Wpol /\ accumulated[asset[s]] > 0

PaysNoWpol == \A t \in pending : t.call = "distributeProfits" => t.asset # Wpol

RunsOK == OneRun /\ Waits /\ ReceiptsAwaited /\ Funded /\ PaysNoWpol /\ Covered

Logs(n) == [tx : 1 .. n, again : BOOLEAN]

LogsOK == feed \in Seq(Logs(Len(mined)))

(* Each table has the transactions of its kind, each once. *)
Lists(table, kind) ==
  \A r \in table :
    /\ r.tx \in 1 .. Len(mined) /\ mined[r.tx].kind = kind
    /\ \A q \in table : q.tx = r.tx => q = r

RowsOK ==
  /\ LogsOK
  /\ Lists(liquidations, "liquidation")
  /\ Lists(distributions, "distribution")

Inv == TypeOK /\ RunsOK /\ RowsOK

-----------------------------------------------------------------------------
LEMMA MoreLogs ==
  ASSUME NEW S, NEW T, S \subseteq T, NEW f \in Seq(S)
  PROVE  f \in Seq(T)
  OBVIOUS

LEMMA LogTypes ==
  ASSUME NEW n \in Nat, NEW f \in Seq(Logs(n))
  PROVE  f \in Seq([tx : Nat \ {0}, again : BOOLEAN])
  <1>1. Logs(n) \subseteq [tx : Nat \ {0}, again : BOOLEAN]
    BY DEF Logs
  <1> HIDE DEF Logs
  <1> QED  BY <1>1, MoreLogs

LEMMA Emits ==
  ASSUME ChainTypeOK, RowsOK, NEW e \in Events, NEW b \in BOOLEAN, Emit(e, b),
         UNCHANGED <<liquidations, distributions>>
  PROVE  mined' \in Seq(Events) /\ RowsOK'
  <1>1. /\ mined \in Seq(Events) /\ Len(mined) \in Nat
        /\ mined' = Append(mined, e)
    BY DEF ChainTypeOK, Emit
  <1>2. /\ mined' \in Seq(Events) /\ Len(mined') = Len(mined) + 1
        /\ \A i \in 1 .. Len(mined) : i \in 1 .. Len(mined') /\ mined'[i] = mined[i]
    BY <1>1
  <1> DEFINE log == [tx |-> Len(mined) + 1, again |-> FALSE]
             L == Logs(Len(mined'))
  <1>3. Logs(Len(mined)) \subseteq L /\ log \in L
    BY <1>1, <1>2 DEF Logs
  <1>4. feed' = Append(feed, log) \/ feed' = feed
    BY DEF Emit
  <1>5. LogsOK'
    <2> HIDE DEF log, L
    <2>1. feed \in Seq(L)
      BY <1>3, MoreLogs DEF RowsOK, LogsOK
    <2>2. Append(feed, log) \in Seq(L)
      BY <1>3, <2>1
    <2>3. feed' \in Seq(L)
      BY <1>4, <2>1, <2>2
    <2> QED  BY <2>3 DEF L, LogsOK
  <1>6. Lists(liquidations, "liquidation")' /\ Lists(distributions, "distribution")'
    BY <1>2 DEF RowsOK, Lists
  <1> QED  BY <1>2, <1>5, <1>6 DEF RowsOK

LEMMA RowsStill ==
  ASSUME RowsOK, UNCHANGED <<mined, liquidations, distributions>>,
         feed' \in Seq(Logs(Len(mined)))
  PROVE  RowsOK'
  BY DEF RowsOK, LogsOK, Lists

-----------------------------------------------------------------------------
(* What the other actions leave alone. *)
OursStill == UNCHANGED <<extractor, shutdown, cron, running, stage, needed, todo, asset, restarts>>

LEMMA LiquidateKeeps ==
  ASSUME Inv, Liquidate(Subscribed), OursStill, UNCHANGED <<liquidations, distributions>>
  PROVE  Inv'
  <1>1. PICK a \in Assets, c \in Collaterals, n \in 1 .. MaxProfit :
          /\ accumulated' = [accumulated EXCEPT ![a] = @ + n]
          /\ Emit([kind |-> "liquidation", asset |-> a, coll |-> c], Subscribed)
    BY DEF Liquidate
  <1>2. [kind |-> "liquidation", asset |-> a, coll |-> c] \in Events /\ Subscribed \in BOOLEAN
    BY ContractAssumption DEF Events, Subscribed
  <1>3. mined' \in Seq(Events) /\ RowsOK'
    BY <1>1, <1>2, Emits DEF Inv, TypeOK
  <1>4. UNCHANGED <<gas, again, faults, pending, receipts>>
    BY DEF Liquidate
  <1>5. /\ accumulated' \in [Assets -> Nat]
        /\ \A d \in Assets : accumulated[d] <= accumulated'[d] /\ accumulated[d] \in Nat
    BY <1>1, ContractAssumption DEF Inv, TypeOK, ChainTypeOK
  <1>6. feed' \in Seq([tx : Nat \ {0}, again : BOOLEAN])
    <2>1. Len(mined') \in Nat
      BY <1>3
    <2> QED  BY <1>3, <2>1, LogTypes DEF RowsOK, LogsOK
  <1>7. TypeOK'
    BY <1>3, <1>4, <1>5, <1>6
       DEF Inv, TypeOK, ChainTypeOK, ExtractorTypeOK, OursStill
  <1>8. \A t \in Transactions : Payable(t) => Payable(t)'
    BY <1>5, ContractAssumption DEF Payable, Transactions
  <1>9. Covered'
    BY <1>4, <1>8 DEF Inv, RunsOK, Covered, TypeOK, ChainTypeOK
  <1>10. Funded'
    BY <1>5, ContractAssumption DEF Inv, RunsOK, Funded, OursStill, TypeOK
  <1>11. OneRun' /\ Waits' /\ ReceiptsAwaited' /\ PaysNoWpol'
    BY <1>4 DEF Inv, RunsOK, OneRun, Waits, ReceiptsAwaited, PaysNoWpol, OursStill, Active
  <1> QED  BY <1>3, <1>7, <1>9, <1>10, <1>11 DEF Inv, RunsOK

(* A step that touches neither the contract's book nor the pool nor a run. *)
LEMMA RunsStill ==
  ASSUME RunsOK,
         UNCHANGED <<accumulated, pending, receipts, running, stage, needed, asset>>
  PROVE  RunsOK'
  BY DEF RunsOK, OneRun, Waits, ReceiptsAwaited, Funded, PaysNoWpol, Covered, Payable, Active

LEMMA SpendGasKeeps ==
  ASSUME Inv, SpendGas, OursStill, UNCHANGED <<liquidations, distributions>>
  PROVE  Inv'
  <1>1. RunsOK'
    BY RunsStill DEF Inv, SpendGas, OursStill
  <1>2. RowsOK'
    BY RowsStill DEF Inv, RowsOK, LogsOK, SpendGas
  <1>3. TypeOK'
    BY DEF Inv, TypeOK, ChainTypeOK, ExtractorTypeOK, SpendGas, OursStill
  <1> QED  BY <1>1, <1>2, <1>3 DEF Inv

LEMMA DeliverAgainKeeps ==
  ASSUME Inv, DeliverAgain(Subscribed), OursStill, UNCHANGED <<liquidations, distributions>>
  PROVE  Inv'
  <1>1. RunsOK'
    BY RunsStill DEF Inv, DeliverAgain, OursStill
  <1>2. /\ mined \in Seq(Events) /\ mined # <<>>
        /\ feed' = Append(feed, [tx |-> Len(mined), again |-> TRUE])
    BY DEF Inv, TypeOK, ChainTypeOK, DeliverAgain
  <1>3. [tx |-> Len(mined), again |-> TRUE] \in Logs(Len(mined))
    BY <1>2 DEF Logs
  <1>4. feed' \in Seq(Logs(Len(mined)))
    BY <1>2, <1>3 DEF Inv, RowsOK, LogsOK
  <1>5. RowsOK'
    BY <1>4, RowsStill DEF Inv, DeliverAgain
  <1>6. ChainTypeOK'
    <2>1. Len(mined) \in Nat
      BY <1>2
    <2>2. feed' \in Seq([tx : Nat \ {0}, again : BOOLEAN])
      BY <1>4, <2>1, LogTypes
    <2> QED  BY <2>2, ContractAssumption DEF Inv, TypeOK, ChainTypeOK, DeliverAgain
  <1>7. TypeOK'
    BY <1>6 DEF Inv, TypeOK, ExtractorTypeOK, OursStill
  <1> QED  BY <1>1, <1>5, <1>7 DEF Inv

(* What leaves the pool leaves nothing in it that a run waits for. *)
LEMMA RunsLeave ==
  ASSUME TypeOK, RunsOK, OursStill, NEW t \in pending, pending' = pending \ {t},
         receipts' = receipts \/ receipts' = (IF t.slot = 0 THEN receipts ELSE receipts \cup {t.slot})
  PROVE  RunsOK' /\ pending' \subseteq Transactions /\ receipts' \subseteq Slots
  <1>1. t \in Transactions /\ t.slot \in Slots \cup {0}
    BY DEF TypeOK, ChainTypeOK, Transactions
  <1>2. \A u \in pending' : u.slot = 0
    BY DEF RunsOK, Waits
  <1>3. Covered'
    BY <1>2 DEF Covered
  <1>4. ReceiptsAwaited' /\ receipts' \subseteq Slots
    BY <1>1 DEF RunsOK, Waits, ReceiptsAwaited, OursStill, TypeOK, ChainTypeOK
  <1>5. \A s \in Slots : Active(s) => stage[s] \in Waiting
    BY <1>1 DEF RunsOK, OneRun, Waits, Active, Waiting
  <1>6. Funded'
    BY <1>5 DEF Funded, OursStill, Active, Waiting
  <1>7. Waits'
    BY <1>2 DEF RunsOK, Waits, OursStill, Active
  <1>8. OneRun' /\ PaysNoWpol'
    BY DEF RunsOK, OneRun, PaysNoWpol, OursStill, Active
  <1> QED  BY <1>3, <1>4, <1>6, <1>7, <1>8 DEF RunsOK, TypeOK, ChainTypeOK

(* What a transaction costs, a wallet that can pay for it has. *)
LEMMA PaysFee ==
  ASSUME TypeOK, Affordable, NEW cost \in Costs
  PROVE  gas - cost \in Nat
  BY ContractAssumption DEF TypeOK, ChainTypeOK, Affordable, Costs

LEMMA MineRefuelKeeps ==
  ASSUME Inv, NEW t \in pending, MineRefuel(t), OursStill,
         UNCHANGED <<liquidations, distributions>>
  PROVE  Inv'
  <1>1. t \in Transactions /\ t.amount \in Nat /\ t.amount <= accumulated[Wpol]
    BY DEF Inv, TypeOK, ChainTypeOK, Transactions, MineRefuel, Payable
  <1>2. accumulated' \in [Assets -> Nat] /\ gas' \in Nat
    <2>1. accumulated' \in [Assets -> Nat]
      BY <1>1, ContractAssumption DEF Inv, TypeOK, ChainTypeOK, MineRefuel
    <2>2. PICK cost \in Costs : gas' = gas - cost + t.amount
      BY DEF MineRefuel
    <2>3. gas - cost \in Nat
      BY PaysFee DEF Inv, TypeOK, MineRefuel
    <2> QED  BY <1>1, <2>1, <2>2, <2>3
  <1>3. RunsOK' /\ pending' \subseteq Transactions /\ receipts' \subseteq Slots
    BY RunsLeave DEF Inv, MineRefuel, Leaves
  <1>4. RowsOK'
    BY RowsStill DEF Inv, RowsOK, LogsOK, MineRefuel
  <1>5. TypeOK'
    BY <1>2, <1>3 DEF Inv, TypeOK, ChainTypeOK, ExtractorTypeOK, MineRefuel, OursStill
  <1> QED  BY <1>3, <1>4, <1>5 DEF Inv

LEMMA MineDistributionKeeps ==
  ASSUME Inv, NEW t \in pending, MineDistribution(t, Subscribed), OursStill,
         UNCHANGED <<liquidations, distributions>>
  PROVE  Inv'
  <1>1. t \in Transactions /\ t.asset \in Assets
    BY DEF Inv, TypeOK, ChainTypeOK, Transactions
  <1>2. accumulated' \in [Assets -> Nat] /\ gas' \in Nat
    BY <1>1, PaysFee DEF Inv, TypeOK, ChainTypeOK, MineDistribution
  <1>3. RunsOK' /\ pending' \subseteq Transactions /\ receipts' \subseteq Slots
    BY RunsLeave DEF Inv, MineDistribution, Leaves
  <1>4. [kind |-> "distribution", asset |-> t.asset, coll |-> t.asset] \in Events
    BY <1>1 DEF Events
  <1>5. mined' \in Seq(Events) /\ RowsOK'
    BY <1>4, Emits DEF Inv, TypeOK, MineDistribution, Subscribed
  <1>6. feed' \in Seq([tx : Nat \ {0}, again : BOOLEAN])
    <2>1. Len(mined') \in Nat
      BY <1>5
    <2> QED  BY <1>5, <2>1, LogTypes DEF RowsOK, LogsOK
  <1>7. TypeOK'
    BY <1>2, <1>3, <1>5, <1>6
       DEF Inv, TypeOK, ChainTypeOK, ExtractorTypeOK, MineDistribution, OursStill
  <1> QED  BY <1>3, <1>5, <1>7 DEF Inv

LEMMA LostKeeps ==
  ASSUME Inv, NEW t \in pending, MineReverts(t) \/ Drop(t), OursStill,
         UNCHANGED <<liquidations, distributions>>
  PROVE  Inv'
  <1>1. RunsOK' /\ pending' \subseteq Transactions /\ receipts' \subseteq Slots
    BY RunsLeave DEF Inv, MineReverts, Drop, Leaves
  <1>2. UNCHANGED <<accumulated, mined, again, feed>> /\ gas' \in Nat
    BY PaysFee DEF Inv, TypeOK, ChainTypeOK, MineReverts, Drop
  <1>3. RowsOK'
    BY <1>2, RowsStill DEF Inv, RowsOK, LogsOK
  <1>4. faults' \in 0 .. MaxFaults
    BY ContractAssumption DEF Inv, TypeOK, ChainTypeOK, MineReverts, Drop, Fault
  <1>5. TypeOK'
    BY <1>1, <1>2, <1>4 DEF Inv, TypeOK, ChainTypeOK, ExtractorTypeOK, OursStill
  <1> QED  BY <1>1, <1>3, <1>5 DEF Inv

LEMMA ChainKeeps == Inv /\ Chain => Inv'
  <1> SUFFICES ASSUME Inv, Chain PROVE Inv'
    OBVIOUS
  <1>1. OursStill /\ UNCHANGED <<liquidations, distributions>>
    BY DEF Chain, ours, OursStill, extractorVars, runVars
  <1>2. CASE Liquidate(Subscribed)
    BY <1>1, <1>2, LiquidateKeeps
  <1>3. CASE SpendGas
    BY <1>1, <1>3, SpendGasKeeps
  <1>4. CASE DeliverAgain(Subscribed)
    BY <1>1, <1>4, DeliverAgainKeeps
  <1>5. ASSUME NEW t \in pending, Mine(t) \/ Drop(t) PROVE Inv'
    BY <1>1, <1>5, MineRefuelKeeps, MineDistributionKeeps, LostKeeps DEF Mine
  <1> QED  BY <1>2, <1>3, <1>4, <1>5 DEF Chain

-----------------------------------------------------------------------------
LEMMA TableKeeps ==
  ASSUME NEW table, NEW kind, Lists(table, kind), NEW row, UNCHANGED mined,
         row.tx \in 1 .. Len(mined), mined[row.tx].kind = kind
  PROVE  \A r \in InsertOrIgnore(table, row) :
           /\ r.tx \in 1 .. Len(mined) /\ mined[r.tx].kind = kind
           /\ \A q \in InsertOrIgnore(table, row) : q.tx = r.tx => q = r
  BY DEF Lists, InsertOrIgnore

LEMMA HandleEventKeeps ==
  ASSUME Inv, HandleEvent, UNCHANGED <<cron, running, stage, runVars, restarts>>
  PROVE  Inv'
  <1> DEFINE log == Head(feed)
             row == RowOf(log)
  <1>1. /\ feed # <<>> /\ feed' = Tail(feed) /\ feed \in Seq(Logs(Len(mined)))
        /\ mined \in Seq(Events) /\ Len(mined) \in Nat
        /\ UNCHANGED <<extractor, shutdown, accumulated, gas, mined, again, faults,
                       pending, receipts>>
    BY DEF HandleEvent, Inv, RowsOK, LogsOK, TypeOK, ChainTypeOK
  <1>2. log \in Logs(Len(mined)) /\ Tail(feed) \in Seq(Logs(Len(mined)))
    BY <1>1
  <1>3. log.tx \in 1 .. Len(mined) /\ log.again \in BOOLEAN
    BY <1>2 DEF Logs
  <1>4. mined[log.tx] \in Events
    BY <1>1, <1>3
  <1>5. /\ mined[log.tx].kind \in {"liquidation", "distribution"}
        /\ mined[log.tx].asset \in Assets /\ mined[log.tx].coll \in Assets
    BY <1>4 DEF Events
  <1>6. row \in Rows /\ row.tx = log.tx
    BY <1>3, <1>5 DEF Rows, RowOf
  <1>7. \/ /\ mined[log.tx].kind = "liquidation"
           /\ liquidations' = InsertOrIgnore(liquidations, row)
           /\ UNCHANGED distributions
        \/ /\ mined[log.tx].kind = "distribution"
           /\ distributions' = InsertOrIgnore(distributions, row)
           /\ UNCHANGED liquidations
    BY DEF HandleEvent
  <1> HIDE DEF row, log
  <1>8. LogsOK'
    BY <1>1, <1>2 DEF LogsOK
  <1>9. Lists(liquidations, "liquidation")' /\ Lists(distributions, "distribution")'
    <2>1. Lists(liquidations, "liquidation") /\ Lists(distributions, "distribution")
      BY DEF Inv, RowsOK
    <2>2. CASE mined[log.tx].kind = "liquidation"
      <3>1. \A r \in liquidations' :
              /\ r.tx \in 1 .. Len(mined) /\ mined[r.tx].kind = "liquidation"
              /\ \A q \in liquidations' : q.tx = r.tx => q = r
        BY <1>1, <1>3, <1>6, <1>7, <2>1, <2>2, TableKeeps
      <3> QED  BY <1>1, <1>7, <2>1, <2>2, <3>1 DEF Lists
    <2>3. CASE mined[log.tx].kind = "distribution"
      <3>1. \A r \in distributions' :
              /\ r.tx \in 1 .. Len(mined) /\ mined[r.tx].kind = "distribution"
              /\ \A q \in distributions' : q.tx = r.tx => q = r
        BY <1>1, <1>3, <1>6, <1>7, <2>1, <2>3, TableKeeps
      <3> QED  BY <1>1, <1>7, <2>1, <2>3, <3>1 DEF Lists
    <2> QED  BY <1>5, <2>2, <2>3
  <1>10. liquidations' \subseteq Rows /\ distributions' \subseteq Rows
    BY <1>6, <1>7 DEF Inv, TypeOK, ExtractorTypeOK, InsertOrIgnore
  <1>11. feed' \in Seq([tx : Nat \ {0}, again : BOOLEAN])
    BY <1>1, <1>2, LogTypes
  <1>12. TypeOK'
    BY <1>1, <1>10, <1>11 DEF Inv, TypeOK, ChainTypeOK, ExtractorTypeOK, runVars
  <1>13. RunsOK'
    BY <1>1, RunsStill DEF Inv, runVars
  <1> QED  BY <1>8, <1>9, <1>12, <1>13 DEF Inv, RowsOK

LEMMA ListeningKeeps ==
  ASSUME Inv, Subscribe \/ StopExtractor \/ HandleFails,
         UNCHANGED <<cron, running, stage, runVars, restarts>>
  PROVE  Inv'
  <1>1. /\ UNCHANGED <<shutdown, liquidations, distributions, accumulated, gas, mined, again,
                       faults, pending, receipts>>
        /\ extractor' \in {"starting", "listening", "stopped"}
    BY DEF Subscribe, StopExtractor, HandleFails, extractorVars, chainVars,
           Inv, TypeOK, ExtractorTypeOK
  <1>2. feed' \in Seq(Logs(Len(mined)))
    <2> DEFINE L == Logs(Len(mined))
    <2>1. feed \in Seq(L)
      BY DEF Inv, RowsOK, LogsOK
    <2>2. feed' = feed \/ feed' = <<>> \/ (feed # <<>> /\ feed' = Tail(feed))
      BY DEF Subscribe, StopExtractor, HandleFails, chainVars
    <2> HIDE DEF L
    <2>3. <<>> \in Seq(L) /\ (feed # <<>> => Tail(feed) \in Seq(L))
      BY <2>1
    <2>4. feed' \in Seq(L)
      BY <2>1, <2>2, <2>3, Zenon
    <2> QED  BY <2>4 DEF L
  <1>3. feed' \in Seq([tx : Nat \ {0}, again : BOOLEAN])
    <2>1. Len(mined) \in Nat
      BY DEF Inv, TypeOK, ChainTypeOK
    <2> QED  BY <1>2, <2>1, LogTypes
  <1>4. TypeOK'
    BY <1>1, <1>3 DEF Inv, TypeOK, ChainTypeOK, ExtractorTypeOK, runVars
  <1>5. RowsOK' /\ RunsOK'
    BY <1>1, <1>2, RowsStill, RunsStill DEF Inv, runVars
  <1> QED  BY <1>4, <1>5 DEF Inv

-----------------------------------------------------------------------------
Stages ==
  {"idle", "gas", "wpol", "refuel", "refuelling", "assets", "next", "send", "paying"}

(* Nothing is in the pool while a run waits for nothing. *)
LEMMA Alone ==
  ASSUME TypeOK, RunsOK, NEW s \in Slots, Active(s), stage[s] \notin Waiting \/ s \in receipts
  PROVE  pending = {} /\ \A z \in Slots : z # s => ~Active(z)
  <1>1. \A t \in pending : t.slot \in Slots \cup {0}
    BY DEF TypeOK, ChainTypeOK, Transactions
  <1>2. \A z \in Slots : Active(z) => z = s
    BY DEF RunsOK, OneRun
  <1>3. ASSUME NEW t \in pending PROVE FALSE
    <2>1. t.slot # 0 /\ t.slot \notin receipts /\ stage[t.slot] \in Waiting
      BY <1>3 DEF RunsOK, Waits
    <2>2. t.slot = s
      BY <1>1, <1>2, <1>3, <2>1 DEF Active, Waiting
    <2> QED  BY <2>1, <2>2
  <1> QED  BY <1>2, <1>3

LEMMA GoesOn ==
  ASSUME Inv, NEW s \in Slots, Active(s), stage[s] \notin Waiting \/ s \in receipts,
         NEW place \in Stages, place \notin Waiting, place # "idle",
         stage' = [stage EXCEPT ![s] = place],
         UNCHANGED <<accumulated, pending, running>>, receipts' = receipts \ {s},
         place = "refuel" => needed'[s] <= accumulated[Wpol],
         place = "send" => asset'[s] \in Assets /\ asset'[s] # Wpol /\ accumulated[asset'[s]] > 0
  PROVE  RunsOK'
  <1>1. pending = {} /\ \A z \in Slots : z # s => stage[z] = "idle"
    BY Alone DEF Inv, Active
  <1>2. stage'[s] = place /\ \A z \in Slots : z # s => stage'[z] = "idle"
    BY <1>1 DEF Inv, TypeOK
  <1>3. running
    BY DEF Inv, RunsOK, OneRun
  <1>4. OneRun'
    BY <1>2, <1>3 DEF OneRun, Active
  <1>5. Waits' /\ PaysNoWpol' /\ Covered'
    BY <1>1 DEF Waits, PaysNoWpol, Covered
  <1>6. ReceiptsAwaited'
    BY <1>1, <1>2 DEF Inv, RunsOK, ReceiptsAwaited, TypeOK, ChainTypeOK, Waiting
  <1>7. Funded'
    BY <1>2 DEF Funded
  <1> QED  BY <1>4, <1>5, <1>6, <1>7 DEF RunsOK

LEMMA Sends ==
  ASSUME Inv, NEW s \in Slots, Active(s), stage[s] \notin Waiting,
         NEW place \in Waiting, stage' = [stage EXCEPT ![s] = place],
         UNCHANGED <<accumulated, receipts, running>>,
         NEW t \in Transactions, t.slot = s, pending' = pending \cup {t}, Payable(t),
         t.call = "distributeProfits" => t.asset # Wpol
  PROVE  RunsOK'
  <1>1. pending' = {t} /\ \A z \in Slots : z # s => stage[z] = "idle"
    BY Alone DEF Inv, Active
  <1>2. stage'[s] = place /\ \A z \in Slots : z # s => stage'[z] = "idle"
    BY <1>1 DEF Inv, TypeOK
  <1>3. running /\ s \notin receipts /\ s # 0
    BY ContractAssumption DEF Inv, RunsOK, OneRun, ReceiptsAwaited
  <1>4. OneRun'
    BY <1>2, <1>3 DEF OneRun, Active
  <1>5. Waits'
    BY <1>1, <1>2, <1>3 DEF Waits
  <1>6. PaysNoWpol' /\ Covered'
    BY <1>1 DEF PaysNoWpol, Covered, Payable
  <1>7. ReceiptsAwaited'
    BY <1>2, <1>3 DEF Inv, RunsOK, ReceiptsAwaited, TypeOK
  <1>8. Funded'
    BY <1>2 DEF Funded, Waiting
  <1> QED  BY <1>4, <1>5, <1>6, <1>7, <1>8 DEF RunsOK

(* A run ends and gives up what it sent. *)
LEMMA Ends ==
  ASSUME Inv, \A z \in Slots : stage'[z] = "idle", \A t \in pending' : t.slot = 0,
         receipts' = {}, PaysNoWpol'
  PROVE  RunsOK'
  BY DEF RunsOK, OneRun, Waits, ReceiptsAwaited, Funded, Covered, Active

(* The steps of a run leave the contract's book and the rows alone. *)
LEMMA RowsKept ==
  ASSUME Inv, UNCHANGED <<mined, feed, liquidations, distributions>>
  PROVE  RowsOK'
  BY RowsStill DEF Inv, RowsOK, LogsOK

-----------------------------------------------------------------------------
LEMMA FireKeeps == ASSUME Inv, NEW s \in Slots, Fire(s) PROVE Inv'
  <1>1. /\ ~running /\ running' = TRUE /\ stage' = [stage EXCEPT ![s] = "gas"]
        /\ \A t \in pending : t.slot # 0
        /\ UNCHANGED <<accumulated, gas, mined, again, faults, feed, pending, receipts,
                       extractor, shutdown, liquidations, distributions, cron,
                       needed, todo, asset, restarts>>
    BY DEF Fire, Sunday, chainVars, extractorVars, runVars
  <1>2. \A z \in Slots : ~Active(z)
    BY <1>1 DEF Inv, RunsOK, OneRun
  <1>3. pending = {}
    BY <1>1, <1>2 DEF Inv, RunsOK, Waits, TypeOK, ChainTypeOK, Transactions, Active, Waiting
  <1>4. stage'[s] = "gas" /\ \A z \in Slots : z # s => stage'[z] = "idle"
    BY <1>1, <1>2 DEF Inv, TypeOK, Active
  <1>5. OneRun' /\ Funded'
    BY <1>1, <1>4 DEF OneRun, Funded, Active
  <1>6. Waits' /\ PaysNoWpol' /\ Covered'
    BY <1>1, <1>3 DEF Waits, PaysNoWpol, Covered
  <1>7. ReceiptsAwaited'
    BY <1>1, <1>2 DEF Inv, RunsOK, ReceiptsAwaited, TypeOK, ChainTypeOK, Active, Waiting
  <1>8. TypeOK'
    BY <1>1 DEF Inv, TypeOK, ChainTypeOK, ExtractorTypeOK
  <1> QED  BY <1>1, <1>5, <1>6, <1>7, <1>8, RowsKept DEF Inv, RunsOK

LEMMA ReadGasKeeps == ASSUME Inv, NEW s \in Slots, ReadGas(s) PROVE Inv'
  <1>1. /\ stage[s] = "gas" /\ s \notin receipts
        /\ UNCHANGED <<accumulated, gas, mined, again, faults, feed, pending, receipts,
                       extractor, shutdown, liquidations, distributions, cron, running,
                       todo, asset, restarts>>
    BY DEF ReadGas, Goto, extractorVars, Inv, RunsOK, ReceiptsAwaited, Waiting
  <1>2. PICK place \in {"assets", "wpol"} : stage' = [stage EXCEPT ![s] = place]
    BY DEF ReadGas, Goto
  <1>3. needed' \in [Slots -> 0 .. RefuelTo]
    BY DistributorAssumption DEF ReadGas, Inv, TypeOK, ChainTypeOK
  <1>4. RunsOK'
    BY <1>1, <1>2, GoesOn DEF Active, Waiting, Stages
  <1>5. TypeOK'
    BY <1>1, <1>2, <1>3 DEF Inv, TypeOK, ChainTypeOK, ExtractorTypeOK
  <1> QED  BY <1>1, <1>4, <1>5, RowsKept DEF Inv

LEMMA ReadWpolKeeps == ASSUME Inv, NEW s \in Slots, ReadWpol(s) PROVE Inv'
  <1>1. /\ stage[s] = "wpol" /\ s \notin receipts
        /\ UNCHANGED <<accumulated, gas, mined, again, faults, feed, pending, receipts,
                       extractor, shutdown, liquidations, distributions, cron, running,
                       todo, asset, restarts>>
    BY DEF ReadWpol, Goto, extractorVars, Inv, RunsOK, ReceiptsAwaited, Waiting
  <1>2. PICK place \in {"assets", "refuel"} :
          /\ stage' = [stage EXCEPT ![s] = place]
          /\ place = "refuel" => Refuels(s) /\ needed' = needed
    BY DEF ReadWpol, Goto
  <1>3. needed' \in [Slots -> 0 .. RefuelTo]
    BY DistributorAssumption DEF ReadWpol, Inv, TypeOK
  <1>4. place = "refuel" => needed'[s] <= accumulated[Wpol]
    BY <1>2, ContractAssumption, DistributorAssumption
       DEF Refuels, Inv, TypeOK, ChainTypeOK
  <1>5. RunsOK'
    BY <1>1, <1>2, <1>4, GoesOn DEF Active, Waiting, Stages
  <1>6. TypeOK'
    BY <1>1, <1>2, <1>3 DEF Inv, TypeOK, ChainTypeOK, ExtractorTypeOK
  <1> QED  BY <1>1, <1>5, <1>6, RowsKept DEF Inv

LEMMA SendRefuelKeeps == ASSUME Inv, NEW s \in Slots, SendRefuel(s) PROVE Inv'
  <1> DEFINE t == [slot |-> s, call |-> "refuelGas", asset |-> Wpol, amount |-> needed[s]]
  <1>1. /\ stage[s] = "refuel" /\ pending' = pending \cup {t}
        /\ stage' = [stage EXCEPT ![s] = "refuelling"]
        /\ UNCHANGED <<accumulated, gas, mined, again, faults, feed, receipts,
                       extractor, shutdown, liquidations, distributions, cron, running,
                       needed, todo, asset, restarts>>
    BY DEF SendRefuel, Goto, extractorVars, runVars
  <1>2. needed[s] \in Nat /\ needed[s] <= accumulated[Wpol]
    BY <1>1, DistributorAssumption DEF Inv, TypeOK, RunsOK, Funded
  <1>3. t \in Transactions /\ t.slot = s /\ t.call = "refuelGas" /\ Payable(t)
    BY <1>2, ContractAssumption DEF Transactions, Payable
  <1> HIDE DEF t
  <1>4. RunsOK'
    BY <1>1, <1>3, Sends DEF Active, Waiting
  <1>5. TypeOK'
    BY <1>1, <1>3 DEF Inv, TypeOK, ChainTypeOK, ExtractorTypeOK
  <1> QED  BY <1>1, <1>4, <1>5, RowsKept DEF Inv

LEMMA ConfirmedKeeps == ASSUME Inv, NEW s \in Slots, Confirmed(s) PROVE Inv'
  <1>1. /\ stage[s] \in Waiting /\ s \in receipts /\ receipts' = receipts \ {s}
        /\ needed' = [needed EXCEPT ![s] = 0] /\ asset' = [asset EXCEPT ![s] = NoAsset]
        /\ UNCHANGED <<accumulated, gas, mined, again, faults, feed, pending,
                       extractor, shutdown, liquidations, distributions, cron, running,
                       todo, restarts>>
    BY DEF Confirmed, Goto, extractorVars, Waiting
  <1>2. PICK place \in {"assets", "next"} : stage' = [stage EXCEPT ![s] = place]
    BY DEF Confirmed, Goto
  <1>3. RunsOK'
    BY <1>1, <1>2, GoesOn DEF Active, Waiting, Stages
  <1>4. TypeOK'
    BY <1>1, <1>2, DistributorAssumption DEF Inv, TypeOK, ChainTypeOK, ExtractorTypeOK
  <1> QED  BY <1>1, <1>3, <1>4, RowsKept DEF Inv

LEMMA DiscoverKeeps == ASSUME Inv, NEW s \in Slots, DiscoverActiveAssets(s) PROVE Inv'
  <1>1. /\ stage[s] = "assets" /\ s \notin receipts
        /\ stage' = [stage EXCEPT ![s] = "next"]
        /\ todo' = [todo EXCEPT ![s] = Listed \cup Discovered]
        /\ UNCHANGED <<accumulated, gas, mined, again, faults, feed, pending, receipts,
                       extractor, shutdown, liquidations, distributions, cron, running,
                       needed, asset, restarts>>
    BY DEF DiscoverActiveAssets, Goto, extractorVars, Inv, RunsOK, ReceiptsAwaited, Waiting
  <1>2. Listed \cup Discovered \subseteq Assets
    BY DistributorAssumption
       DEF Discovered, Recorded, Rows, Inv, TypeOK, ExtractorTypeOK
  <1>3. RunsOK'
    BY <1>1, GoesOn DEF Active, Waiting, Stages
  <1>4. TypeOK'
    BY <1>1, <1>2 DEF Inv, TypeOK, ChainTypeOK, ExtractorTypeOK
  <1> QED  BY <1>1, <1>3, <1>4, RowsKept DEF Inv

LEMMA NextAssetKeeps ==
  ASSUME Inv, NEW s \in Slots, NEW a \in Assets, NextAsset(s, a) PROVE Inv'
  <1>1. /\ stage[s] = "next" /\ s \notin receipts
        /\ todo' = [todo EXCEPT ![s] = @ \ {a}]
        /\ UNCHANGED <<accumulated, gas, mined, again, faults, feed, pending, receipts,
                       extractor, shutdown, liquidations, distributions, cron, running,
                       needed, restarts>>
    BY DEF NextAsset, Goto, extractorVars, Inv, RunsOK, ReceiptsAwaited, Waiting
  <1>2. PICK place \in {"next", "send"} :
          /\ stage' = [stage EXCEPT ![s] = place]
          /\ place = "next" => asset' = asset
          /\ place = "send" => ~Skips(a) /\ asset' = [asset EXCEPT ![s] = a]
    BY DEF NextAsset, Goto
  <1>3. place = "send" => asset'[s] = a /\ a # Wpol /\ accumulated[a] > 0
    BY <1>2 DEF Skips, Inv, TypeOK, ChainTypeOK
  <1>4. RunsOK'
    BY <1>1, <1>2, <1>3, GoesOn DEF Active, Waiting, Stages
  <1>5. TypeOK'
    BY <1>1, <1>2 DEF Inv, TypeOK, ChainTypeOK, ExtractorTypeOK
  <1> QED  BY <1>1, <1>4, <1>5, RowsKept DEF Inv

LEMMA SendDistributionKeeps == ASSUME Inv, NEW s \in Slots, SendDistribution(s) PROVE Inv'
  <1> DEFINE t == [slot |-> s, call |-> "distributeProfits", asset |-> asset[s], amount |-> 0]
  <1>1. /\ stage[s] = "send" /\ pending' = pending \cup {t}
        /\ stage' = [stage EXCEPT ![s] = "paying"]
        /\ UNCHANGED <<accumulated, gas, mined, again, faults, feed, receipts,
                       extractor, shutdown, liquidations, distributions, cron, running,
                       needed, todo, asset, restarts>>
    BY DEF SendDistribution, Goto, extractorVars, runVars
  <1>2. asset[s] \in Assets /\ asset[s] # Wpol /\ accumulated[asset[s]] > 0
    BY <1>1 DEF Inv, RunsOK, Funded
  <1>3. t \in Transactions /\ t.slot = s /\ t.asset # Wpol /\ Payable(t)
    BY <1>2 DEF Transactions, Payable
  <1> HIDE DEF t
  <1>4. RunsOK'
    BY <1>1, <1>3, Sends DEF Active, Waiting
  <1>5. TypeOK'
    BY <1>1, <1>3 DEF Inv, TypeOK, ChainTypeOK, ExtractorTypeOK
  <1> QED  BY <1>1, <1>4, <1>5, RowsKept DEF Inv

LEMMA CompleteKeeps == ASSUME Inv, NEW s \in Slots, Complete(s) PROVE Inv'
  <1>1. /\ stage[s] = "next" /\ running' = FALSE
        /\ stage' = [stage EXCEPT ![s] = "idle"]
        /\ todo' = [todo EXCEPT ![s] = {}] /\ asset' = [asset EXCEPT ![s] = NoAsset]
        /\ needed' = [needed EXCEPT ![s] = 0]
        /\ UNCHANGED <<accumulated, gas, mined, again, faults, feed, pending, receipts,
                       extractor, shutdown, liquidations, distributions, cron, restarts>>
    BY DEF Complete, Return, extractorVars
  <1>2. pending = {} /\ \A z \in Slots : z # s => stage[z] = "idle"
    BY <1>1, Alone DEF Inv, Active, Waiting
  <1>3. receipts = {}
    BY <1>1, <1>2 DEF Inv, RunsOK, ReceiptsAwaited, TypeOK, ChainTypeOK, Waiting
  <1>4. \A z \in Slots : stage'[z] = "idle"
    BY <1>1, <1>2 DEF Inv, TypeOK
  <1>5. RunsOK'
    BY <1>1, <1>2, <1>3, <1>4, Ends DEF PaysNoWpol
  <1>6. TypeOK'
    <2>1. stage' \in [Slots -> Stages] /\ todo' \in [Slots -> SUBSET Assets]
      BY <1>1 DEF Inv, TypeOK, Stages
    <2>2. asset' \in [Slots -> Assets \cup {NoAsset}]
      BY <1>1 DEF Inv, TypeOK
    <2>3. needed' \in [Slots -> 0 .. RefuelTo] /\ 0 \in 0 .. RefuelTo
      BY <1>1, DistributorAssumption DEF Inv, TypeOK
    <2> QED  BY <1>1, <2>1, <2>2, <2>3 DEF Inv, TypeOK, ChainTypeOK, ExtractorTypeOK, Stages
  <1> QED  BY <1>1, <1>5, <1>6, RowsKept DEF Inv

LEMMA RunFailsKeeps == ASSUME Inv, NEW s \in Slots, RunFails(s) PROVE Inv'
  <1>1. /\ running' = FALSE /\ stage' = [stage EXCEPT ![s] = "idle"]
        /\ todo' = [todo EXCEPT ![s] = {}] /\ asset' = [asset EXCEPT ![s] = NoAsset]
        /\ needed' = [needed EXCEPT ![s] = 0]
        /\ receipts' = receipts \ {s}
        /\ UNCHANGED <<accumulated, gas, mined, again, feed,
                       extractor, shutdown, liquidations, distributions, cron, restarts>>
    BY DEF RunFails, Return, Abandon, extractorVars
  <1>2. pending' = {IF t.slot = s THEN [t EXCEPT !.slot = 0] ELSE t : t \in pending}
    BY DEF RunFails, Abandon
  <1>3. Active(s) /\ faults' \in 0 .. MaxFaults
    BY ContractAssumption
       DEF RunFails, Errs, Active, Gone, Fault, Inv, TypeOK, ChainTypeOK
  <1>4. \A z \in Slots : z # s => stage[z] = "idle"
    BY <1>3 DEF Inv, RunsOK, OneRun, Active
  <1>5. \A z \in Slots : stage'[z] = "idle"
    BY <1>1, <1>4 DEF Inv, TypeOK
  <1>6. ASSUME NEW u \in pending'
        PROVE  /\ u \in Transactions /\ u.slot = 0
               /\ u.call = "distributeProfits" => u.asset # Wpol
    <2>1. PICK t \in pending : u = IF t.slot = s THEN [t EXCEPT !.slot = 0] ELSE t
      BY <1>2
    <2>2. t \in Transactions /\ (t.call = "distributeProfits" => t.asset # Wpol)
      BY DEF Inv, TypeOK, ChainTypeOK, RunsOK, PaysNoWpol
    <2>3. t.slot = 0 \/ t.slot = s
      BY <1>4, <2>2 DEF Inv, RunsOK, Waits, Transactions, Waiting
    <2>4. CASE t.slot = s
      BY <2>1, <2>2, <2>4 DEF Transactions
    <2>5. CASE t.slot = 0 /\ t.slot # s
      BY <2>1, <2>2, <2>5
    <2> QED  BY <2>3, <2>4, <2>5
  <1>7. receipts' = {}
    BY <1>1, <1>4 DEF Inv, RunsOK, ReceiptsAwaited, TypeOK, ChainTypeOK, Waiting
  <1>8. RunsOK'
    BY <1>5, <1>6, <1>7, Ends DEF PaysNoWpol
  <1>9. TypeOK'
    <2>1. stage' \in [Slots -> Stages] /\ todo' \in [Slots -> SUBSET Assets]
      BY <1>1 DEF Inv, TypeOK, Stages
    <2>2. asset' \in [Slots -> Assets \cup {NoAsset}]
      BY <1>1 DEF Inv, TypeOK
    <2>3. needed' \in [Slots -> 0 .. RefuelTo] /\ 0 \in 0 .. RefuelTo
      BY <1>1, DistributorAssumption DEF Inv, TypeOK
    <2>4. pending' \subseteq Transactions /\ receipts' \subseteq Slots
      BY <1>6, <1>7
    <2> QED  BY <1>1, <1>3, <2>1, <2>2, <2>3, <2>4
             DEF Inv, TypeOK, ChainTypeOK, ExtractorTypeOK, Stages
  <1> QED  BY <1>1, <1>8, <1>9, RowsKept DEF Inv

LEMMA RestartKeeps == Inv /\ Restart => Inv'
  <1> SUFFICES ASSUME Inv, Restart PROVE Inv'
    OBVIOUS
  <1>1. pending' = {[t EXCEPT !.slot = 0] : t \in pending}
    BY DEF Restart
  <1>2. ASSUME NEW u \in pending'
        PROVE  /\ u \in Transactions /\ u.slot = 0
               /\ u.call = "distributeProfits" => u.asset # Wpol
    <2>1. PICK t \in pending : u = [t EXCEPT !.slot = 0]
      BY <1>1
    <2>2. t \in Transactions /\ (t.call = "distributeProfits" => t.asset # Wpol)
      BY DEF Inv, TypeOK, ChainTypeOK, RunsOK, PaysNoWpol
    <2> QED  BY <2>1, <2>2 DEF Transactions
  <1>3. RunsOK'
    BY <1>2, Ends DEF Restart, PaysNoWpol
  <1>4. RowsOK'
    BY RowsStill DEF Inv, Restart
  <1>5. TypeOK'
    <2>1. stage' \in [Slots -> Stages] /\ todo' \in [Slots -> SUBSET Assets]
      BY DEF Inv, TypeOK, Stages, Restart
    <2>2. asset' \in [Slots -> Assets \cup {NoAsset}]
      BY DEF Inv, TypeOK, Restart
    <2>3. needed' \in [Slots -> 0 .. RefuelTo] /\ 0 \in 0 .. RefuelTo
      BY DistributorAssumption DEF Inv, TypeOK, Restart
    <2>4. ChainTypeOK'
      BY <1>2 DEF Inv, TypeOK, ChainTypeOK, Restart
    <2>5. ExtractorTypeOK'
      BY DEF Inv, TypeOK, ExtractorTypeOK, Restart
    <2>6. restarts' \in 0 .. MaxRestarts
      <3>1. restarts < MaxRestarts /\ restarts' = restarts + 1
        BY DEF Restart
      <3> QED  BY <3>1, DistributorAssumption DEF Inv, TypeOK
    <2> QED  BY <2>1, <2>2, <2>3, <2>4, <2>5, <2>6 DEF TypeOK, Stages, Restart
  <1> QED  BY <1>3, <1>4, <1>5 DEF Inv

(* The signal and the scheduler's stop: runs and rows stay. *)
LEMMA SignalKeeps ==
  ASSUME Inv, UNCHANGED <<chainVars, extractor, liquidations, distributions, running,
                          stage, runVars, restarts>>,
         shutdown' \in BOOLEAN, cron' \in {"on", "off"}
  PROVE  Inv'
  <1>1. RunsOK'
    BY RunsStill DEF Inv, chainVars, runVars
  <1>2. RowsOK'
    BY RowsKept DEF chainVars
  <1>3. TypeOK'
    BY DEF Inv, TypeOK, ChainTypeOK, ExtractorTypeOK, chainVars, runVars
  <1> QED  BY <1>1, <1>2, <1>3 DEF Inv

-----------------------------------------------------------------------------
LEMMA InvInit == Init => Inv
  <1> SUFFICES ASSUME Init PROVE Inv
    OBVIOUS
  <1>1. TypeOK
    <2>1. stage \in [Slots -> Stages] /\ todo \in [Slots -> SUBSET Assets]
      BY DEF Init, Stages
    <2>2. asset \in [Slots -> Assets \cup {NoAsset}]
      BY DEF Init
    <2>3. needed \in [Slots -> 0 .. RefuelTo]
      BY DistributorAssumption DEF Init
    <2>4. ChainTypeOK
      BY ContractAssumption DEF Init, ChainInit, ChainTypeOK
    <2>5. ExtractorTypeOK
      BY DEF Init, ExtractorInit, ExtractorTypeOK
    <2>6. restarts \in 0 .. MaxRestarts
      <3>1. restarts = 0
        BY DEF Init
      <3> QED  BY <3>1, DistributorAssumption
    <2> QED  BY <2>1, <2>2, <2>3, <2>4, <2>5, <2>6 DEF Init, TypeOK, Stages
  <1>2. RunsOK
    BY DEF Init, ChainInit, RunsOK, OneRun, Waits, ReceiptsAwaited, Funded, PaysNoWpol,
           Covered, Active
  <1>3. RowsOK
    BY DEF Init, ChainInit, ExtractorInit, RowsOK, LogsOK, Lists
  <1> QED  BY <1>1, <1>2, <1>3 DEF Inv

LEMMA InvNext == Inv /\ [Next]_vars => Inv'
  <1> SUFFICES ASSUME Inv, [Next]_vars PROVE Inv'
    OBVIOUS
  <1>1. CASE Chain
    BY <1>1, ChainKeeps
  <1>2. CASE Extract
    BY <1>2, HandleEventKeeps, ListeningKeeps DEF Extract
  <1>3. ASSUME NEW s \in Slots, Fire(s) PROVE Inv'
    BY <1>3, FireKeeps
  <1>4. ASSUME NEW s \in Slots, RunStep(s) PROVE Inv'
    BY <1>4, ReadGasKeeps, ReadWpolKeeps, SendRefuelKeeps, ConfirmedKeeps, DiscoverKeeps,
       NextAssetKeeps, SendDistributionKeeps, CompleteKeeps, RunFailsKeeps DEF RunStep
  <1>5. CASE Shutdown
    BY <1>5, SignalKeeps DEF Shutdown, Inv, TypeOK
  <1>6. CASE StopCron
    BY <1>6, SignalKeeps DEF StopCron, extractorVars, Inv, TypeOK, ExtractorTypeOK
  <1>7. CASE Restart
    BY <1>7, RestartKeeps
  <1>8. CASE UNCHANGED vars
    BY <1>8, SignalKeeps DEF vars, extractorVars, Inv, TypeOK, ExtractorTypeOK
  <1> QED  BY <1>1, <1>2, <1>3, <1>4, <1>5, <1>6, <1>7, <1>8 DEF Next

LEMMA InvAlways == Spec => []Inv
  BY InvInit, InvNext, PTL DEF Spec

(* The state of the settlement keeps its types: no amount goes below zero, *)
(* no log names a transaction that is not there.                           *)
THEOREM SettlementTypeCorrect == Spec => []TypeOK
  <1>1. Inv => TypeOK
    BY DEF Inv
  <1> QED  BY <1>1, InvAlways, PTL

(* What a run has sent and waits for, the contract can pay, beside any     *)
(* liquidations, faults, reverts, losses and restarts.                     *)
THEOREM SentIsCovered == Spec => []Covered
  <1>1. Inv => Covered
    BY DEF Inv, RunsOK
  <1> QED  BY <1>1, InvAlways, PTL

(* A transaction has one row in the two tables, however often its log is   *)
(* delivered and whatever the extractor missed.                            *)
THEOREM OneRowEach == Spec => []RecordedOnce
  <1>1. Inv => RecordedOnce
    BY DEF Inv, RowsOK, Lists, RecordedOnce
  <1> QED  BY <1>1, InvAlways, PTL

(* WPOL leaves the contract for the wallet's gas and nothing else.         *)
THEOREM WpolOnlyBuysGas == Spec => WpolIsForGas
  <1> DEFINE Bought == \E cost \in Costs :
               gas' = gas - cost + (accumulated[Wpol] - accumulated'[Wpol])
  <1>1. Inv /\ [Next]_vars =>
          [accumulated'[Wpol] < accumulated[Wpol] =>
             Bought]_vars
    <2> SUFFICES ASSUME Inv, Next, accumulated'[Wpol] < accumulated[Wpol]
                 PROVE  Bought
      BY DEF vars, chainVars
    <2>1. Wpol \in Assets /\ accumulated \in [Assets -> Nat] /\ gas \in Nat
      BY ContractAssumption DEF Inv, TypeOK, ChainTypeOK
    <2>2. accumulated' # accumulated
      BY <2>1
    <2>3. Chain
      BY <2>2 DEF Next, Extract, Subscribe, StopExtractor, HandleEvent, HandleFails,
                  Fire, RunStep, ReadGas, ReadWpol, SendRefuel, Confirmed,
                  DiscoverActiveAssets, NextAsset, SendDistribution, Complete, RunFails,
                  Return, Goto, Shutdown, StopCron, Restart, chainVars
    <2>4. CASE Liquidate(Subscribed)
      BY <2>1, <2>4 DEF Liquidate
    <2>5. CASE SpendGas \/ DeliverAgain(Subscribed)
      BY <2>2, <2>5 DEF SpendGas, DeliverAgain
    <2>6. ASSUME NEW t \in pending, MineRefuel(t)
          PROVE  Bought
      <3>1. t.amount \in Nat
        BY DEF Inv, TypeOK, ChainTypeOK, Transactions
      <3>2. PICK cost \in Costs : gas' = gas - cost + t.amount
        BY <2>6 DEF MineRefuel
      <3>3. accumulated[Wpol] - accumulated'[Wpol] = t.amount
        BY <2>1, <2>6, <3>1 DEF MineRefuel
      <3> QED  BY <3>2, <3>3 DEF Bought
    <2>7. ASSUME NEW t \in pending, MineDistribution(t, Subscribed) PROVE FALSE
      <3>1. t.asset # Wpol
        BY <2>7 DEF Inv, RunsOK, PaysNoWpol, MineDistribution
      <3> QED  BY <2>1, <2>7, <3>1 DEF MineDistribution
    <2>8. ASSUME NEW t \in pending, MineReverts(t) \/ Drop(t) PROVE FALSE
      BY <2>2, <2>8 DEF MineReverts, Drop
    <2> QED  BY <2>3, <2>4, <2>5, <2>6, <2>7, <2>8 DEF Chain, Mine
  <1> QED  BY <1>1, InvAlways, PTL DEF Spec, WpolIsForGas

-----------------------------------------------------------------------------
(* The flag and the runs: the flag is set exactly while there is a run,    *)
(* there is one run at most, and of the transactions in the pool one at    *)
(* most is waited for, by that run.                                        *)
FlagHeld == running => \E s \in Slots : Active(s)

RunsApart ==
  /\ running <=> \E s \in Slots : Active(s)
  /\ \A s, z \in Slots : Active(s) /\ Active(z) => s = z
  /\ \A t \in pending : t.slot # 0 => pending = {t} /\ Active(t.slot)

LEMMA FlagHeldStep ==
  ASSUME Inv, FlagHeld, [Next]_vars
  PROVE  FlagHeld'
  <1>0. stage \in [Slots -> Stages] /\ \A s \in Slots : Active(s) => running
    BY DEF Inv, TypeOK, Stages, RunsOK, OneRun
  <1>1. CASE Chain \/ Extract \/ Shutdown \/ StopCron \/ UNCHANGED vars
    BY <1>1 DEF Chain, ours, Extract, Shutdown, StopCron, vars, FlagHeld, Active
  <1>2. CASE Restart
    BY <1>2 DEF Restart, FlagHeld
  <1>3. ASSUME NEW s \in Slots, Fire(s) PROVE FlagHeld'
    <2>1. stage'[s] = "gas"
      BY <1>0, <1>3 DEF Fire
    <2> QED  BY <2>1 DEF FlagHeld, Active
  <1>4. ASSUME NEW s \in Slots, Complete(s) \/ RunFails(s) PROVE FlagHeld'
    BY <1>4 DEF Complete, RunFails, Return, FlagHeld
  <1>5. ASSUME NEW s \in Slots, NEW place \in Stages \ {"idle"}, Goto(s, place)
        PROVE  FlagHeld'
    <2>1. stage'[s] = place
      BY <1>0, <1>5 DEF Goto
    <2> QED  BY <1>5, <2>1 DEF FlagHeld, Active
  <1>6. ASSUME NEW s \in Slots, RunStep(s), ~Complete(s), ~RunFails(s)
        PROVE  \E place \in Stages \ {"idle"} : Goto(s, place)
    BY <1>6 DEF RunStep, ReadGas, ReadWpol, SendRefuel, Confirmed, DiscoverActiveAssets,
                NextAsset, SendDistribution, Stages
  <1> QED  BY <1>1, <1>2, <1>3, <1>4, <1>5, <1>6 DEF Next

(* No run starts beside another, every way out of a run clears the flag,   *)
(* and a run that gave up or was killed leaves nothing that is taken for   *)
(* the next run's transaction.                                             *)
THEOREM RunsNeverOverlap == Spec => []RunsApart
  <1>1. Init => FlagHeld
    BY DEF Init, FlagHeld
  <1>2. Inv /\ FlagHeld /\ [Next]_vars => FlagHeld'
    BY FlagHeldStep
  <1>3. Inv /\ FlagHeld => RunsApart
    <2> SUFFICES ASSUME Inv, FlagHeld PROVE RunsApart
      OBVIOUS
    <2>1. /\ \A s \in Slots : Active(s) => running
          /\ \A s, z \in Slots : Active(s) /\ Active(z) => s = z
      BY DEF Inv, RunsOK, OneRun
    <2>2. ASSUME NEW t \in pending, t.slot # 0
          PROVE  pending = {t} /\ Active(t.slot)
      BY <2>2 DEF Inv, RunsOK, Waits, Waiting, Active
    <2> QED  BY <2>1, <2>2 DEF RunsApart, FlagHeld
  <1> QED  BY <1>1, <1>2, <1>3, InvAlways, PTL DEF Spec

-----------------------------------------------------------------------------
(* A row of each table tells of a logged transaction of the table's kind,  *)
(* with the assets it was logged with.                                     *)
Tells(table, kind) ==
  \A r \in table :
    /\ r.tx \in 1 .. Len(mined)
    /\ mined[r.tx].kind = kind
    /\ mined[r.tx].asset = r.asset
    /\ mined[r.tx].coll = r.coll

RowsTell == Tells(liquidations, "liquidation") /\ Tells(distributions, "distribution")

(* What was logged stays logged, at its place. *)
LEMMA MinedGrows ==
  ASSUME Inv, [Next]_vars
  PROVE  /\ \A i \in 1 .. Len(mined) : i \in 1 .. Len(mined') /\ mined'[i] = mined[i]
         /\ HandleEvent => mined' = mined
         /\ ~HandleEvent => UNCHANGED <<liquidations, distributions>>
  <1>1. mined \in Seq(Events) /\ Len(mined) \in Nat
    BY DEF Inv, TypeOK, ChainTypeOK
  <1>2. mined' = mined \/ \E e \in Events : mined' = Append(mined, e)
    <2>1. CASE Chain
      <3>1. CASE Liquidate(Subscribed)
        BY <3>1, ContractAssumption DEF Liquidate, Emit, Events
      <3>2. ASSUME NEW t \in pending, MineDistribution(t, Subscribed)
            PROVE  \E e \in Events : mined' = Append(mined, e)
        <4>1. t.asset \in Assets
          BY DEF Inv, TypeOK, ChainTypeOK, Transactions
        <4> QED  BY <3>2, <4>1 DEF MineDistribution, Emit, Events
      <3> QED  BY <2>1, <3>1, <3>2 DEF Chain, SpendGas, DeliverAgain, Mine, MineRefuel,
                                       MineReverts, Drop
    <2>2. CASE ~Chain
      BY <2>2 DEF Next, Extract, Subscribe, StopExtractor, HandleEvent, HandleFails,
                  Fire, RunStep, ReadGas, ReadWpol, SendRefuel, Confirmed,
                  DiscoverActiveAssets, NextAsset, SendDistribution, Complete, RunFails,
                  Return, Goto, Shutdown, StopCron, Restart, vars, chainVars
    <2> QED  BY <2>1, <2>2
  <1>3. HandleEvent => mined' = mined
    BY DEF HandleEvent
  <1>4. ~HandleEvent => UNCHANGED <<liquidations, distributions>>
    BY DEF Next, Chain, ours, Extract, Subscribe, StopExtractor, HandleFails,
           Fire, RunStep, ReadGas, ReadWpol, SendRefuel, Confirmed,
           DiscoverActiveAssets, NextAsset, SendDistribution, Complete, RunFails,
           Return, Goto, Shutdown, StopCron, Restart, vars, extractorVars
  <1> QED  BY <1>1, <1>2, <1>3, <1>4

LEMMA RowsTellStep ==
  ASSUME Inv, RowsTell, [Next]_vars
  PROVE  RowsTell'
  <1>1. CASE ~HandleEvent
    <2>1. UNCHANGED <<liquidations, distributions>>
      BY <1>1, MinedGrows
    <2>2. \A i \in 1 .. Len(mined) : i \in 1 .. Len(mined') /\ mined'[i] = mined[i]
      BY MinedGrows
    <2> QED  BY <2>1, <2>2 DEF RowsTell, Tells
  <1>2. CASE HandleEvent
    <2> DEFINE log == Head(feed)
               row == RowOf(log)
    <2>1. mined' = mined
      BY <1>2, MinedGrows
    <2>2. log \in Logs(Len(mined))
      BY <1>2 DEF HandleEvent, Inv, RowsOK, LogsOK
    <2>3. log.tx \in 1 .. Len(mined)
      BY <2>2 DEF Logs
    <2>4. /\ row.tx = log.tx
          /\ row.asset = mined[log.tx].asset /\ row.coll = mined[log.tx].coll
      BY DEF RowOf
    <2>5. \/ /\ mined[log.tx].kind = "liquidation"
             /\ liquidations' = InsertOrIgnore(liquidations, row)
             /\ UNCHANGED distributions
          \/ /\ mined[log.tx].kind = "distribution"
             /\ distributions' = InsertOrIgnore(distributions, row)
             /\ UNCHANGED liquidations
      BY <1>2 DEF HandleEvent
    <2> HIDE DEF log, row
    <2>6. /\ \A r \in liquidations' :
                r \in liquidations \/ (r = row /\ mined[log.tx].kind = "liquidation")
          /\ \A r \in distributions' :
                r \in distributions \/ (r = row /\ mined[log.tx].kind = "distribution")
      BY <2>5 DEF InsertOrIgnore
    <2> QED  BY <2>1, <2>3, <2>4, <2>6 DEF RowsTell, Tells
  <1> QED  BY <1>1, <1>2

(* No row is made up and none is mixed up, whatever logs are delivered     *)
(* again or missed and however often the bot starts again: what the        *)
(* extractor recorded of a transaction is what the contract logged.        *)
THEOREM RowsTellTheLogs == Spec => []RowsTell
  <1>1. Init => RowsTell
    BY DEF Init, ExtractorInit, RowsTell, Tells
  <1>2. Inv /\ RowsTell /\ [Next]_vars => RowsTell'
    BY RowsTellStep
  <1> QED  BY <1>1, <1>2, InvAlways, PTL DEF Spec

=============================================================================
