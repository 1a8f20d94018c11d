-------------------------- MODULE ProfitDistributor --------------------------
(***************************************************************************)
(* The weekly settlement of profit_distributor.rs, beside the contract and *)
(* the extractor whose rows tell it which assets to look at.               *)
(*                                                                         *)
(* The scheduler spawns a run every Sunday; running keeps a second one     *)
(* out.  A run tops the wallet's gas up from accumulated WPOL, then pays   *)
(* out every other asset it knows.  Any error ends it: a wallet that       *)
(* cannot pay for the transaction that would refuel it, for one.  The      *)
(* process may be stopped or killed at any point, and starts again.        *)
(***************************************************************************)
EXTENDS LiqDataExtractor

CONSTANTS
  Listed,      \* PROFIT_DIST_ASSETS
  Broken,      \* tokens whose symbol cannot be read
  Threshold,   \* GAS_THRESHOLD
  RefuelTo,    \* REFUEL_AMT
  MaxRestarts, \* bound: how often the process starts again
  NoAsset

ASSUME DistributorAssumption ==
  /\ Listed \subseteq Assets /\ Wpol \in Listed
  /\ Broken \subseteq Assets
  /\ Threshold \in Nat /\ RefuelTo \in Nat
  /\ MaxRestarts \in Nat
  /\ NoAsset \notin Assets

VARIABLES
  cron,     \* "on" until the scheduler is shut down
  running,  \* the flag
  stage,    \* where each run is
  needed,   \* refuel_amt
  todo,     \* the assets left to look at
  asset,    \* the asset being distributed
  restarts  \* restarts so far

runVars == <<needed, todo, asset>>
vars == <<chainVars, extractorVars, cron, running, stage, runVars, restarts>>

Init ==
  /\ ChainInit
  /\ ExtractorInit
  /\ cron = "on"
  /\ running = FALSE
  /\ stage = [s \in Slots |-> "idle"]
  /\ needed = [s \in Slots |-> 0]
  /\ todo = [s \in Slots |-> {}]
  /\ asset = [s \in Slots |-> NoAsset]
  /\ restarts = 0

Active(s) == stage[s] # "idle"

-----------------------------------------------------------------------------
(***************************************************************************)
(* The scheduler's job.  A week is more than a transaction spends in the   *)
(* pool, so what an earlier run left there is mined or forgotten.  The run *)
(* takes the first slot that is free.                                      *)
(***************************************************************************)
Sunday(s) ==
  /\ cron = "on"
  /\ \A t \in pending : t.slot # 0
  /\ ~Active(s)
  /\ \A z \in Slots : z < s => Active(z)

(* Mutant: the flag is set but not looked at. *)
FireUnchecked(s) ==
  /\ Sunday(s)
  /\ running' = TRUE
  /\ stage' = [stage EXCEPT ![s] = "gas"]
  /\ UNCHANGED <<chainVars, extractorVars, cron, runVars, restarts>>

(* compare_exchange on the flag; with the flag set the job returns. *)
Fire(s) ==
  /\ Sunday(s)
  /\ ~running
  /\ running' = TRUE
  /\ stage' = [stage EXCEPT ![s] = "gas"]
  /\ UNCHANGED <<chainVars, extractorVars, cron, runVars, restarts>>

Goto(s, place) ==
  /\ stage' = [stage EXCEPT ![s] = place]
  /\ UNCHANGED <<extractorVars, cron, running, restarts, accumulated, gas, mined,
                 again, faults, feed>>

(* The run returns, in success or with an error: the flag is cleared. *)
Return(s) ==
  /\ stage' = [stage EXCEPT ![s] = "idle"]
  /\ running' = FALSE
  /\ todo' = [todo EXCEPT ![s] = {}]
  /\ asset' = [asset EXCEPT ![s] = NoAsset]
  /\ needed' = [needed EXCEPT ![s] = 0]
  /\ UNCHANGED <<extractorVars, cron, restarts, accumulated, gas, mined, again, feed>>

-----------------------------------------------------------------------------
(* ensure_gas_balance *)
ReadGas(s) ==
  /\ stage[s] = "gas"
  /\ \/ /\ gas >= Threshold
        /\ Goto(s, "assets")
        /\ UNCHANGED needed
     \/ /\ gas < Threshold
        /\ needed' = [needed EXCEPT ![s] = IF gas < RefuelTo THEN RefuelTo - gas ELSE 0]
        /\ Goto(s, "wpol")
  /\ UNCHANGED <<pending, receipts, todo, asset>>

(* Mutant: asks for more than is needed. *)
RefuelsOver(s) == accumulated[Wpol] > needed[s] /\ needed[s] > 0

Refuels(s) == accumulated[Wpol] >= needed[s] /\ needed[s] > 0

ReadWpol(s) ==
  /\ stage[s] = "wpol"
  /\ \/ /\ Refuels(s)
        /\ Goto(s, "refuel")
        /\ UNCHANGED needed
     \/ /\ ~Refuels(s)
        /\ Goto(s, "assets")
        /\ needed' = [needed EXCEPT ![s] = 0]
  /\ UNCHANGED <<pending, receipts, todo, asset>>

SendRefuel(s) ==
  /\ stage[s] = "refuel"
  /\ Affordable
  /\ pending' = pending \cup
       {[slot |-> s, call |-> "refuelGas", asset |-> Wpol, amount |-> needed[s]]}
  /\ Goto(s, "refuelling")
  /\ UNCHANGED <<receipts, runVars>>

(***************************************************************************)
(* A receipt with its confirmations; whether it tells of success is not    *)
(* looked at.                                                              *)
(***************************************************************************)
Confirmed(s) ==
  /\ stage[s] \in {"refuelling", "paying"}
  /\ s \in receipts
  /\ receipts' = receipts \ {s}
  /\ Goto(s, IF stage[s] = "refuelling" THEN "assets" ELSE "next")
  /\ needed' = [needed EXCEPT ![s] = 0]
  /\ asset' = [asset EXCEPT ![s] = NoAsset]
  /\ UNCHANGED <<pending, todo>>

(***************************************************************************)
(* discover_active_assets: the listed assets and those of the rows.  The   *)
(* rows' addresses were written by to_string, which abbreviates them to    *)
(* their first and last two bytes; from_str wants all forty digits.        *)
(***************************************************************************)
WrittenDigits == 8
ReadDigits == 40

Recorded == {r.asset : r \in liquidations} \cup {r.coll : r \in liquidations}

Discovered == IF WrittenDigits = ReadDigits THEN Recorded ELSE {}

DiscoverActiveAssets(s) ==
  /\ stage[s] = "assets"
  /\ todo' = [todo EXCEPT ![s] = Listed \cup Discovered]
  /\ Goto(s, "next")
  /\ UNCHANGED <<pending, receipts, needed, asset>>

(* Mutant: WPOL is paid out as well. *)
SkipsNothing(a) == accumulated[a] = 0

Skips(a) == accumulated[a] = 0 \/ a = Wpol

(* The next asset of the set, in no order, and accumulated_profits. *)
NextAsset(s, a) ==
  /\ stage[s] = "next"
  /\ a \in todo[s]
  /\ todo' = [todo EXCEPT ![s] = @ \ {a}]
  /\ \/ /\ Skips(a)
        /\ Goto(s, "next")
        /\ UNCHANGED asset
     \/ /\ ~Skips(a)
        /\ asset' = [asset EXCEPT ![s] = a]
        /\ Goto(s, "send")
  /\ UNCHANGED <<pending, receipts, needed>>

(* get_token_symbol, then the transaction *)
SendDistribution(s) ==
  /\ stage[s] = "send"
  /\ asset[s] \notin Broken
  /\ Affordable
  /\ pending' = pending \cup
       {[slot |-> s, call |-> "distributeProfits", asset |-> asset[s], amount |-> 0]}
  /\ Goto(s, "paying")
  /\ UNCHANGED <<receipts, runVars>>

Complete(s) ==
  /\ stage[s] = "next"
  /\ todo[s] = {}
  /\ Return(s)
  /\ UNCHANGED <<pending, receipts, faults>>

(***************************************************************************)
(* An error ends the run, and what it sent may stay in the pool: any call  *)
(* fails, the node refuses a transaction the wallet cannot pay for, the    *)
(* token has no symbol to read, or the transaction is gone.                *)
(***************************************************************************)
Gone(s) ==
  /\ stage[s] \in {"refuelling", "paying"}
  /\ s \notin receipts
  /\ \A t \in pending : t.slot # s

Errs(s) ==
  \/ Active(s) /\ ~(stage[s] = "next" /\ todo[s] = {}) /\ Fault
  \/ stage[s] \in {"refuel", "send"} /\ ~Affordable /\ UNCHANGED faults
  \/ stage[s] = "send" /\ asset[s] \in Broken /\ UNCHANGED faults
  \/ Gone(s) /\ UNCHANGED faults

Abandon(s) ==
  /\ pending' = {IF t.slot = s THEN [t EXCEPT !.slot = 0] ELSE t : t \in pending}
  /\ receipts' = receipts \ {s}

(* Mutant: an error leaves the flag set. *)
RunFailsHeld(s) ==
  /\ Errs(s)
  /\ stage' = [stage EXCEPT ![s] = "idle"]
  /\ todo' = [todo EXCEPT ![s] = {}]
  /\ asset' = [asset EXCEPT ![s] = NoAsset]
  /\ needed' = [needed EXCEPT ![s] = 0]
  /\ Abandon(s)
  /\ UNCHANGED <<extractorVars, cron, running, restarts, accumulated, gas, mined,
                 again, feed>>

RunFails(s) ==
  /\ Errs(s)
  /\ Return(s)
  /\ Abandon(s)

-----------------------------------------------------------------------------
(* The signal; start shuts the scheduler down, runs go on to the end. *)
Shutdown ==
  /\ ~shutdown
  /\ shutdown' = TRUE
  /\ UNCHANGED <<chainVars, extractor, liquidations, distributions, cron, running,
                 stage, runVars, restarts>>

StopCron ==
  /\ shutdown
  /\ cron = "on"
  /\ cron' = "off"
  /\ UNCHANGED <<chainVars, extractorVars, running, stage, runVars, restarts>>

(***************************************************************************)
(* The process ends, after a shutdown or not, and another starts: its runs *)
(* and the logs on their way are gone, its transactions are not.           *)
(***************************************************************************)
Restart ==
  /\ restarts < MaxRestarts
  /\ restarts' = restarts + 1
  /\ extractor' = "starting"
  /\ shutdown' = FALSE
  /\ feed' = <<>>
  /\ cron' = "on"
  /\ running' = FALSE
  /\ stage' = [s \in Slots |-> "idle"]
  /\ needed' = [s \in Slots |-> 0]
  /\ todo' = [s \in Slots |-> {}]
  /\ asset' = [s \in Slots |-> NoAsset]
  /\ pending' = {[t EXCEPT !.slot = 0] : t \in pending}
  /\ receipts' = {}
  /\ UNCHANGED <<accumulated, gas, mined, again, faults, liquidations, distributions>>

-----------------------------------------------------------------------------
RunStep(s) ==
  \/ ReadGas(s)
  \/ ReadWpol(s)
  \/ SendRefuel(s)
  \/ Confirmed(s)
  \/ DiscoverActiveAssets(s)
  \/ \E a \in Assets : NextAsset(s, a)
  \/ SendDistribution(s)
  \/ Complete(s)
  \/ RunFails(s)

Mine(t) == MineRefuel(t) \/ MineDistribution(t, Subscribed) \/ MineReverts(t)

ours == <<extractorVars, cron, running, stage, runVars, restarts>>

Chain ==
  /\ \/ Liquidate(Subscribed)
     \/ SpendGas
     \/ DeliverAgain(Subscribed)
     \/ \E t \in pending : Mine(t) \/ Drop(t)
  /\ UNCHANGED ours

Extract ==
  /\ \/ Subscribe
     \/ StopExtractor
     \/ HandleEvent
     \/ HandleFails
  /\ UNCHANGED <<cron, running, stage, runVars, restarts>>

Next ==
  \/ Chain
  \/ Extract
  \/ \E s \in Slots : Fire(s) \/ RunStep(s)
  \/ Shutdown
  \/ StopCron
  \/ Restart

Spec == Init /\ [][Next]_vars

(***************************************************************************)
(* Sundays come, a run goes on, and what is in the pool is mined.  The     *)
(* order of a HashSet changes from run to run: an asset that runs may look *)
(* at next again and again, one looks at some time.  Nothing is assumed of *)
(* the chain's other steps nor of the extractor.                           *)
(***************************************************************************)
Fairness ==
  /\ WF_vars((\E t \in pending : Mine(t)) /\ UNCHANGED ours)
  /\ \A s \in Slots : WF_vars(Fire(s)) /\ WF_vars(RunStep(s))
  /\ \A a \in Listed \ ({Wpol} \cup Broken) :
       SF_vars(\E s \in Slots : NextAsset(s, a))

FairSpec == Spec /\ Fairness

-----------------------------------------------------------------------------
TypeOK ==
  /\ ChainTypeOK
  /\ ExtractorTypeOK
  /\ cron \in {"on", "off"}
  /\ running \in BOOLEAN
  /\ stage \in [Slots -> {"idle", "gas", "wpol", "refuel", "refuelling", "assets",
                          "next", "send", "paying"}]
  /\ needed \in [Slots -> 0 .. RefuelTo]
  /\ todo \in [Slots -> SUBSET Assets]
  /\ asset \in [Slots -> Assets \cup {NoAsset}]
  /\ restarts \in 0 .. MaxRestarts

(***************************************************************************)
(* "Non-overlapping" (profit_distributor.rs): what a run has sent and      *)
(* waits for, the contract can pay, because nothing but the run itself     *)
(* takes anything from it.                                                 *)
(***************************************************************************)
Covered == \A t \in pending : t.slot # 0 => Payable(t)

(***************************************************************************)
(* "Skip WPOL since it's used for gas top-ups": WPOL leaves the contract   *)
(* only for the wallet's gas, of which the transaction itself takes some.  *)
(***************************************************************************)
WpolIsForGas ==
  [][accumulated'[Wpol] < accumulated[Wpol] =>
       \E cost \in Costs :
         gas' = gas - cost + (accumulated[Wpol] - accumulated'[Wpol])]_vars

(***************************************************************************)
(* Profits in a listed token are paid out some Sunday, whatever fails for  *)
(* other tokens, unless the bot is being stopped or its wallet cannot pay  *)
(* for a transaction.                                                      *)
(***************************************************************************)
ProfitsPaid ==
  \A a \in Listed \ ({Wpol} \cup Broken) :
    accumulated[a] > 0 ~> (accumulated[a] = 0 \/ ~Affordable \/ shutdown)

(***************************************************************************)
(* A wallet low on gas, which can pay for a transaction still, is          *)
(* refuelled some Sunday when the contract has the WPOL to top it up: WPOL *)
(* that would do does not lie there while the gas runs out.  A wallet that *)
(* cannot pay any more is stuck: every run ends at the refuel.             *)
(***************************************************************************)
GasRestored ==
  (gas < Threshold /\ accumulated[Wpol] >= RefuelTo - gas) ~>
    (gas >= Threshold \/ accumulated[Wpol] < RefuelTo - gas \/ ~Affordable \/ shutdown)

(***************************************************************************)
(* "Indexing for faster ... Distributor discovery" (the first migration in *)
(* db/): the assets of recorded liquidations are among those a run looks   *)
(* at.                                                                     *)
(***************************************************************************)
RecordedIsDiscovered ==
  [][\A s \in Slots :
       stage[s] = "assets" /\ stage'[s] = "next" => Recorded \subseteq todo'[s]]_vars

=============================================================================
