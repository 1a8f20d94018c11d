--------------------------- MODULE LiqDataExtractor ---------------------------
(***************************************************************************)
(* The extractor of liq_data_extractor.rs, which records the contract's    *)
(* logs in SQLite, and the records of common/mod.rs it saves.              *)
(*                                                                         *)
(* It sees the logs from the moment it subscribes until it stops.  Symbols *)
(* and amounts, which it asks the tokens for, are left out.                *)
(***************************************************************************)
EXTENDS FlashLiquidator

VARIABLES
  extractor,     \* "starting", "listening" or "stopped"
  shutdown,      \* the shutdown signal
  liquidations,  \* rows of the table liquidations
  distributions  \* rows of the table distributions

extractorVars == <<extractor, shutdown, liquidations, distributions>>

(***************************************************************************)
(* A row's tx_hash, its block or timestamp, here whether the log was one   *)
(* delivered again, and its assets.  How an address is written is          *)
(* ProfitDistributor's, which reads it.                                    *)
(***************************************************************************)
Rows == [tx : Nat \ {0}, again : BOOLEAN, asset : Assets, coll : Assets]

ExtractorInit ==
  /\ extractor = "starting"
  /\ shutdown = FALSE
  /\ liquidations = {}
  /\ distributions = {}

Subscribed == extractor = "listening"

(* stream_with_meta; its failure, which ends the task, is a stop at once *)
Subscribe ==
  /\ extractor = "starting"
  /\ extractor' = "listening"
  /\ UNCHANGED <<shutdown, liquidations, distributions, chainVars>>

(* The select's other arm, or the stream's end. *)
StopExtractor ==
  /\ extractor = "listening"
  /\ extractor' = "stopped"
  /\ feed' = <<>>
  /\ UNCHANGED <<shutdown, liquidations, distributions, accumulated, gas,
                 mined, again, faults, pending, receipts>>

(* Mutant: inserts whatever the table has. *)
InsertAlways(table, row) == table \cup {row}

(* INSERT OR IGNORE into a table whose tx_hash is UNIQUE *)
InsertOrIgnore(table, row) ==
  IF \E r \in table : r.tx = row.tx THEN table ELSE table \cup {row}

RowOf(log) ==
  [tx |-> log.tx, again |-> log.again,
   asset |-> mined[log.tx].asset, coll |-> mined[log.tx].coll]

(* handle_event, to the save. *)
HandleEvent ==
  /\ extractor = "listening"
  /\ feed # <<>>
  /\ LET log == Head(feed) IN
       \/ /\ mined[log.tx].kind = "liquidation"
          /\ liquidations' = InsertOrIgnore(liquidations, RowOf(log))
          /\ UNCHANGED distributions
       \/ /\ mined[log.tx].kind = "distribution"
          /\ distributions' = InsertOrIgnore(distributions, RowOf(log))
          /\ UNCHANGED liquidations
  /\ feed' = Tail(feed)
  /\ UNCHANGED <<extractor, shutdown, accumulated, gas, mined, again, faults,
                 pending, receipts>>

(* An error is logged, and the event is not handled again. *)
HandleFails ==
  /\ extractor = "listening"
  /\ feed # <<>>
  /\ feed' = Tail(feed)
  /\ UNCHANGED <<extractorVars, accumulated, gas, mined, again, faults, pending, receipts>>

ExtractorTypeOK ==
  /\ extractor \in {"starting", "listening", "stopped"}
  /\ shutdown \in BOOLEAN
  /\ liquidations \subseteq Rows
  /\ distributions \subseteq Rows

(***************************************************************************)
(* A transaction is recorded once, however often and of whichever block    *)
(* its log is delivered ("record_save_is_idempotent_by_tx_hash", the tests *)
(* of common/mod.rs).                                                      *)
(***************************************************************************)
RecordedOnce ==
  \A r1, r2 \in liquidations \cup distributions : r1.tx = r2.tx => r1 = r2

=============================================================================
