----------------------- MODULE MorphoWatchListUpdater ------------------------
(***************************************************************************)
(* watchlist_updaters/morpho_watchlist_updater.rs: one task selects over   *)
(* the prune commands and three event streams.  A handler runs to its end  *)
(* before the next select; a prune runs Concurrency jobs at a time inside  *)
(* its handler.                                                            *)
(***************************************************************************)
EXTENDS DebtEvents

CONSTANTS
  Concurrency, \* 4: jobs of a prune that run at once
  CmdCap       \* capacity of the command channel

ASSUME UpdaterAssumption ==
  Concurrency \in Nat \ {0} /\ CmdCap \in Nat \ {0}

VARIABLES
  updater,  \* "select", "event", "prune" or "stopped"
  commands  \* prune commands in the channel

vars == <<listVars, eventVars, updater, commands>>

Init ==
  /\ ListInit
  /\ EventsInit
  /\ updater = "select"
  /\ commands = 0

(* The contract and the node. *)
ChainStep ==
  /\ \/ \E e \in Pairs : Borrow(e) \/ Reduce(e)
     \/ \E c \in Channels : EndStream(c)
  /\ UNCHANGED <<listVars, updater, commands>>

(* watchlist_pruner.rs, on every PRUNE_INTERVAL-th block *)
SendPrune ==
  /\ updater # "stopped"
  /\ commands < CmdCap
  /\ commands' = commands + 1
  /\ UNCHANGED <<listVars, eventVars, updater>>

-----------------------------------------------------------------------------
(* Mutant: a borrower already tracked is taken for a pair tracked. *)
HandleBorrowOfNew(c) ==
  /\ updater = "select"
  /\ Read(c)
  /\ Head(streams[c]).kind = "borrow"
  /\ IF RowOf(cache, Head(streams[c]).pair) = {}
       THEN Add(Head(streams[c]).pair)
       ELSE UNCHANGED listVars
  /\ updater' = "event"
  /\ UNCHANGED commands

(* The borrow arm: add_borrow. *)
HandleBorrow(c) ==
  /\ updater = "select"
  /\ Read(c)
  /\ Head(streams[c]).kind = "borrow"
  /\ Add(Head(streams[c]).pair)
  /\ updater' = "event"
  /\ UNCHANGED commands

(* The repay and liquidation arms: remove_if_cleared. *)
HandleRepay(c) ==
  /\ updater = "select"
  /\ Read(c)
  /\ Head(streams[c]).kind # "borrow"
  /\ SetJob(Head(streams[c]).pair, "check")
  /\ updater' = "event"
  /\ UNCHANGED <<cache, rows, row, sledFailures, commands>>

(* Mutant: one market of each borrower, as in Aave's list. *)
StartPruneOfOne ==
  /\ updater = "select"
  /\ commands > 0
  /\ commands' = commands - 1
  /\ \E s \in SUBSET cache :
       /\ \A e \in cache : Cardinality(RowOf(s, e)) = 1
       /\ job' = [e \in Pairs |-> IF e \in s THEN "waiting" ELSE "none"]
  /\ updater' = "prune"
  /\ UNCHANGED <<cache, rows, row, sledFailures, eventVars>>

(* The snapshot of morpho_watchlist.rs names every pair. *)
StartPrune ==
  /\ updater = "select"
  /\ commands > 0
  /\ commands' = commands - 1
  /\ job' = [e \in Pairs |-> IF e \in cache THEN "waiting" ELSE "none"]
  /\ updater' = "prune"
  /\ UNCHANGED <<cache, rows, row, sledFailures, eventVars>>

BeginJob(e) ==
  /\ job[e] = "waiting"
  /\ Cardinality(Active) < Concurrency
  /\ SetJob(e, "check")
  /\ UNCHANGED <<cache, rows, row, sledFailures, eventVars, updater, commands>>

(* check_and_remove_by_identity: the node reads the debt now; its answer *)
(* is acted upon in a later step. *)
CheckDebt(e) ==
  /\ job[e] = "check"
  /\ SetJob(e, IF e \in owed THEN "none" ELSE "clear")
  /\ UNCHANGED <<cache, rows, row, sledFailures, eventVars, updater, commands>>

(* A failed check is logged and the pair stays. *)
CheckFails(e) ==
  /\ job[e] = "check"
  /\ SetJob(e, "none")
  /\ UNCHANGED <<cache, rows, row, sledFailures, eventVars, updater, commands>>

RemoveCleared(e) == Remove(e) /\ UNCHANGED <<eventVars, updater, commands>>

FinishWrite(e) == WriteRow(e) /\ UNCHANGED <<eventVars, updater, commands>>

(* A failed write ends the updater, except within a prune. *)
FailWrite(e) ==
  /\ WriteFails(e)
  /\ IF updater = "event"
       THEN updater' = "stopped" /\ StopListening
       ELSE UNCHANGED <<updater, eventVars>>
  /\ UNCHANGED commands

FinishHandler ==
  /\ updater \in {"event", "prune"}
  /\ NoJobs
  /\ updater' = "select"
  /\ UNCHANGED <<listVars, eventVars, commands>>

(* The shutdown signal, or the pruner is gone. *)
Stop ==
  /\ updater = "select"
  /\ updater' = "stopped"
  /\ StopListening
  /\ UNCHANGED <<listVars, commands>>

Handle == \E c \in Channels : HandleBorrow(c) \/ HandleRepay(c)

JobStep(e) ==
  \/ BeginJob(e)
  \/ CheckDebt(e)
  \/ CheckFails(e)
  \/ RemoveCleared(e)
  \/ FinishWrite(e)
  \/ FailWrite(e)

Next ==
  \/ ChainStep
  \/ SendPrune
  \/ Handle
  \/ StartPrune
  \/ \E e \in Pairs : JobStep(e)
  \/ FinishHandler
  \/ Stop

Spec == Init /\ [][Next]_vars

(***************************************************************************)
(* The updater's task is polled, its calls return, and of the arms of its  *)
(* select that stay ready none is passed over for ever.  Blocks keep       *)
(* coming, so prunes do, and a debt check that is made again and again is  *)
(* answered some time.                                                     *)
(***************************************************************************)
Fairness ==
  /\ WF_vars(SendPrune)
  /\ SF_vars(Handle)
  /\ SF_vars(StartPrune)
  /\ WF_vars(FinishHandler)
  /\ \A e \in Pairs : WF_vars(JobStep(e)) /\ SF_vars(CheckDebt(e))

FairSpec == Spec /\ Fairness

-----------------------------------------------------------------------------
TypeOK ==
  /\ ListTypeOK
  /\ EventsTypeOK
  /\ updater \in {"select", "event", "prune", "stopped"}
  /\ commands \in 0 .. CmdCap

(***************************************************************************)
(* A borrower in debt is tracked, or the borrow is still to be read, or    *)
(* no stream of the updater carried it: a removal that acts on an old      *)
(* answer of the node, in whatever order the three streams are read,       *)
(* never loses a debt the updater heard of.                                *)
(***************************************************************************)
NoDebtorLost == owed \subseteq cache \cup Pending \cup missed

(***************************************************************************)
(* Between two handlers every tracked pair is in the tree, whatever writes *)
(* were under way at once, in whatever order they took effect or failed:   *)
(* a process that stops there finds each again, but for what sled had not  *)
(* flushed, which this module does not lose.                               *)
(***************************************************************************)
TrackedOnDisk == updater = "select" => cache \subseteq rows

(***************************************************************************)
(* A pair whose debt is gone leaves the list, though the check that        *)
(* follows its last event may fail and its events may be missed: a later   *)
(* prune gets it, unless the updater stops or the debt comes back.         *)
(***************************************************************************)
StalePairsPruned ==
  \A e \in Pairs :
    e \in cache \ owed ~> (e \notin cache \/ e \in owed \/ updater = "stopped")

(***************************************************************************)
(* A borrow the updater was told of is tracked in the end, however many    *)
(* prunes and other events come between.                                   *)
(***************************************************************************)
BorrowsTracked ==
  \A e \in Pairs :
    e \in Pending ~> (e \in cache \/ e \notin owed \/ updater = "stopped")

(***************************************************************************)
(* "Persist a specific borrower's set to sled" (morpho_watchlist.rs:36):   *)
(* between two handlers, and if no write failed, the tree holds what the   *)
(* map holds.                                                              *)
(***************************************************************************)
TreeMatchesMap == updater = "select" /\ sledFailures = 0 => rows = cache

=============================================================================
