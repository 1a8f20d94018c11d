------------------------ MODULE AaveWatchListUpdater -------------------------
(***************************************************************************)
(* watchlist_updaters/aave_watchlist_updater.rs: one task selects over the *)
(* prune commands and the one stream of the pool's events.  Unlike Morpho's*)
(* updater it stops when the stream ends or a check that follows an event  *)
(* fails, and its prune looks at one reserve of each borrower.             *)
(***************************************************************************)
EXTENDS DebtEvents

CONSTANTS
  Concurrency, \* 4: jobs of a prune that run at once
  CmdCap       \* capacity of the command channel

ASSUME UpdaterAssumption ==
  Concurrency \in Nat \ {0} /\ CmdCap \in Nat \ {0}

VARIABLES
  updater,  \* "select", "event", "prune" or "stopped"
  commands  \* prune commands in the channel

vars == <<listVars, eventVars, updater, commands>>

Init ==
  /\ ListInit
  /\ EventsInit
  /\ updater = "select"
  /\ commands = 0

(* The contract and the node. *)
ChainStep ==
  /\ \/ \E e \in Pairs : Borrow(e) \/ Reduce(e)
     \/ \E c \in Channels : EndStream(c)
  /\ UNCHANGED <<listVars, updater, commands>>

(* watchlist_pruner.rs, on every PRUNE_INTERVAL-th block *)
SendPrune ==
  /\ updater # "stopped"
  /\ commands < CmdCap
  /\ commands' = commands + 1
  /\ UNCHANGED <<listVars, eventVars, updater>>

-----------------------------------------------------------------------------
(* handle_event of a Borrow *)
HandleBorrow(c) ==
  /\ updater = "select"
  /\ Read(c)
  /\ Head(streams[c]).kind = "borrow"
  /\ Add(Head(streams[c]).pair)
  /\ updater' = "event"
  /\ UNCHANGED commands

(* Mutant: a repayment is taken to clear the debt. *)
HandleRepayUnchecked(c) ==
  /\ updater = "select"
  /\ Read(c)
  /\ Head(streams[c]).kind # "borrow"
  /\ SetJob(Head(streams[c]).pair, "clear")
  /\ updater' = "event"
  /\ UNCHANGED <<cache, rows, row, sledFailures, commands>>

(* handle_event of a Repay or a LiquidationCall: remove_if_no_debt *)
HandleRepay(c) ==
  /\ updater = "select"
  /\ Read(c)
  /\ Head(streams[c]).kind # "borrow"
  /\ SetJob(Head(streams[c]).pair, "check")
  /\ updater' = "event"
  /\ UNCHANGED <<cache, rows, row, sledFailures, commands>>

(* Mutant: only borrowers of one reserve. *)
SnapshotsOfSingles == {{e \in cache : RowOf(cache, e) = {e}}}

(***************************************************************************)
(* The snapshot of aave_watchlist.rs: the first reserve of each borrower   *)
(* in the order of its hash set.                                           *)
(***************************************************************************)
Snapshots ==
  {s \in SUBSET cache : \A e \in cache : \E f \in s : RowOf(s, e) = {f}}

StartPrune ==
  /\ updater = "select"
  /\ commands > 0
  /\ commands' = commands - 1
  /\ \E s \in Snapshots :
       job' = [e \in Pairs |-> IF e \in s THEN "waiting" ELSE "none"]
  /\ updater' = "prune"
  /\ UNCHANGED <<cache, rows, row, sledFailures, eventVars>>

BeginJob(e) ==
  /\ job[e] = "waiting"
  /\ Cardinality(Active) < Concurrency
  /\ SetJob(e, "check")
  /\ UNCHANGED <<cache, rows, row, sledFailures, eventVars, updater, commands>>

(* check_and_remove_by_identity: the node reads the debt now; its answer *)
(* is acted upon in a later step. *)
CheckDebt(e) ==
  /\ job[e] = "check"
  /\ SetJob(e, IF e \in owed THEN "none" ELSE "clear")
  /\ UNCHANGED <<cache, rows, row, sledFailures, eventVars, updater, commands>>

(***************************************************************************)
(* An error leaves start, and the updater with it, unless it is one of a   *)
(* prune's, which are logged.                                              *)
(***************************************************************************)
LeaveOnError ==
  /\ IF updater = "event"
       THEN updater' = "stopped" /\ StopListening
       ELSE UNCHANGED <<updater, eventVars>>
  /\ UNCHANGED commands

CheckFails(e) ==
  /\ job[e] = "check"
  /\ SetJob(e, "none")
  /\ LeaveOnError
  /\ UNCHANGED <<cache, rows, row, sledFailures>>

RemoveCleared(e) == Remove(e) /\ UNCHANGED <<eventVars, updater, commands>>

FinishWrite(e) == WriteRow(e) /\ UNCHANGED <<eventVars, updater, commands>>

FailWrite(e) == WriteFails(e) /\ LeaveOnError

FinishHandler ==
  /\ updater \in {"event", "prune"}
  /\ NoJobs
  /\ updater' = "select"
  /\ UNCHANGED <<listVars, eventVars, commands>>

(* The shutdown signal, the end of the stream, or the pruner is gone. *)
Stop ==
  /\ updater = "select"
  /\ updater' = "stopped"
  /\ StopListening
  /\ UNCHANGED <<listVars, commands>>

Handle == \E c \in Channels : HandleBorrow(c) \/ HandleRepay(c)

JobStep(e) ==
  \/ BeginJob(e)
  \/ CheckDebt(e)
  \/ CheckFails(e)
  \/ RemoveCleared(e)
  \/ FinishWrite(e)
  \/ FailWrite(e)

Next ==
  \/ ChainStep
  \/ SendPrune
  \/ Handle
  \/ StartPrune
  \/ \E e \in Pairs : JobStep(e)
  \/ FinishHandler
  \/ Stop

Spec == Init /\ [][Next]_vars

(* As for Morpho's updater. *)
Fairness ==
  /\ WF_vars(SendPrune)
  /\ SF_vars(Handle)
  /\ SF_vars(StartPrune)
  /\ WF_vars(FinishHandler)
  /\ \A e \in Pairs : WF_vars(JobStep(e)) /\ SF_vars(CheckDebt(e))

FairSpec == Spec /\ Fairness

-----------------------------------------------------------------------------
TypeOK ==
  /\ ListTypeOK
  /\ EventsTypeOK
  /\ updater \in {"select", "event", "prune", "stopped"}
  /\ commands \in 0 .. CmdCap

(***************************************************************************)
(* A borrower in debt is tracked, or the borrow is still to be read, or    *)
(* the stream never carried it: a removal that acts on an old answer of    *)
(* the node never loses a debt the updater heard of, in an event's handler *)
(* or among the jobs of a prune.                                           *)
(***************************************************************************)
NoDebtorLost == owed \subseteq cache \cup Pending \cup missed

(***************************************************************************)
(* Between two handlers the tree holds every tracked pair, and, if no      *)
(* write failed, nothing else: one reserve of each borrower is pruned at a *)
(* time, so no two writes of one row are under way at once.                *)
(***************************************************************************)
TreeMatchesMap ==
  updater = "select" =>
    /\ cache \subseteq rows
    /\ sledFailures = 0 => rows = cache

Owes(b) == \E e \in owed : e[1] = b

Tracked(b) == \E e \in cache : e[1] = b

(***************************************************************************)
(* A borrower who owes nothing any more leaves the list, though a prune    *)
(* looks at one reserve of each borrower and a check may fail again and    *)
(* again: each prune that succeeds shortens the row.                       *)
(***************************************************************************)
StaleBorrowersPruned ==
  \A b \in Borrowers :
    Tracked(b) /\ ~Owes(b) ~> (~Tracked(b) \/ Owes(b) \/ updater = "stopped")

=============================================================================
