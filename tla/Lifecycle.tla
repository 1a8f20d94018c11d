------------------------------- MODULE Lifecycle -------------------------------
(***************************************************************************)
(* The life of the process after its bootstraps (lib.rs): the tasks are    *)
(* started one by one, Ctrl-C asks them to stop, and the registry of       *)
(* common/task_manager.rs joins them in the order they were registered.    *)
(* Of the tasks, the block watcher (BlockFeed) and the watch list pruner   *)
(* are whole; the updaters take its commands and stop; of the others only  *)
(* the join is left.                                                       *)
(***************************************************************************)
EXTENDS BlockFeed

CONSTANTS
  PruneInterval, \* blocks between two prunes
  CommandCap     \* capacity of each command channel

ASSUME LifeAssumption == PruneInterval \in Nat \ {0} /\ CommandCap \in Nat \ {0}

(* In the order lib.rs starts them. *)
TaskOrder == <<"pipeline", "scanner", "aave", "morpho", "pruner",
               "distributor", "extractor", "watcher">>

Updaters == {"aave", "morpho"}

VARIABLES
  started,   \* how many tasks are started
  joined,    \* how many handles are joined
  exited,    \* main has returned
  ended,     \* those of the pruner and the updaters that have ended
  cursor,    \* the pruner's, in the broadcast channel
  senders,   \* tasks of the pruner, by the updater they wait to send to
  orders,    \* prune commands in each updater's channel
  due,       \* history: prunes that came due
  delivered  \* history: those that reached Morpho's updater

lifeVars ==
  <<feedVars, started, joined, exited, ended, cursor, senders, orders, due, delivered>>

pruneVars == <<cursor, senders, orders, due, delivered>>

LifeInit ==
  /\ FeedInit
  /\ started = 0
  /\ joined = 0
  /\ exited = FALSE
  /\ ended = {}
  /\ cursor = 0
  /\ senders = [u \in Updaters |-> 0]
  /\ orders = [u \in Updaters |-> 0]
  /\ due = 0
  /\ delivered = 0

Started(t) == \E i \in 1 .. started : TaskOrder[i] = t

Running(t) == Started(t) /\ t \notin ended

(* The chain, the node and the watcher, once it is started. *)
FeedMoves ==
  /\ \/ NewBlock
     \/ Reorg
     \/ Started("watcher") /\ (StreamEnds \/ WatcherStep)
  /\ UNCHANGED <<started, joined, exited, ended, pruneVars>>

-----------------------------------------------------------------------------
(* start_liquidation_engine: each task is spawned and its handle *)
(* registered; the pruner's receiver is made here. *)
StartTask ==
  /\ started < Len(TaskOrder)
  /\ started' = started + 1
  /\ cursor' = IF TaskOrder[started'] = "pruner" THEN Len(published) ELSE cursor
  /\ UNCHANGED <<feedVars, joined, exited, ended, senders, orders, due, delivered>>

(* Ctrl-C, which is listened to when all is started. *)
CtrlC ==
  /\ started = Len(TaskOrder)
  /\ RequestShutdown
  /\ UNCHANGED <<started, joined, exited, ended, pruneVars>>

(***************************************************************************)
(* A join returns when the task has ended.  start_pipeline spawns a task   *)
(* of its own, so that the pipeline's handle is done at once.  The scanner *)
(* (whose module shows that it ends), the distributor and the extractor    *)
(* count as ended by their joins: none waits for another task.             *)
(***************************************************************************)
HasEnded(t) ==
  /\ t \in Updaters \cup {"pruner"} => t \in ended
  /\ t = "watcher" => watcher = "stopped"

(* shutdown_all_tasks, then the return of main *)
JoinTask ==
  /\ shutdown
  /\ joined < Len(TaskOrder)
  /\ HasEnded(TaskOrder[joined + 1])
  /\ joined' = joined + 1
  /\ UNCHANGED <<feedVars, started, exited, ended, pruneVars>>

Exit ==
  /\ joined = Len(TaskOrder)
  /\ ~exited
  /\ exited' = TRUE
  /\ UNCHANGED <<feedVars, started, joined, ended, pruneVars>>

End(t) ==
  /\ Running(t)
  /\ ended' = ended \cup {t}
  /\ UNCHANGED <<feedVars, started, joined, exited, cursor, senders, due, delivered>>

-----------------------------------------------------------------------------
(***************************************************************************)
(* WatchListPruner::start.  A block that is a multiple of the interval     *)
(* spawns a task that sends to one updater and then to the other.          *)
(***************************************************************************)
PrunerRecv ==
  /\ Running("pruner")
  /\ Readable(cursor)
  /\ cursor' = cursor + 1
  /\ LET now == IF published[cursor + 1] % PruneInterval = 0 THEN 1 ELSE 0 IN
     /\ senders' = [senders EXCEPT !["aave"] = @ + now]
     /\ due' = due + now
  /\ UNCHANGED <<feedVars, started, joined, exited, ended, orders, delivered>>

(* Mutant: a lag is an error like the closed channel. *)
PrunerLaggedFails ==
  /\ Lagged(cursor)
  /\ End("pruner")
  /\ UNCHANGED orders

(* The blocks it has missed are skipped. *)
PrunerLagged ==
  /\ Running("pruner")
  /\ Lagged(cursor)
  /\ cursor' = OldestKept
  /\ UNCHANGED <<feedVars, started, joined, exited, ended, senders, orders, due, delivered>>

(* The shutdown, or the channel is closed. *)
PrunerStops ==
  /\ shutdown \/ Closed(cursor)
  /\ End("pruner")
  /\ UNCHANGED orders

(* Mutant: an updater that is gone ends the sender. *)
GoOnUnlessGone(u) ==
  IF u = "aave" /\ u \notin ended
    THEN [senders EXCEPT !["aave"] = @ - 1, !["morpho"] = @ + 1]
    ELSE [senders EXCEPT ![u] = @ - 1]

(* Where a sender goes after u. *)
GoOn(u) ==
  IF u = "aave"
    THEN [senders EXCEPT !["aave"] = @ - 1, !["morpho"] = @ + 1]
    ELSE [senders EXCEPT !["morpho"] = @ - 1]

(* A sender waits for room; that the updater is gone is only logged. *)
SendPruneTo(u) ==
  /\ senders[u] > 0
  /\ orders[u] < CommandCap
  /\ senders' = GoOn(u)
  /\ orders' = IF u \in ended THEN orders ELSE [orders EXCEPT ![u] = @ + 1]
  /\ delivered' = IF u = "morpho" /\ u \notin ended THEN delivered + 1 ELSE delivered
  /\ UNCHANGED <<feedVars, started, joined, exited, ended, cursor, due>>

(* The updater's handler of a command, from its select to its select. *)
TakePrune(u) ==
  /\ Running(u)
  /\ orders[u] > 0
  /\ orders' = [orders EXCEPT ![u] = @ - 1]
  /\ UNCHANGED <<feedVars, started, joined, exited, ended, cursor, senders, due, delivered>>

(* The shutdown, a closed command channel, an error or a stream's end. *)
UpdaterStops(u) ==
  /\ End(u)
  /\ orders' = [orders EXCEPT ![u] = 0]

LifeNext ==
  \/ FeedMoves
  \/ StartTask
  \/ CtrlC
  \/ JoinTask
  \/ Exit
  \/ PrunerRecv
  \/ PrunerLagged
  \/ PrunerStops
  \/ \E u \in Updaters : SendPruneTo(u) \/ TakePrune(u) \/ UpdaterStops(u)

LifeSpec == LifeInit /\ [][LifeNext]_lifeVars

(* Steps that tasks take of their own: main, those asked to stop, the pruner's *)
(* commands, and the watcher. *)
MainStep == StartTask \/ JoinTask \/ Exit

StopStep ==
  shutdown /\ (PrunerStops \/ \E u \in Updaters : UpdaterStops(u))

CommandStep == \E u \in Updaters : SendPruneTo(u) \/ TakePrune(u)
-----------------------------------------------------------------------------
LifeTypeOK ==
  /\ FeedTypeOK
  /\ started \in 0 .. Len(TaskOrder) /\ joined \in 0 .. started
  /\ exited \in BOOLEAN
  /\ ended \subseteq Updaters \cup {"pruner"}
  /\ cursor \in 0 .. Len(published)
  /\ senders \in [Updaters -> Nat]
  /\ orders \in [Updaters -> 0 .. CommandCap]
  /\ due \in Nat /\ delivered \in 0 .. due

(* The command channels have no sender any more. *)
NoSenders == "pruner" \in ended /\ \A u \in Updaters : senders[u] = 0

(***************************************************************************)
(* Neither lost subscriptions nor a pruner that lags, nor updaters that    *)
(* are gone, reach the command channels: the watcher keeps the broadcast   *)
(* channel open for the pruner, and the pruner the command channels for    *)
(* the updaters, until the shutdown.  Either end would stop an updater.    *)
(***************************************************************************)
ChannelsStayOpen == NoSenders \/ watcher = "stopped" => shutdown

(***************************************************************************)
(* A prune that comes due reaches Morpho's updater however long Aave's     *)
(* channel is full, and even if Aave's updater is gone.                    *)
(***************************************************************************)
PrunesArrive ==
  delivered < due ~> delivered = due \/ "morpho" \in ended

(***************************************************************************)
(* After Ctrl-C the process ends: every handle is joined, in order, while  *)
(* the watcher may be between two subscriptions and senders of the pruner  *)
(* may wait for updaters that are gone.                                    *)
(***************************************************************************)
ShutdownCompletes == shutdown ~> exited

=============================================================================
