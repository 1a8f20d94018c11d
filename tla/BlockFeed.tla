------------------------------ MODULE BlockFeed ------------------------------
(***************************************************************************)
(* Where block numbers come from: the chain, the WebSocket subscription,   *)
(* the task of block_watcher.rs that forwards its headers, and the tokio   *)
(* broadcast channel (capacity 64 in lib.rs) it forwards them to.  The     *)
(* scanner and the watchlist pruner read that channel, each with a cursor  *)
(* of its own.                                                             *)
(***************************************************************************)
EXTENDS Integers, Sequences

CONSTANTS
  BusCap,    \* capacity of the broadcast channel
  MaxBlock,  \* bound: the chain grows up to this block
  MaxReorgs, \* bound: how often the head is replaced
  MaxDepth   \* bound: by how many blocks a replacement may go back

Blocks == 0 .. MaxBlock

ASSUME FeedAssumption ==
  /\ BusCap \in Nat \ {0}
  /\ MaxBlock \in Nat /\ MaxReorgs \in Nat /\ MaxDepth \in Nat

VARIABLES
  shutdown,  \* the value of the watch channel
  tip,       \* number of the chain's head
  reorgs,    \* heads replaced so far
  watcher,   \* where the block watcher is
  stream,    \* headers of its subscription it has not read
  published  \* history: every number sent to the broadcast channel

feedVars == <<shutdown, tip, reorgs, watcher, stream, published>>

FeedInit ==
  /\ shutdown = FALSE
  /\ tip = 0
  /\ reorgs = 0
  /\ watcher = "check"
  /\ stream = <<>>
  /\ published = <<>>

(* Ctrl-C in run. *)
RequestShutdown ==
  /\ ~shutdown
  /\ shutdown' = TRUE
  /\ UNCHANGED <<tip, reorgs, watcher, stream, published>>

(***************************************************************************)
(* The chain grows by one block, or its head is replaced by a header whose *)
(* number is no higher.  A live subscription delivers every new header.    *)
(***************************************************************************)
Announce(b) ==
  /\ tip' = b
  /\ stream' = IF watcher = "stream" THEN Append(stream, b) ELSE stream
  /\ UNCHANGED <<shutdown, watcher, published>>

NewBlock ==
  /\ tip < MaxBlock
  /\ Announce(tip + 1)
  /\ UNCHANGED reorgs

Reorg ==
  /\ reorgs < MaxReorgs
  /\ \E b \in Blocks : tip - MaxDepth <= b /\ b <= tip /\ Announce(b)
  /\ reorgs' = reorgs + 1

-----------------------------------------------------------------------------
(***************************************************************************)
(* BlockWatcher::start.  The outer loop checks the shutdown flag and       *)
(* subscribes; the inner one forwards headers until the shutdown or the    *)
(* end of the stream, which leads back to the outer loop.                  *)
(***************************************************************************)
Watch(place) ==
  /\ watcher' = place
  /\ UNCHANGED <<shutdown, tip, reorgs, published>>

(* Mutant: the flag is not looked at between subscriptions. *)
CheckNothing ==
  /\ watcher = "check"
  /\ Watch("subscribe")
  /\ UNCHANGED stream

CheckShutdown ==
  /\ watcher = "check"
  /\ Watch(IF shutdown THEN "stopped" ELSE "subscribe")
  /\ UNCHANGED stream

(* On an error the watcher sleeps five seconds, then checks again. *)
Subscribe ==
  /\ watcher = "subscribe"
  /\ \E place \in {"stream", "check"} : Watch(place)
  /\ UNCHANGED stream

ForwardBlock ==
  /\ watcher = "stream"
  /\ stream # <<>>
  /\ stream' = Tail(stream)
  /\ published' = Append(published, Head(stream))
  /\ UNCHANGED <<shutdown, tip, reorgs, watcher>>

(* Mutant: the end of the stream ends the task. *)
StreamEndsTask ==
  /\ watcher = "stream"
  /\ stream = <<>>
  /\ Watch("stopped")
  /\ UNCHANGED stream

(* The node drops the subscription. *)
StreamEnds ==
  /\ watcher = "stream"
  /\ stream = <<>>
  /\ Watch("check")
  /\ UNCHANGED stream

WatcherSeesShutdown ==
  /\ watcher = "stream"
  /\ shutdown
  /\ Watch("stopped")
  /\ stream' = <<>>

WatcherStep ==
  \/ CheckShutdown
  \/ Subscribe
  \/ ForwardBlock
  \/ WatcherSeesShutdown

FeedNext ==
  \/ RequestShutdown
  \/ NewBlock
  \/ Reorg
  \/ StreamEnds
  \/ WatcherStep

-----------------------------------------------------------------------------
(***************************************************************************)
(* The receiving half of a broadcast channel.  A receiver more than BusCap *)
(* messages behind is told so once and resumes at the oldest kept one; one *)
(* that has read everything sees the channel closed when the watcher, the  *)
(* only sender, is gone.                                                   *)
(***************************************************************************)
Lagged(cursor) == Len(published) - cursor > BusCap

Readable(cursor) == cursor < Len(published) /\ ~Lagged(cursor)

OldestKept == Len(published) - BusCap

Closed(cursor) == cursor = Len(published) /\ watcher = "stopped"

FeedTypeOK ==
  /\ shutdown \in BOOLEAN
  /\ tip \in Blocks
  /\ reorgs \in 0 .. MaxReorgs
  /\ watcher \in {"check", "subscribe", "stream", "stopped"}
  /\ stream \in Seq(Blocks)
  /\ published \in Seq(Blocks)

=============================================================================
