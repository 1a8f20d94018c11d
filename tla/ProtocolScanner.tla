--------------------------- MODULE ProtocolScanner ---------------------------
(***************************************************************************)
(* The scanner of core/services/protocol_scanner.rs: a select loop over    *)
(* the shutdown signal, the finished scans of its JoinSet and the block    *)
(* channel, and the scan tasks it spawns, which ask every reader for       *)
(* candidates and push them into the pipeline's bounded channel.           *)
(*                                                                         *)
(* The pipeline (module LiquidationEngine) is reduced to what the scanner  *)
(* sees of it: a channel that is drained at some pace and dropped after    *)
(* the shutdown.                                                           *)
(***************************************************************************)
EXTENDS BlockFeed, FiniteSets

CONSTANTS
  Readers,       \* the protocol readers
  Interval,      \* BLOCK_INTERVAL
  MaxCandidates, \* bound: candidates one reader finds in one scan
  PayloadCap     \* capacity of the payload channel

ASSUME ScannerAssumption ==
  /\ Interval \in Nat \ {0} /\ MaxCandidates \in Nat
  /\ PayloadCap \in Nat \ {0}
  /\ IsFiniteSet(Readers)

VARIABLES
  scanner,    \* "select", "query" (asks the node for its tip) or "stopped"
  cursor,     \* messages of the block channel received or skipped
  last,       \* last_processed_block
  tracker,    \* the JoinSet: a scan is named by its block
  work,       \* progress of each reader of each scan
  inChannel,  \* payloads in the channel
  open        \* the pipeline still holds the receiver

scanVars == <<scanner, cursor, last, tracker, work, inChannel, open>>
vars == <<feedVars, scanVars>>

(* A reader of a scan first fetches, then has candidates left to push. *)
Reading == [fetched : BOOLEAN, left : 0 .. MaxCandidates]
Idle == [fetched |-> FALSE, left |-> 0]
Fresh == [r \in Readers |-> Idle]

Finished(b) == \A r \in Readers : work[b][r].fetched /\ work[b][r].left = 0

Init ==
  /\ FeedInit
  /\ scanner = "select"
  /\ cursor = 0
  /\ last = 0
  /\ tracker = {}
  /\ work = [b \in Blocks |-> Fresh]
  /\ inChannel = 0
  /\ open = TRUE

-----------------------------------------------------------------------------
(* Mutant: the interval is measured inclusively. *)
DueInclusive(b) == b > last /\ b - last >= Interval - 1

(* The guard that drops old blocks and those within the interval. *)
Due(b) == b > last /\ b - last >= Interval

StartScan(b) ==
  /\ last' = b
  /\ tracker' = tracker \cup {b}
  /\ work' = [work EXCEPT ![b] = Fresh]

(* Mutant: no overlap guard. *)
HandleBlockOverlapping(b) ==
  \/ /\ ~Due(b)
     /\ UNCHANGED <<last, tracker, work>>
  \/ /\ Due(b)
     /\ StartScan(b)

(***************************************************************************)
(* What follows the receipt of a block number.  The overlap guard looks at *)
(* tracker.len(), which counts finished scans not yet joined, and leaves   *)
(* last_processed_block alone.                                             *)
(***************************************************************************)
HandleBlock(b) ==
  \/ /\ ~Due(b)
     /\ UNCHANGED <<last, tracker, work>>
  \/ /\ Due(b)
     /\ tracker # {}
     /\ UNCHANGED <<last, tracker, work>>
  \/ /\ Due(b)
     /\ tracker = {}
     /\ StartScan(b)

RecvBlock ==
  /\ scanner = "select"
  /\ Readable(cursor)
  /\ cursor' = cursor + 1
  /\ HandleBlock(published[cursor + 1])
  /\ UNCHANGED <<feedVars, scanner, inChannel, open>>

RecvLagged ==
  /\ scanner = "select"
  /\ Lagged(cursor)
  /\ cursor' = OldestKept
  /\ scanner' = "query"
  /\ UNCHANGED <<feedVars, last, tracker, work, inChannel, open>>

(* Mutant: scans the block that was due instead of asking for the tip. *)
QueryTipGuesses ==
  /\ scanner = "query"
  /\ last + Interval \in Blocks
  /\ HandleBlock(last + Interval)
  /\ scanner' = "select"
  /\ UNCHANGED <<feedVars, cursor, inChannel, open>>

(***************************************************************************)
(* client.get_block_number: the HTTP endpoint may be a block behind the    *)
(* subscription.                                                           *)
(***************************************************************************)
QueryTip ==
  /\ scanner = "query"
  /\ \E b \in Blocks : tip - 1 <= b /\ b <= tip /\ HandleBlock(b)
  /\ scanner' = "select"
  /\ UNCHANGED <<feedVars, cursor, inChannel, open>>

QueryFails ==
  /\ scanner = "query"
  /\ scanner' = "select"
  /\ UNCHANGED <<feedVars, cursor, last, tracker, work, inChannel, open>>

ReapScan(b) ==
  /\ scanner = "select"
  /\ b \in tracker
  /\ Finished(b)
  /\ tracker' = tracker \ {b}
  /\ work' = [work EXCEPT ![b] = Fresh]
  /\ UNCHANGED <<feedVars, scanner, cursor, last, inChannel, open>>

(* Both ways out of the loop abort the scans in flight. *)
StopScanner ==
  /\ scanner = "select"
  /\ shutdown \/ Closed(cursor)
  /\ scanner' = "stopped"
  /\ tracker' = {}
  /\ work' = [b \in Blocks |-> Fresh]
  /\ UNCHANGED <<feedVars, cursor, last, inChannel, open>>

-----------------------------------------------------------------------------
(* The task of one scan: the readers run concurrently. *)
NowReading(b, r, n) ==
  work' = [work EXCEPT ![b][r] = [fetched |-> TRUE, left |-> n]]

FetchCandidates(b, r) ==
  /\ b \in tracker
  /\ ~work[b][r].fetched
  /\ \E n \in 0 .. MaxCandidates : NowReading(b, r, n)
  /\ UNCHANGED <<feedVars, scanner, cursor, last, tracker, inChannel, open>>

(* Mutant: the payload pushed is still among those left. *)
PushPayloadAgain(b, r) ==
  /\ b \in tracker
  /\ work[b][r].left > 0
  /\ open
  /\ inChannel < PayloadCap
  /\ inChannel' = inChannel + 1
  /\ UNCHANGED <<feedVars, scanner, cursor, last, tracker, work, open>>

PushPayload(b, r) ==
  /\ b \in tracker
  /\ work[b][r].left > 0
  /\ open
  /\ inChannel < PayloadCap
  /\ NowReading(b, r, work[b][r].left - 1)
  /\ inChannel' = inChannel + 1
  /\ UNCHANGED <<feedVars, scanner, cursor, last, tracker, open>>

(* The channel is closed: the reader drops the candidates it has left. *)
PushFails(b, r) ==
  /\ b \in tracker
  /\ work[b][r].left > 0
  /\ ~open
  /\ NowReading(b, r, 0)
  /\ UNCHANGED <<feedVars, scanner, cursor, last, tracker, inChannel, open>>

(* The pipeline's side of the channel. *)
PipelineTakes ==
  /\ open
  /\ inChannel > 0
  /\ inChannel' = inChannel - 1
  /\ UNCHANGED <<feedVars, scanner, cursor, last, tracker, work, open>>

PipelineStops ==
  /\ open
  /\ shutdown
  /\ open' = FALSE
  /\ inChannel' = 0
  /\ UNCHANGED <<feedVars, scanner, cursor, last, tracker, work>>

ReaderStep(b, r) ==
  FetchCandidates(b, r) \/ PushPayload(b, r) \/ PushFails(b, r)

SelectStep ==
  \/ RecvBlock
  \/ RecvLagged
  \/ QueryTip
  \/ QueryFails

Pipeline == PipelineTakes \/ PipelineStops

Next ==
  \/ FeedNext /\ UNCHANGED scanVars
  \/ SelectStep
  \/ StopScanner
  \/ \E b \in Blocks : ReapScan(b) \/ \E r \in Readers : ReaderStep(b, r)
  \/ Pipeline

Spec == Init /\ [][Next]_vars

(***************************************************************************)
(* Tasks are polled when they can go on and the calls they await return.   *)
(* tokio's select takes a random one of its ready arms, so an arm ready    *)
(* again and again is taken: strong fairness for the arms that compete     *)
(* with the block channel.  There is one scan at a time (OneScan), so the  *)
(* block need not be named.  The pipeline takes what is in the channel     *)
(* (EveryPayloadEnds of LiquidationEngine).  Blocks need not come.         *)
(***************************************************************************)
Fairness ==
  /\ WF_vars(WatcherStep /\ UNCHANGED scanVars)
  /\ SF_vars(WatcherSeesShutdown /\ UNCHANGED scanVars)
  /\ WF_vars(SelectStep)
  /\ SF_vars(StopScanner)
  /\ SF_vars(\E b \in Blocks : ReapScan(b))
  /\ \A r \in Readers : WF_vars(\E b \in Blocks : ReaderStep(b, r))
  /\ WF_vars(Pipeline)

FairSpec == Spec /\ Fairness

-----------------------------------------------------------------------------
TypeOK ==
  /\ FeedTypeOK
  /\ scanner \in {"select", "query", "stopped"}
  /\ cursor \in 0 .. Len(published)
  /\ last \in Blocks
  /\ tracker \subseteq Blocks
  /\ work \in [Blocks -> [Readers -> Reading]]
  /\ inChannel \in 0 .. PayloadCap
  /\ open \in BOOLEAN

(***************************************************************************)
(* At most one scan queries the node at a time, whatever the lag, the      *)
(* reorganisations and the pace of the pipeline, and it is the scan of the *)
(* last processed block.                                                   *)
(***************************************************************************)
OneScan == tracker # {} => tracker = {last}

(***************************************************************************)
(* Scans are at least Interval blocks apart and go forward, also when the  *)
(* head is replaced or the block comes from the node instead of the        *)
(* channel.                                                                *)
(***************************************************************************)
ScansAreSpaced ==
  [][\A b \in tracker' \ tracker : b >= last + Interval]_vars

(***************************************************************************)
(* A scan never starts from a block that more than BusCap newer headers    *)
(* have overtaken: a scanner that fell behind jumps to the node's tip.     *)
(* Payloads are simulated against this block.                              *)
(***************************************************************************)
ScansAreRecent ==
  [][\A b \in tracker' \ tracker :
       \/ b >= tip - 1
       \/ \E i \in 1 .. Len(published) :
            published[i] = b /\ Len(published) - i < BusCap]_vars

(***************************************************************************)
(* The scanner never stops before the shutdown: neither the end of the     *)
(* block stream nor an error of the node ends it.                          *)
(***************************************************************************)
StopsOnlyOnShutdown == scanner = "stopped" => shutdown

(***************************************************************************)
(* Every scan comes to an end and is joined, with a full channel, a slow   *)
(* pipeline or one that has stopped: the overlap guard cannot hold off     *)
(* scanning for ever.  No scan starts before the one before it was joined. *)
(***************************************************************************)
ScansEnd == tracker # {} ~> tracker = {}

(***************************************************************************)
(* After the shutdown signal the watcher and the scanner both stop, from   *)
(* whatever they were doing.                                               *)
(***************************************************************************)
ShutdownStops == shutdown ~> (scanner = "stopped" /\ watcher = "stopped")

=============================================================================
