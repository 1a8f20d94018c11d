----------------------- MODULE ProtocolScanner_proofs -----------------------
(***************************************************************************)
(* Theorems about ProtocolScanner, for any capacity of the channels, any   *)
(* interval, any readers and any chain.                                    *)
(***************************************************************************)
EXTENDS ProtocolScanner, TLAPS

USE FeedAssumption, ScannerAssumption
USE DEF vars, scanVars, feedVars

(***************************************************************************)
(* The scanner depends on the watcher: it may also stop because the block  *)
(* channel is closed, which only happens after the shutdown.               *)
(***************************************************************************)
WatcherStopsOnlyOnShutdown == watcher = "stopped" => shutdown

IInv == TypeOK /\ OneScan /\ StopsOnlyOnShutdown /\ WatcherStopsOnlyOnShutdown

-----------------------------------------------------------------------------
LEMMA EmptySeq == ASSUME NEW S PROVE <<>> \in Seq(S)
OBVIOUS

LEMMA FeedType ==
  ASSUME TypeOK, FeedNext
  PROVE  FeedTypeOK' /\ Len(published') >= Len(published)
<1> USE DEF TypeOK, FeedTypeOK, Blocks
<1>1. CASE RequestShutdown
  BY <1>1 DEF RequestShutdown
<1>2. CASE NewBlock \/ Reorg
  <2>1. PICK b \in 0 .. MaxBlock : Announce(b)
    BY <1>2 DEF NewBlock, Reorg
  <2>2. Append(stream, b) \in Seq(0 .. MaxBlock)
    OBVIOUS
  <2>3. stream' \in Seq(0 .. MaxBlock)
    BY <2>1, <2>2 DEF Announce
  <2>4. reorgs' \in 0 .. MaxReorgs
    BY <1>2 DEF NewBlock, Reorg
  <2>5. QED
    BY <2>1, <2>3, <2>4 DEF Announce
<1>3. CASE CheckShutdown \/ Subscribe \/ StreamEnds \/ WatcherSeesShutdown
  <2>1. stream' = stream \/ stream' = <<>>
    BY <1>3 DEF CheckShutdown, Subscribe, StreamEnds, WatcherSeesShutdown
  <2>2. stream' \in Seq(0 .. MaxBlock)
    BY <2>1, EmptySeq
  <2>3. /\ UNCHANGED <<shutdown, tip, reorgs, published>>
        /\ watcher' \in {"check", "subscribe", "stream", "stopped"}
    BY <1>3 DEF CheckShutdown, Subscribe, StreamEnds, WatcherSeesShutdown, Watch
  <2>4. QED
    BY <2>2, <2>3
<1>4. CASE ForwardBlock
  <2>1. Head(stream) \in 0 .. MaxBlock /\ Tail(stream) \in Seq(0 .. MaxBlock)
    BY <1>4 DEF ForwardBlock
  <2>2. QED
    BY <1>4, <2>1 DEF ForwardBlock
<1>5. QED
  BY <1>1, <1>2, <1>3, <1>4 DEF FeedNext, WatcherStep

(* Handling a block keeps the tracker in order and starts scans apart. *)
LEMMA HandleBlockKeeps ==
  ASSUME TypeOK, OneScan, NEW b \in Blocks, HandleBlock(b)
  PROVE  /\ last' \in Blocks
         /\ tracker' \subseteq Blocks
         /\ work' \in [Blocks -> [Readers -> Reading]]
         /\ OneScan'
         /\ \A s \in tracker' \ tracker : s >= last + Interval
<1> USE DEF TypeOK, OneScan
<1>1. Fresh \in [Readers -> Reading]
  BY DEF Fresh, Idle, Reading
<1>2. CASE UNCHANGED <<last, tracker, work>>
  BY <1>2
<1>3. CASE Due(b) /\ tracker = {} /\ StartScan(b)
  <2>1. b >= last + Interval
    BY <1>3 DEF Due, Blocks
  <2>2. QED
    BY <1>1, <1>3, <2>1 DEF StartScan
<1>4. QED
  BY <1>2, <1>3 DEF HandleBlock

LEMMA InitIInv == Init => IInv
<1> SUFFICES ASSUME Init PROVE IInv
  OBVIOUS
<1>1. FeedTypeOK /\ published = <<>>
  <2>1. stream \in Seq(Blocks) /\ published \in Seq(Blocks)
    BY EmptySeq DEF Init, FeedInit
  <2>2. /\ shutdown = FALSE /\ tip = 0 /\ reorgs = 0 /\ watcher = "check"
    BY DEF Init, FeedInit
  <2>3. 0 \in Blocks /\ 0 \in 0 .. MaxReorgs
    BY DEF Blocks
  <2>4. published = <<>>
    BY DEF Init, FeedInit
  <2>5. QED
    BY <2>1, <2>2, <2>3, <2>4 DEF FeedTypeOK
<1>2. Fresh \in [Readers -> Reading]
  BY DEF Fresh, Idle, Reading
<1>3. QED
  BY <1>1, <1>2
  DEF Init, FeedInit, IInv, TypeOK, OneScan, StopsOnlyOnShutdown,
      WatcherStopsOnlyOnShutdown, Blocks

LEMMA StepIInv == IInv /\ [Next]_vars => IInv'
<1> SUFFICES ASSUME IInv, [Next]_vars
             PROVE  IInv'
  OBVIOUS
<1> USE DEF IInv
<1>1. CASE UNCHANGED vars
  BY <1>1 DEF TypeOK, FeedTypeOK, OneScan, StopsOnlyOnShutdown,
              WatcherStopsOnlyOnShutdown
<1>2. CASE FeedNext /\ UNCHANGED scanVars
  <2>1. FeedTypeOK' /\ Len(published') >= Len(published)
    BY <1>2, FeedType
  <2>2. Len(published) \in Nat /\ Len(published') \in Nat
    BY <2>1 DEF TypeOK, FeedTypeOK
  <2>3. TypeOK'
    BY <1>2, <2>1, <2>2 DEF TypeOK
  <2>4. (shutdown => shutdown') /\ (watcher' = "stopped" => shutdown')
    BY <1>2 DEF WatcherStopsOnlyOnShutdown, FeedNext, RequestShutdown, NewBlock,
         Reorg, Announce, WatcherStep, CheckShutdown, Subscribe, ForwardBlock,
         StreamEnds, WatcherSeesShutdown, Watch
  <2>5. QED
    BY <1>2, <2>3, <2>4
    DEF OneScan, StopsOnlyOnShutdown, WatcherStopsOnlyOnShutdown
<1>3. CASE SelectStep
  <2>1. UNCHANGED feedVars /\ scanner' # "stopped"
    BY <1>3 DEF SelectStep, RecvBlock, RecvLagged, QueryTip, QueryFails
  <2>2. CASE RecvBlock
    <3>1. published[cursor + 1] \in Blocks /\ cursor + 1 \in 0 .. Len(published)
      BY <2>2 DEF RecvBlock, Readable, TypeOK, FeedTypeOK
    <3>2. QED
      BY <2>1, <2>2, <3>1, HandleBlockKeeps
      DEF RecvBlock, TypeOK, FeedTypeOK, StopsOnlyOnShutdown,
          WatcherStopsOnlyOnShutdown
  <2>3. CASE RecvLagged
    <3>1. OldestKept \in 0 .. Len(published)
      BY <2>3 DEF RecvLagged, OldestKept, Lagged, TypeOK, FeedTypeOK
    <3>2. QED
      BY <2>1, <2>3, <3>1
      DEF RecvLagged, TypeOK, FeedTypeOK, OneScan, StopsOnlyOnShutdown,
          WatcherStopsOnlyOnShutdown
  <2>4. CASE QueryTip
    BY <2>1, <2>4, HandleBlockKeeps
    DEF QueryTip, TypeOK, FeedTypeOK, StopsOnlyOnShutdown,
        WatcherStopsOnlyOnShutdown
  <2>5. CASE QueryFails
    BY <2>1, <2>5
    DEF QueryFails, TypeOK, FeedTypeOK, OneScan, StopsOnlyOnShutdown,
        WatcherStopsOnlyOnShutdown
  <2>6. QED
    BY <1>3, <2>2, <2>3, <2>4, <2>5 DEF SelectStep
<1>4. Fresh \in [Readers -> Reading]
  BY DEF Fresh, Idle, Reading
<1>5. CASE StopScanner
  BY <1>4, <1>5
  DEF StopScanner, Closed, TypeOK, FeedTypeOK, OneScan, StopsOnlyOnShutdown,
      WatcherStopsOnlyOnShutdown
<1>6. ASSUME NEW b \in Blocks, ReapScan(b)
      PROVE  IInv'
  BY <1>4, <1>6
  DEF ReapScan, TypeOK, FeedTypeOK, OneScan, StopsOnlyOnShutdown,
      WatcherStopsOnlyOnShutdown
<1>7. ASSUME NEW b \in Blocks, NEW r \in Readers, ReaderStep(b, r)
      PROVE  IInv'
  <2>1. /\ UNCHANGED <<feedVars, scanner, cursor, last, tracker, open>>
        /\ inChannel' \in 0 .. PayloadCap
    BY <1>7 DEF ReaderStep, FetchCandidates, PushPayload, PushFails, TypeOK
  <2>2. work[b][r] \in Reading
    BY DEF TypeOK
  <2>3. PICK n \in 0 .. MaxCandidates : NowReading(b, r, n)
    BY <1>7, <2>2
    DEF ReaderStep, FetchCandidates, PushPayload, PushFails, Reading
  <2>4. work' \in [Blocks -> [Readers -> Reading]]
    BY <2>3 DEF NowReading, Reading, TypeOK
  <2>5. QED
    BY <2>1, <2>4
    DEF TypeOK, FeedTypeOK, OneScan, StopsOnlyOnShutdown,
        WatcherStopsOnlyOnShutdown
<1>8. CASE Pipeline
  <2>1. inChannel' \in 0 .. PayloadCap
    BY <1>8 DEF Pipeline, PipelineTakes, PipelineStops, TypeOK
  <2>2. QED
    BY <1>8, <2>1
  DEF Pipeline, PipelineTakes, PipelineStops, TypeOK, FeedTypeOK, OneScan,
      StopsOnlyOnShutdown, WatcherStopsOnlyOnShutdown
<1>9. QED
  BY <1>1, <1>2, <1>3, <1>5, <1>6, <1>7, <1>8 DEF Next

LEMMA Invariance == Spec => []IInv
BY InitIInv, StepIInv, PTL DEF Spec

(* Type correctness of the scanner and of the feed it reads. *)
THEOREM TypeCorrect == Spec => []TypeOK
BY Invariance, PTL DEF IInv

(***************************************************************************)
(* The overlap guard works: at most one scan at a time.                    *)
(***************************************************************************)
THEOREM AtMostOneScan == Spec => []OneScan
BY Invariance, PTL DEF IInv

(***************************************************************************)
(* Nothing but the shutdown stops the scanner.                             *)
(***************************************************************************)
THEOREM ScannerOutlives == Spec => []StopsOnlyOnShutdown
BY Invariance, PTL DEF IInv

(***************************************************************************)
(* Two scans are at least Interval blocks apart, whether the block came    *)
(* from the channel or from the node.                                      *)
(***************************************************************************)
THEOREM SpacedScans == Spec => ScansAreSpaced
<1>1. IInv /\ [Next]_vars
        => [\A b \in tracker' \ tracker : b >= last + Interval]_vars
  <2> SUFFICES ASSUME IInv, [Next]_vars, NEW b \in tracker' \ tracker
               PROVE  b >= last + Interval
    OBVIOUS
  <2> USE DEF IInv
  <2>1. CASE RecvBlock
    <3>1. published[cursor + 1] \in Blocks
      BY <2>1 DEF RecvBlock, Readable, TypeOK, FeedTypeOK
    <3>2. QED
      BY <2>1, <3>1, HandleBlockKeeps DEF RecvBlock
  <2>2. CASE QueryTip
    BY <2>2, HandleBlockKeeps DEF QueryTip
  <2>3. CASE ~RecvBlock /\ ~QueryTip
    <3>1. tracker' \subseteq tracker
      BY <2>3 DEF Next, SelectStep, RecvLagged, QueryFails, StopScanner,
           ReapScan, ReaderStep, FetchCandidates, PushPayload, PushFails,
           Pipeline, PipelineTakes, PipelineStops
    <3>2. QED
      BY <3>1
  <2>4. QED
    BY <2>1, <2>2, <2>3
<1>2. QED
  BY <1>1, Invariance, PTL DEF Spec, ScansAreSpaced

(***************************************************************************)
(* A scan starts from the node's tip, or from a block no more than BusCap  *)
(* messages old, for any capacity: a receiver further behind is told it    *)
(* lags and asks for the tip.                                              *)
(***************************************************************************)
THEOREM RecentScans == Spec => ScansAreRecent
<1> DEFINE Recent(b) ==
      \/ b >= tip - 1
      \/ \E i \in 1 .. Len(published) :
           published[i] = b /\ Len(published) - i < BusCap
<1>1. IInv /\ [Next]_vars => [\A b \in tracker' \ tracker : Recent(b)]_vars
  <2> SUFFICES ASSUME IInv, [Next]_vars, NEW b \in tracker' \ tracker
               PROVE  Recent(b)
    OBVIOUS
  <2> USE DEF IInv
  <2>1. CASE RecvBlock
    <3>1. b = published[cursor + 1]
      BY <2>1 DEF RecvBlock, HandleBlock, StartScan
    <3>2. cursor + 1 \in 1 .. Len(published) /\ Len(published) - (cursor + 1) < BusCap
      BY <2>1 DEF RecvBlock, Readable, Lagged, TypeOK, FeedTypeOK
    <3>3. QED
      BY <3>1, <3>2
  <2>2. CASE QueryTip
    BY <2>2 DEF QueryTip, HandleBlock, StartScan
  <2>3. CASE ~RecvBlock /\ ~QueryTip
    <3>1. tracker' \subseteq tracker
      BY <2>3 DEF Next, SelectStep, RecvLagged, QueryFails, StopScanner,
           ReapScan, ReaderStep, FetchCandidates, PushPayload, PushFails,
           Pipeline, PipelineTakes, PipelineStops
    <3>2. QED
      BY <3>1
  <2>4. QED
    BY <2>1, <2>2, <2>3
<1>2. QED
  BY <1>1, Invariance, PTL DEF Spec, ScansAreRecent

-----------------------------------------------------------------------------
(***************************************************************************)
(* What the scans leave: a stopped scanner has no scan, and a scan that is *)
(* not in the JoinSet has no work left over for the next one of its block. *)
(* A pipeline that has stopped leaves an empty channel.                    *)
(***************************************************************************)
StoppedJoins == scanner = "stopped" => tracker = {}

NothingLeftOver == \A b \in Blocks : b \notin tracker => work[b] = Fresh

ClosedEmpty == ~open => shutdown /\ inChannel = 0

ScansAccounted == StoppedJoins /\ NothingLeftOver /\ ClosedEmpty

(***************************************************************************)
(* A scan in the JoinSet can go on: a reader's fetch is out, or it has a   *)
(* candidate that is taken or refused at once, or the channel is full and  *)
(* the pipeline can make room, or the scan is finished and the scanner is  *)
(* there to join it.                                                       *)
(***************************************************************************)
ScanCanGoOn ==
  tracker # {} =>
    \/ \E r \in Readers : ~work[last][r].fetched
    \/ /\ \E r \in Readers : work[last][r].left > 0
       /\ ~open \/ inChannel < PayloadCap
    \/ open /\ inChannel = PayloadCap /\ inChannel > 0
    \/ Finished(last) /\ scanner \in {"select", "query"}

LEMMA HandledAccounted ==
  ASSUME TypeOK, NEW b \in Blocks, HandleBlock(b), NothingLeftOver
  PROVE  NothingLeftOver'
<1>1. CASE UNCHANGED <<last, tracker, work>>
  BY <1>1 DEF NothingLeftOver
<1>2. CASE StartScan(b)
  <2> SUFFICES ASSUME NEW a \in Blocks, a \notin tracker'
               PROVE  work'[a] = Fresh
    BY DEF NothingLeftOver, Fresh, Idle
  <2>1. a # b /\ a \notin tracker
    BY <1>2 DEF StartScan
  <2>2. work'[a] = work[a]
    BY <1>2, <2>1 DEF StartScan, TypeOK
  <2>3. QED
    BY <2>1, <2>2 DEF NothingLeftOver
<1>3. QED
  BY <1>1, <1>2 DEF HandleBlock

LEMMA StepAccounted ==
  ASSUME IInv, ScansAccounted, [Next]_vars
  PROVE  ScansAccounted'
<1> USE DEF IInv, ScansAccounted
<1>1. CASE UNCHANGED vars
  BY <1>1 DEF StoppedJoins, NothingLeftOver, ClosedEmpty, Fresh, Idle
<1>2. CASE FeedNext /\ UNCHANGED scanVars
  <2>1. shutdown => shutdown'
    BY <1>2 DEF FeedNext, RequestShutdown, NewBlock, Reorg, Announce,
         WatcherStep, CheckShutdown, Subscribe, ForwardBlock, StreamEnds,
         WatcherSeesShutdown, Watch
  <2>2. QED
    BY <1>2, <2>1 DEF StoppedJoins, NothingLeftOver, ClosedEmpty, Fresh, Idle
<1>3. CASE SelectStep
  <2>1. UNCHANGED <<shutdown, inChannel, open>> /\ scanner' # "stopped"
    BY <1>3 DEF SelectStep, RecvBlock, RecvLagged, QueryTip, QueryFails
  <2>2. NothingLeftOver'
    <3>1. CASE RecvBlock
      <4>1. published[cursor + 1] \in Blocks
        BY <3>1 DEF RecvBlock, Readable, TypeOK, FeedTypeOK
      <4>2. QED
        BY <3>1, <4>1, HandledAccounted DEF RecvBlock
    <3>2. CASE QueryTip
      BY <3>2, HandledAccounted DEF QueryTip
    <3>3. CASE RecvLagged \/ QueryFails
      BY <3>3 DEF RecvLagged, QueryFails, NothingLeftOver, Fresh, Idle
    <3>4. QED
      BY <1>3, <3>1, <3>2, <3>3 DEF SelectStep
  <2>3. QED
    BY <2>1, <2>2 DEF StoppedJoins, ClosedEmpty
<1>4. CASE StopScanner
  <2>1. \A b \in Blocks : work'[b] = Fresh
    BY <1>4 DEF StopScanner
  <2>2. NothingLeftOver'
    BY <2>1 DEF NothingLeftOver, Fresh, Idle
  <2>3. QED
    BY <1>4, <2>2 DEF StopScanner, StoppedJoins, ClosedEmpty
<1>5. ASSUME NEW b \in Blocks, ReapScan(b)
      PROVE  ScansAccounted'
  <2>1. /\ tracker' = tracker \ {b}
        /\ work' = [work EXCEPT ![b] = Fresh]
        /\ UNCHANGED <<shutdown, scanner, inChannel, open>>
    BY <1>5 DEF ReapScan
  <2>2. NothingLeftOver'
    <3> SUFFICES ASSUME NEW a \in Blocks, a \notin tracker'
                 PROVE  work'[a] = Fresh
      BY DEF NothingLeftOver, Fresh, Idle
    <3>1. CASE a = b
      BY <2>1, <3>1 DEF TypeOK
    <3>2. CASE a # b
      BY <2>1, <3>2 DEF TypeOK, NothingLeftOver
    <3>3. QED
      BY <3>1, <3>2
  <2>3. QED
    BY <2>1, <2>2 DEF StoppedJoins, ClosedEmpty
<1>6. ASSUME NEW b \in Blocks, NEW r \in Readers, ReaderStep(b, r)
      PROVE  ScansAccounted'
  <2>1. /\ b \in tracker
        /\ UNCHANGED <<shutdown, scanner, tracker, open>>
        /\ inChannel' = inChannel \/ open
    BY <1>6 DEF ReaderStep, FetchCandidates, PushPayload, PushFails
  <2>2. \E n : NowReading(b, r, n)
    BY <1>6 DEF ReaderStep, FetchCandidates, PushPayload, PushFails
  <2>3. NothingLeftOver'
    <3> SUFFICES ASSUME NEW a \in Blocks, a \notin tracker'
                 PROVE  work'[a] = Fresh
      BY DEF NothingLeftOver, Fresh, Idle
    <3>1. a # b
      BY <2>1
    <3>2. work'[a] = work[a]
      BY <2>2, <3>1 DEF NowReading, TypeOK
    <3>3. QED
      BY <2>1, <3>2 DEF NothingLeftOver
  <2>4. QED
    BY <2>1, <2>3 DEF StoppedJoins, ClosedEmpty
<1>7. CASE Pipeline
  <2>1. /\ UNCHANGED <<shutdown, scanner, tracker, work>>
        /\ ~open' => shutdown /\ inChannel' = 0
    BY <1>7 DEF Pipeline, PipelineTakes, PipelineStops
  <2>2. QED
    BY <2>1 DEF StoppedJoins, NothingLeftOver, ClosedEmpty, Fresh, Idle
<1>8. QED
  BY <1>1, <1>2, <1>3, <1>4, <1>5, <1>6, <1>7 DEF Next

(***************************************************************************)
(* Scans that were joined, aborted by a stop or begun again for a block    *)
(* that came back leave nothing of theirs to the next one, and the channel *)
(* of a pipeline that has stopped stays empty.                             *)
(***************************************************************************)
THEOREM ScansLeaveNothing == Spec => []ScansAccounted
<1>1. Init => ScansAccounted
  BY DEF Init, ScansAccounted, StoppedJoins, NothingLeftOver, ClosedEmpty
<1>2. IInv /\ ScansAccounted /\ [Next]_vars => ScansAccounted'
  BY StepAccounted
<1>3. QED
  BY <1>1, <1>2, Invariance, PTL DEF Spec

(***************************************************************************)
(* Nobody waits on everybody: the scanner on its scan, the scan on a full  *)
(* channel, the channel on the pipeline.  This is what ScansEnd rests on   *)
(* besides fairness.                                                       *)
(***************************************************************************)
THEOREM ScansNeverWedge == Spec => []ScanCanGoOn
<1>1. IInv /\ ScansAccounted => ScanCanGoOn
  <2> SUFFICES ASSUME TypeOK, OneScan, ScansAccounted, tracker # {},
                      \A r \in Readers : work[last][r].fetched,
                      ~(open /\ inChannel = PayloadCap /\ inChannel > 0)
               PROVE  \/ /\ \E r \in Readers : work[last][r].left > 0
                         /\ ~open \/ inChannel < PayloadCap
                      \/ Finished(last) /\ scanner \in {"select", "query"}
    BY DEF IInv, ScanCanGoOn
  <2>1. scanner \in {"select", "query"}
    BY DEF TypeOK, ScansAccounted, StoppedJoins
  <2>2. ~open \/ inChannel < PayloadCap
    BY DEF TypeOK
  <2>3. CASE \E r \in Readers : work[last][r].left > 0
    BY <2>2, <2>3
  <2>4. CASE \A r \in Readers : ~(work[last][r].left > 0)
    <3>1. last \in Blocks
      BY DEF TypeOK
    <3>2. ASSUME NEW r \in Readers PROVE work[last][r].left \in 0 .. MaxCandidates
      BY <3>1 DEF TypeOK, Reading
    <3>3. ASSUME NEW r \in Readers PROVE work[last][r].left = 0
      BY <2>4, <3>2
    <3>4. QED
      BY <2>1, <3>3 DEF Finished
  <2>5. QED
    BY <2>3, <2>4
<1>2. QED
  BY <1>1, Invariance, ScansLeaveNothing, PTL

=============================================================================
