--------------------------- MODULE Bootstrap_proofs --------------------------
(***************************************************************************)
(* Proofs about Bootstrap, for any set of pairs, any interleaving of the   *)
(* runs, any number of crashes, and any depth of reorganisation the        *)
(* overlap makes up for.                                                   *)
(***************************************************************************)
EXTENDS Bootstrap, TLAPS

(* BatchEnd is current_end, a block of the chain. *)
LEMMA BatchEndInRange ==
  ASSUME TypeOK, NEW p \in Protocols, start[p] <= latest[p]
  PROVE  /\ BatchEnd(p) \in Blocks
         /\ start[p] <= BatchEnd(p) /\ BatchEnd(p) <= latest[p]
BY BootstrapAssumption DEF TypeOK, BatchEnd, Blocks

(* saturating_sub stays a natural number. *)
LEMMA ResumeAtIsNat ==
  ASSUME NEW last \in Blocks \cup {None}
  PROVE  /\ ResumeAt(last) \in Nat
         /\ last = None => \A b \in Blocks : b < ResumeAt(last) => b < DeployBlock
         /\ last # None => \A b \in Blocks :
              b < ResumeAt(last) => b < last - Overlap
BY BootstrapAssumption DEF ResumeAt, Blocks

(* What save_last_block and persist leave in the store. *)
LEMMA StoreSaved ==
  ASSUME disk \in [Protocols -> Store], NEW p \in Protocols, NEW b \in Blocks
  PROVE  [disk EXCEPT ![p].last = b] \in [Protocols -> Store]
<1>1. [disk[p] EXCEPT !.last = b] \in Store
  BY DEF Store
<1> QED BY <1>1

LEMMA StorePersisted ==
  ASSUME disk \in [Protocols -> Store], NEW p \in Protocols,
         NEW new \in SUBSET Pairs
  PROVE  [disk EXCEPT ![p].rows = @ \cup new] \in [Protocols -> Store]
<1>1. disk[p].rows \cup new \in SUBSET Pairs
  BY DEF Store
<1>2. [disk[p] EXCEPT !.rows = @ \cup new] \in Store
  BY <1>1 DEF Store
<1> QED BY <1>2

-----------------------------------------------------------------------------
(* The steps of a run keep types.  The saved block needs the range above.  *)
LEMMA RunTypes ==
  ASSUME TypeOK, NEW p \in Protocols, BoundsOK(p), RunStep(p)
  PROVE  TypeOK'
<1> USE BootstrapAssumption DEF BoundsOK
<1>1. CASE LoadLastBlock(p)
  <2>1. ResumeAt(disk[p].last) \in Nat
    BY ResumeAtIsNat DEF TypeOK, Store
  <2> QED BY <1>1, <2>1 DEF LoadLastBlock, Goto, chainVars, TypeOK
<1>2. CASE GetBlockNumber(p)
  BY <1>2 DEF GetBlockNumber, Goto, chainVars, TypeOK
<1>3. CASE FetchBatch(p)
  <2>1. UNION {events[p][b] : b \in start[p] .. BatchEnd(p)} \subseteq Pairs
    <3>1. BatchEnd(p) \in Blocks
      BY <1>3, BatchEndInRange DEF FetchBatch
    <3>2. \A b \in start[p] .. BatchEnd(p) : events[p][b] \subseteq Pairs
      BY <3>1 DEF TypeOK, Blocks
    <3> QED BY <3>2
  <2> QED BY <1>3, <2>1 DEF FetchBatch, Goto, chainVars, TypeOK
<1>4. CASE FetchFails(p)
  <2>1. attempts[p] + 1 \in 0 .. MaxAttempts
    BY <1>4 DEF FetchFails, TypeOK
  <2> QED BY <1>4, <2>1 DEF FetchFails, Goto, chainVars, TypeOK
<1>5. CASE AddEntry(p)
  BY <1>5 DEF AddEntry, Goto, chainVars, TypeOK
<1>6. CASE PersistRow(p)
  <2>1. disk' \in [Protocols -> Store]
    BY <1>6, StorePersisted DEF PersistRow, TypeOK
  <2> QED BY <1>6, <2>1 DEF PersistRow, Goto, chainVars, TypeOK
<1>7. CASE SaveLastBlock(p)
  <2>1. BatchEnd(p) \in Blocks /\ BatchEnd(p) + 1 \in Nat
    BY <1>7, BatchEndInRange DEF SaveLastBlock, Blocks
  <2>2. disk' \in [Protocols -> Store]
    BY <1>7, <2>1, StoreSaved DEF SaveLastBlock, TypeOK
  <2>3. phase' \in [Protocols ->
          {"load", "latest", "fetch", "add", "persist", "done", "failed"}]
    BY <1>7 DEF SaveLastBlock, Goto, TypeOK
  <2>4. start' \in [Protocols -> Nat]
    BY <1>7, <2>1 DEF SaveLastBlock, TypeOK
  <2> QED BY <1>7, <2>2, <2>3, <2>4 DEF SaveLastBlock, Goto, chainVars, TypeOK
<1>8. CASE CallFails(p)
  BY <1>8 DEF CallFails, Goto, chainVars, TypeOK
<1> QED
  BY <1>1, <1>2, <1>3, <1>4, <1>5, <1>6, <1>7, <1>8 DEF RunStep

LEMMA NextTypes ==
  ASSUME TypeOK, \A p \in Protocols : BoundsOK(p), [Next]_vars
  PROVE  TypeOK'
<1> USE BootstrapAssumption
<1>1. CASE NewBlock
  <2>1. PICK es \in [Protocols -> Emitted(tip + 1)] :
          events' = [p \in Protocols |-> [events[p] EXCEPT ![tip + 1] = es[p]]]
    BY <1>1 DEF NewBlock
  <2>2. \A p \in Protocols : es[p] \in SUBSET Pairs
    BY DEF Emitted
  <2>3. events' \in [Protocols -> [Blocks -> SUBSET Pairs]]
    BY <2>1, <2>2 DEF TypeOK
  <2> QED BY <1>1, <2>3 DEF NewBlock, runVars, TypeOK, Blocks
<1>2. CASE Reorg
  <2>1. PICK p \in Protocols, b \in Blocks : \E es \in Emitted(b) :
          events' = [events EXCEPT ![p][b] = es]
    BY <1>2 DEF Reorg
  <2>2. PICK es \in Emitted(b) : events' = [events EXCEPT ![p][b] = es]
    BY <2>1
  <2>3. [events[p] EXCEPT ![b] = es] \in [Blocks -> SUBSET Pairs]
    BY DEF Emitted, TypeOK
  <2>4. events' \in [Protocols -> [Blocks -> SUBSET Pairs]]
    BY <2>2, <2>3 DEF TypeOK
  <2> QED BY <1>2, <2>4 DEF Reorg, runVars, TypeOK
<1>3. ASSUME NEW p \in Protocols, RunStep(p) PROVE TypeOK'
  BY <1>3, RunTypes
<1>4. CASE StartEngine \/ Flush
  BY <1>4 DEF StartEngine, Flush, chainVars, runVars, TypeOK
<1>5. ASSUME NEW found \in [Protocols -> Store], Boot(found) PROVE TypeOK'
  <2>1. cache' \in [Protocols -> SUBSET Pairs]
    BY <1>5 DEF Boot, Store
  <2> QED BY <1>5, <2>1 DEF Boot, chainVars, TypeOK
<1>6. CASE Crash \/ GiveUp
  BY <1>5, <1>6 DEF Crash, GiveUp, TypeOK
<1>7. CASE UNCHANGED vars
  BY <1>7 DEF vars, chainVars, runVars, TypeOK
<1> QED
  BY <1>1, <1>2, <1>3, <1>4, <1>6, <1>7 DEF Next

-----------------------------------------------------------------------------
LEMMA InitIInv == Init => IInv
<1> SUFFICES ASSUME Init PROVE IInv
  OBVIOUS
<1> USE BootstrapAssumption
<1>1. TypeOK
  <2>1. disk \in [Protocols -> Store] /\ durable = disk
    <3>1. [rows |-> {}, last |-> None] \in Store
      BY DEF Store
    <3> QED BY <3>1 DEF Init
  <2>2. 0 \in Blocks /\ 0 \in 0 .. MaxReorgs /\ 0 \in 0 .. MaxCrashes
          /\ 0 \in 0 .. MaxAttempts
    BY DEF Blocks
  <2>3. events \in [Protocols -> [Blocks -> SUBSET Pairs]]
    BY DEF Init
  <2>4. phase \in [Protocols ->
          {"load", "latest", "fetch", "add", "persist", "done", "failed"}]
    BY DEF Init
  <2> QED BY <2>1, <2>2, <2>3, <2>4 DEF Init, TypeOK
<1>2. ChainOK /\ StoreOK(disk) /\ Covered(disk)
  BY DEF Init, ChainOK, StoreOK, Covered, Tracked
<1>3. \A p \in Protocols : BoundsOK(p)
  BY DEF Init, BoundsOK
<1>4. \A p \in Tracked : ReadOK(p) /\ CacheOK(p)
  BY DEF Init, ReadOK, CacheOK, Tracked
<1> QED
  BY <1>1, <1>2, <1>3, <1>4 DEF Init, IInv, ResumesSafely, StoreOK, Covered

(***************************************************************************)
(* The chain's own steps leave the blocks that are settled alone, and what *)
(* a store or a run vouches for is settled.                                *)
(***************************************************************************)
LEMMA ChainMoves ==
  ASSUME IInv, NewBlock \/ Reorg
  PROVE  /\ tip' >= tip
         /\ ChainOK'
         /\ \A p \in Protocols, b \in Blocks :
              b <= tip - MaxDepth => events'[p][b] = events[p][b]
<1> USE BootstrapAssumption DEF IInv, TypeOK, Blocks
<1>1. CASE NewBlock
  <2>1. PICK es \in [Protocols -> Emitted(tip + 1)] :
          events' = [p \in Protocols |-> [events[p] EXCEPT ![tip + 1] = es[p]]]
    BY <1>1 DEF NewBlock
  <2>2. \A p \in Protocols : tip + 1 < DeployBlock => es[p] = {}
    BY <2>1 DEF Emitted
  <2>3. tip \in 0 .. MaxBlock /\ tip' = tip + 1
    BY <1>1 DEF NewBlock
  <2>4. \A p \in Protocols, b \in Blocks :
          b # tip + 1 => events'[p][b] = events[p][b]
    BY <2>1, <2>3
  <2>5. ASSUME NEW p \in Protocols, NEW b \in Blocks, b < DeployBlock
        PROVE  events'[p][b] = {}
    <3>1. CASE b = tip + 1
      BY <2>1, <2>2, <2>5, <3>1
    <3>2. CASE b # tip + 1
      BY <2>4, <2>5, <3>2 DEF ChainOK
    <3> QED BY <3>1, <3>2
  <2>6. ChainOK'
    BY <2>5 DEF ChainOK
  <2> QED BY <2>3, <2>4, <2>6
<1>2. CASE Reorg
  <2>1. PICK q \in Protocols, c \in Blocks :
          /\ tip - MaxDepth < c
          /\ \E es \in Emitted(c) : events' = [events EXCEPT ![q][c] = es]
    BY <1>2 DEF Reorg
  <2>2. PICK es \in Emitted(c) : events' = [events EXCEPT ![q][c] = es]
    BY <2>1
  <2>3. c < DeployBlock => es = {}
    BY DEF Emitted
  <2>4. \A p \in Protocols, b \in Blocks :
          events'[p][b] = IF p = q /\ b = c THEN es ELSE events[p][b]
    BY <2>2
  <2>5. ChainOK'
    BY <2>3, <2>4 DEF ChainOK
  <2>6. \A p \in Protocols, b \in Blocks :
          b <= tip - MaxDepth => events'[p][b] = events[p][b]
    BY <2>1, <2>4
  <2> QED BY <1>2, <2>5, <2>6 DEF Reorg
<1> QED BY <1>1, <1>2

LEMMA ChainStepIInv ==
  ASSUME IInv, NewBlock \/ Reorg
  PROVE  IInv'
<1> USE BootstrapAssumption, DepthAssumption
<1>1. TypeOK'
  BY NextTypes DEF IInv, Next
<1>2. UNCHANGED <<crashes, engine, runVars, disk, durable>>
  BY DEF NewBlock, Reorg
<1>3. tip \in Int /\ tip' \in Int /\ tip' >= tip
  BY <1>1, ChainMoves DEF IInv, TypeOK, Blocks
<1>4. ASSUME NEW store \in [Protocols -> Store], StoreOK(store), Covered(store),
             store' = store
      PROVE  StoreOK(store)' /\ Covered(store)'
  <2>1. ASSUME NEW p \in Protocols, store[p].last # None
        PROVE  store[p].last \in Int /\ store[p].last <= tip
    BY <1>4, <2>1 DEF StoreOK, Store, Blocks
  <2>2. StoreOK(store)'
    BY <1>3, <1>4, <2>1 DEF StoreOK
  <2>3. ASSUME NEW p \in Tracked, store[p].last # None,
               NEW b \in Blocks, b < store[p].last - Overlap
        PROVE  events'[p][b] \subseteq store[p].rows
    <3>1. p \in Protocols
      BY DEF Tracked
    <3>2. b <= tip - MaxDepth
      BY <1>3, <2>1, <2>3, <3>1 DEF Blocks
    <3> QED BY <1>4, <2>3, <3>1, <3>2, ChainMoves DEF Covered
  <2> QED BY <1>4, <2>2, <2>3 DEF Covered, Tracked
<1>5. ResumesSafely' /\ StoreOK(disk)' /\ StoreOK(durable)'
  <2>1. disk \in [Protocols -> Store] /\ durable \in [Protocols -> Store]
    BY DEF IInv, TypeOK
  <2>2. disk' = disk /\ durable' = durable
    BY <1>2
  <2>3. StoreOK(disk)' /\ Covered(disk)'
    BY <1>4, <2>1, <2>2 DEF IInv, ResumesSafely
  <2>4. StoreOK(durable)' /\ Covered(durable)'
    BY <1>4, <2>1, <2>2 DEF IInv, ResumesSafely
  <2> QED BY <2>3, <2>4 DEF ResumesSafely
<1>6. ASSUME NEW p \in Protocols PROVE BoundsOK(p)'
  <2>1. BoundsOK(p) /\ latest[p] \in Int
    BY DEF IInv, TypeOK, Blocks
  <2> QED BY <1>2, <1>3, <2>1 DEF BoundsOK, runVars
<1>7. ASSUME NEW p \in Tracked PROVE ReadOK(p)' /\ CacheOK(p)'
  <2>1. p \in Protocols /\ latest[p] \in Int /\ latest[p] <= tip
    BY DEF Tracked, IInv, BoundsOK, TypeOK, Blocks
  <2>2. \A b \in Blocks :
          b <= latest[p] - MaxDepth => events'[p][b] = events[p][b]
    BY <1>3, <2>1, ChainMoves DEF Blocks
  <2>3. Known(p)' = Known(p)
    BY <1>2 DEF Known, BatchEnd, runVars
  <2>4. ReadOK(p)'
    BY <1>2, <2>2, <2>3 DEF IInv, ReadOK, runVars
  <2>5. CacheOK(p)'
    BY <1>2 DEF IInv, CacheOK, runVars
  <2> QED BY <2>4, <2>5
<1> QED
  BY <1>1, <1>2, <1>5, <1>6, <1>7, ChainMoves DEF IInv, Tracked, runVars

-----------------------------------------------------------------------------
(***************************************************************************)
(* A step of p's run leaves the chain, the durable store and the other     *)
(* runs as they are; so it is enough to look at p.                         *)
(***************************************************************************)
Others(p) ==
  \A q \in Protocols \ {p} :
    /\ phase'[q] = phase[q] /\ start'[q] = start[q] /\ latest'[q] = latest[q]
    /\ attempts'[q] = attempts[q] /\ entries'[q] = entries[q]
    /\ adding'[q] = adding[q] /\ cache'[q] = cache[q] /\ disk'[q] = disk[q]

LEMMA RunStepFrame ==
  ASSUME TypeOK, NEW p \in Protocols, RunStep(p)
  PROVE  /\ UNCHANGED <<tip, events, engine, durable>>
         /\ phase[p] \notin {"done", "failed"}
         /\ Others(p)
<1> USE DEF Others, TypeOK, Goto, chainVars
<1>1. CASE LoadLastBlock(p) BY <1>1 DEF LoadLastBlock
<1>2. CASE GetBlockNumber(p) BY <1>2 DEF GetBlockNumber
<1>3. CASE FetchBatch(p) BY <1>3 DEF FetchBatch
<1>4. CASE FetchFails(p) BY <1>4 DEF FetchFails
<1>5. CASE AddEntry(p) BY <1>5 DEF AddEntry
<1>6. CASE PersistRow(p) BY <1>6 DEF PersistRow
<1>7. CASE SaveLastBlock(p) BY <1>7 DEF SaveLastBlock
<1>8. CASE CallFails(p) BY <1>8 DEF CallFails
<1> QED
  BY <1>1, <1>2, <1>3, <1>4, <1>5, <1>6, <1>7, <1>8 DEF RunStep

LEMMA FrameIInv ==
  ASSUME IInv, NEW p \in Protocols, RunStep(p),
         BoundsOK(p)',
         disk[p].last # None \/ disk'[p].last # None =>
           disk'[p].last # None /\ disk'[p].last <= tip,
         p \in Tracked =>
           /\ ReadOK(p)' /\ CacheOK(p)'
           /\ \A b \in Blocks :
                disk'[p].last # None /\ b < disk'[p].last - Overlap =>
                  events[p][b] \subseteq disk'[p].rows
  PROVE  IInv'
<1>1. TypeOK'
  BY RunTypes DEF IInv
<1>2. /\ UNCHANGED <<tip, events, engine, durable>>
      /\ phase[p] \notin {"done", "failed"}
      /\ Others(p)
  BY RunStepFrame DEF IInv
<1>3. ASSUME NEW q \in Protocols, q # p
      PROVE  BoundsOK(q)' /\ (q \in Tracked => ReadOK(q)' /\ CacheOK(q)')
  <2>1. BoundsOK(q) /\ (q \in Tracked => ReadOK(q) /\ CacheOK(q))
    BY DEF IInv
  <2>2. BoundsOK(q)'
    BY <1>2, <1>3, <2>1 DEF BoundsOK, Others
  <2>3. Known(q)' = Known(q)
    BY <1>2, <1>3 DEF Known, BatchEnd, Others
  <2>4. q \in Tracked => ReadOK(q)' /\ CacheOK(q)'
    BY <1>2, <1>3, <2>1, <2>3 DEF ReadOK, CacheOK, Others
  <2> QED BY <2>2, <2>4
<1>4. StoreOK(disk)' /\ Covered(disk)'
  BY <1>2 DEF IInv, ResumesSafely, StoreOK, Covered, Others, Tracked
<1>5. StoreOK(durable)' /\ Covered(durable)'
  BY <1>2 DEF IInv, ResumesSafely, StoreOK, Covered, Tracked
<1>6. engine' # "running"
  BY <1>2 DEF IInv
<1> QED
  BY <1>1, <1>2, <1>3, <1>4, <1>5, <1>6 DEF IInv, ResumesSafely, ChainOK, Tracked

LEMMA RunStepIInv ==
  ASSUME IInv, NEW p \in Protocols, RunStep(p)
  PROVE  IInv'
<1> USE BootstrapAssumption, DepthAssumption
<1> DEFINE StoreKept ==
      /\ disk[p].last # None \/ disk'[p].last # None =>
           disk'[p].last # None /\ disk'[p].last <= tip
      /\ p \in Tracked => \A b \in Blocks :
           disk'[p].last # None /\ b < disk'[p].last - Overlap =>
             events[p][b] \subseteq disk'[p].rows
    RunKept == BoundsOK(p)' /\ (p \in Tracked => ReadOK(p)' /\ CacheOK(p)')
<1>1. /\ TypeOK /\ BoundsOK(p)
      /\ p \in Tracked => ReadOK(p) /\ CacheOK(p)
      /\ disk[p].last # None => disk[p].last <= tip
      /\ p \in Tracked => \A b \in Blocks :
           disk[p].last # None /\ b < disk[p].last - Overlap =>
             events[p][b] \subseteq disk[p].rows
  BY DEF IInv, ResumesSafely, StoreOK, Covered
<1>2. UNCHANGED <<tip, events>>
  BY <1>1, RunStepFrame
<1>3. disk' = disk => StoreKept
  BY <1>1
<1>4. /\ start[p] \in Nat /\ latest[p] \in Blocks /\ tip \in Blocks
      /\ disk[p].last \in Blocks \cup {None} /\ attempts[p] \in Nat
  BY <1>1 DEF TypeOK, Store
<1>5. CASE LoadLastBlock(p)
  <2>1. /\ phase'[p] = "latest" /\ start'[p] = ResumeAt(disk[p].last)
        /\ UNCHANGED <<latest, attempts, entries, adding, cache, disk>>
    BY <1>1, <1>5 DEF LoadLastBlock, Goto, TypeOK
  <2>2. RunKept
    BY <1>1, <1>2, <1>5, <2>1 DEF LoadLastBlock, BoundsOK, ReadOK, CacheOK
  <2> QED BY <1>3, <1>5, <2>1, <2>2, FrameIInv
<1>6. CASE GetBlockNumber(p)
  <2>1. PICK b \in Blocks :
          /\ b <= tip /\ latest' = [latest EXCEPT ![p] = b]
          /\ Goto(p, IF start[p] <= b THEN "fetch" ELSE "done")
    BY <1>6 DEF GetBlockNumber
  <2>2. /\ phase[p] = "latest" /\ latest'[p] = b
        /\ phase'[p] = IF start[p] <= b THEN "fetch" ELSE "done"
        /\ UNCHANGED <<start, attempts, entries, adding, cache, disk>>
    BY <1>1, <1>6, <2>1 DEF GetBlockNumber, Goto, TypeOK
  <2>3. BoundsOK(p)'
    BY <1>1, <1>2, <1>4, <2>1, <2>2 DEF BoundsOK, Blocks
  <2>4. ASSUME p \in Tracked, NEW c \in Blocks, c < start[p]
        PROVE  events[p][c] \subseteq cache[p]
    <3>1. start[p] = ResumeAt(disk[p].last)
      BY <1>1, <2>2 DEF BoundsOK
    <3>2. CASE disk[p].last = None
      <4>1. c < DeployBlock
        BY <1>4, <2>4, <3>1, <3>2, ResumeAtIsNat
      <4> QED BY <4>1 DEF IInv, ChainOK
    <3>3. CASE disk[p].last # None
      <4>1. c < disk[p].last - Overlap
        BY <1>4, <2>4, <3>1, <3>3, ResumeAtIsNat
      <4> QED BY <1>1, <2>4, <3>3, <4>1 DEF CacheOK
    <3> QED BY <3>2, <3>3
  <2>5. p \in Tracked => ReadOK(p)' /\ CacheOK(p)'
    BY <1>1, <1>2, <2>2, <2>4 DEF ReadOK, CacheOK, Known
  <2> QED BY <1>3, <1>6, <2>2, <2>3, <2>5, FrameIInv
<1>7. CASE FetchBatch(p)
  <2>1. /\ phase[p] = "fetch" /\ phase'[p] = "add" /\ attempts'[p] = 0
        /\ entries'[p] = UNION {events[p][b] : b \in start[p] .. BatchEnd(p)}
        /\ UNCHANGED <<start, latest, adding, cache, disk>>
    BY <1>1, <1>7 DEF FetchBatch, Goto, TypeOK
  <2>2. BatchEnd(p) \in Blocks /\ BatchEnd(p)' = BatchEnd(p)
    BY <1>1, <2>1, BatchEndInRange DEF BoundsOK, BatchEnd
  <2>3. ASSUME p \in Tracked, NEW b \in Blocks,
               b < BatchEnd(p) + 1, b <= latest[p] - MaxDepth
        PROVE  events[p][b] \subseteq cache[p] \cup entries'[p]
    <3>1. CASE b < start[p]
      BY <1>1, <2>1, <2>3, <3>1 DEF ReadOK, CacheOK, Known
    <3>2. CASE b \in start[p] .. BatchEnd(p)
      BY <2>1, <3>2
    <3> QED BY <1>4, <2>2, <2>3, <3>1, <3>2 DEF Blocks
  <2>4. p \in Tracked => ReadOK(p)'
    BY <1>2, <2>1, <2>2, <2>3 DEF ReadOK, Known
  <2>5. BoundsOK(p)' /\ (p \in Tracked => CacheOK(p)')
    BY <1>1, <1>2, <2>1 DEF BoundsOK, CacheOK
  <2> QED BY <1>3, <1>7, <2>1, <2>4, <2>5, FrameIInv
<1>8. CASE FetchFails(p)
  <2>1. /\ phase[p] = "fetch"
        /\ attempts'[p] = attempts[p] + 1
        /\ phase'[p] = IF attempts[p] + 1 >= MaxAttempts THEN "failed" ELSE "fetch"
        /\ UNCHANGED <<start, latest, entries, adding, cache, disk>>
    BY <1>1, <1>8 DEF FetchFails, Goto, TypeOK
  <2>2. RunKept
    BY <1>1, <1>2, <1>4, <2>1 DEF BoundsOK, ReadOK, CacheOK, Known
  <2> QED BY <1>3, <1>8, <2>1, <2>2, FrameIInv
<1>9. CASE AddEntry(p)
  <2>1. /\ phase[p] = "add" /\ phase'[p] \in {"add", "persist"}
        /\ UNCHANGED <<start, latest, attempts, disk>>
    BY <1>1, <1>9 DEF AddEntry, Goto, TypeOK
  <2>2. BoundsOK(p)'
    BY <1>1, <1>2, <2>1 DEF BoundsOK
  <2>3. Known(p)' = Known(p)
    BY <2>1 DEF Known, BatchEnd
  <2>4. ASSUME p \in Tracked PROVE ReadOK(p)' /\ CacheOK(p)'
    <3>0. PICK e \in entries[p] :
            /\ entries' = [entries EXCEPT ![p] = @ \ {e}]
            /\ \/ e \in cache[p] /\ Goto(p, "add") /\ UNCHANGED <<adding, cache>>
               \/ /\ cache' = [cache EXCEPT ![p] = @ \cup {e}]
                  /\ adding' = [adding EXCEPT ![p] = {e}]
                  /\ Goto(p, "persist")
      BY <1>9, <2>4 DEF AddEntry, Contained, Tracked
    <3>1. /\ entries'[p] = entries[p] \ {e}
          /\ \/ /\ e \in cache[p] /\ phase'[p] = "add"
                /\ UNCHANGED <<adding, cache>>
             \/ /\ cache'[p] = cache[p] \cup {e} /\ adding'[p] = {e}
                /\ phase'[p] = "persist"
      BY <1>1, <3>0 DEF Goto, TypeOK
    <3>2. cache[p] \cup entries[p] \subseteq cache'[p] \cup entries'[p]
      BY <3>1
    <3>3. ReadOK(p)'
      BY <1>1, <1>2, <2>1, <2>3, <2>4, <3>2 DEF ReadOK
    <3>4. CacheOK(p)'
      BY <1>1, <2>1, <2>4, <3>1 DEF CacheOK
    <3> QED BY <3>3, <3>4
  <2> QED BY <1>3, <1>9, <2>1, <2>2, <2>4, FrameIInv
<1>10. CASE PersistRow(p)
  <2>1. /\ phase[p] = "persist" /\ phase'[p] = "add" /\ adding'[p] = {}
        /\ disk'[p].rows = disk[p].rows \cup adding[p]
        /\ disk'[p].last = disk[p].last
        /\ UNCHANGED <<start, latest, attempts, entries, cache>>
    BY <1>1, <1>10 DEF PersistRow, Goto, TypeOK, Store
  <2>2. RunKept
    BY <1>1, <1>2, <2>1 DEF BoundsOK, ReadOK, CacheOK, Known, BatchEnd
  <2>3. StoreKept
    BY <1>1, <2>1
  <2> QED BY <1>10, <2>2, <2>3, FrameIInv
<1>11. CASE SaveLastBlock(p)
  <2>1. /\ phase[p] = "add" /\ entries[p] = {}
        /\ disk'[p].rows = disk[p].rows /\ disk'[p].last = BatchEnd(p)
        /\ start'[p] = BatchEnd(p) + 1
        /\ phase'[p] = IF BatchEnd(p) + 1 <= latest[p] THEN "fetch" ELSE "done"
        /\ UNCHANGED <<latest, attempts, entries, adding, cache>>
    BY <1>1, <1>11 DEF SaveLastBlock, Goto, TypeOK, Store
  <2>2. BatchEnd(p) \in Blocks /\ BatchEnd(p) <= latest[p]
    BY <1>1, <2>1, BatchEndInRange DEF BoundsOK
  <2>3. BoundsOK(p)'
    BY <1>1, <1>2, <1>4, <2>1, <2>2 DEF BoundsOK, Blocks
  <2>4. p \in Tracked => ReadOK(p)' /\ CacheOK(p)'
    BY <1>1, <1>2, <2>1 DEF ReadOK, CacheOK, Known
  <2>5. ASSUME p \in Tracked, NEW b \in Blocks, b < BatchEnd(p) - Overlap
        PROVE  events[p][b] \subseteq disk[p].rows
    <3>1. b < BatchEnd(p) + 1 /\ b <= latest[p] - MaxDepth
      BY <1>4, <2>2, <2>5 DEF Blocks
    <3> QED BY <1>1, <2>1, <2>5, <3>1 DEF ReadOK, CacheOK, Known
  <2>6. StoreKept
    <3>1. BatchEnd(p) # None /\ BatchEnd(p) <= tip
      BY <1>1, <1>4, <2>2 DEF BoundsOK, Blocks
    <3> QED BY <2>1, <2>5, <3>1
  <2> QED BY <1>11, <2>3, <2>4, <2>6, FrameIInv
<1>12. CASE CallFails(p)
  <2>1. /\ phase'[p] = "failed"
        /\ UNCHANGED <<start, latest, attempts, entries, adding, cache, disk>>
    BY <1>1, <1>12 DEF CallFails, Goto, TypeOK
  <2>2. RunKept
    BY <1>1, <1>2, <2>1 DEF BoundsOK, ReadOK, CacheOK
  <2> QED BY <1>3, <1>12, <2>1, <2>2, FrameIInv
<1> QED
  BY <1>5, <1>6, <1>7, <1>8, <1>9, <1>10, <1>11, <1>12 DEF RunStep

-----------------------------------------------------------------------------
(* A new process starts from a store that can be resumed from. *)
LEMMA BootIInv ==
  ASSUME IInv, NEW found \in [Protocols -> Store], Boot(found),
         StoreOK(found), Covered(found)
  PROVE  IInv'
<1> USE BootstrapAssumption
<1>1. TypeOK'
  <2>1. cache' \in [Protocols -> SUBSET Pairs]
    BY DEF Boot, Store
  <2>2. attempts' \in [Protocols -> 0 .. MaxAttempts]
    BY DEF Boot
  <2> QED BY <2>1, <2>2 DEF Boot, chainVars, IInv, TypeOK
<1>2. /\ disk' = found /\ durable' = found /\ engine' = "boot"
      /\ UNCHANGED <<tip, events, start, latest>>
      /\ \A p \in Protocols :
           /\ phase'[p] = "load" /\ entries'[p] = {} /\ adding'[p] = {}
           /\ attempts'[p] = 0 /\ cache'[p] = found[p].rows
  BY DEF Boot, chainVars
<1>3. StoreOK(disk)' /\ StoreOK(durable)' /\ ResumesSafely'
  BY <1>2 DEF StoreOK, Covered, ResumesSafely, Tracked
<1>4. \A p \in Protocols : BoundsOK(p)'
  BY <1>2 DEF IInv, BoundsOK
<1>5. \A p \in Tracked : ReadOK(p)' /\ CacheOK(p)'
  BY <1>2 DEF ReadOK, CacheOK, Tracked
<1> QED
  BY <1>1, <1>2, <1>3, <1>4, <1>5 DEF IInv, ChainOK, Tracked

LEMMA NextIInv == IInv /\ [Next]_vars => IInv'
<1> SUFFICES ASSUME IInv, [Next]_vars PROVE IInv'
  OBVIOUS
<1>1. TypeOK'
  BY NextTypes DEF IInv
<1>2. CASE StartEngine
  BY <1>1, <1>2
  DEF StartEngine, chainVars, runVars, IInv, ChainOK, ResumesSafely, Covered,
      StoreOK, BoundsOK, ReadOK, CacheOK, Known, BatchEnd, Tracked
<1>3. CASE Flush
  BY <1>1, <1>3
  DEF Flush, chainVars, runVars, IInv, ChainOK, ResumesSafely, Covered,
      StoreOK, BoundsOK, ReadOK, CacheOK, Known, BatchEnd, Tracked
<1>4. CASE Crash \/ GiveUp
  BY <1>4, BootIInv DEF Crash, GiveUp, IInv, TypeOK, ResumesSafely
<1>5. CASE UNCHANGED vars
  BY <1>1, <1>5
  DEF vars, chainVars, runVars, IInv, ChainOK, ResumesSafely, Covered,
      StoreOK, BoundsOK, ReadOK, CacheOK, Known, BatchEnd, Tracked
<1> QED
  BY <1>2, <1>3, <1>4, <1>5, ChainStepIInv, RunStepIInv DEF Next

LEMMA IInvHolds == Spec => []IInv
BY InitIInv, NextIInv, PTL DEF Spec

-----------------------------------------------------------------------------
(* Type correctness; in particular the attempts at a batch stay within     *)
(* MaxAttempts and the block saved is a block of the chain.                *)
THEOREM TypeCorrect == Spec => []TypeOK
<1>1. IInv => TypeOK
  BY DEF IInv
<1> QED BY <1>1, IInvHolds, PTL

(***************************************************************************)
(* Whatever a crash leaves of the store can be resumed from: for every     *)
(* batch size and every interleaving of runs, flushes, crashes and         *)
(* reorganisations no deeper than Overlap + 1, the block saved is never    *)
(* ahead of the rows by more than the next run reads again.                *)
(***************************************************************************)
THEOREM StoresResumeSafely == Spec => []ResumesSafely
<1>1. IInv => ResumesSafely
  BY DEF IInv
<1> QED BY <1>1, IInvHolds, PTL

(***************************************************************************)
(* The engine starts with every pair that a settled event named, for every *)
(* protocol whose identities parse.                                        *)
(***************************************************************************)
THEOREM StartsComplete == Spec => []Complete
<1>1. ASSUME IInv PROVE Complete
  <2>1. ASSUME engine = "running", NEW p \in Tracked, NEW b \in Blocks,
               b <= latest[p] - MaxDepth
        PROVE  events[p][b] \subseteq cache[p]
    <3>1. p \in Protocols /\ phase[p] = "done"
      BY <1>1, <2>1 DEF IInv, Tracked
    <3>2. entries[p] = {} /\ start[p] > latest[p]
      BY <1>1, <3>1 DEF IInv, CacheOK, BoundsOK
    <3>3. b < Known(p)
      BY <1>1, <2>1, <3>1, <3>2, BootstrapAssumption
      DEF Known, IInv, TypeOK, Blocks
    <3> QED BY <1>1, <2>1, <3>1, <3>2, <3>3 DEF IInv, ReadOK
  <2> QED BY <2>1 DEF Complete
<1> QED BY <1>1, IInvHolds, PTL

-----------------------------------------------------------------------------
(***************************************************************************)
(* A protocol whose identities do not parse, as Morpho's do not.           *)
(***************************************************************************)
Unread == Protocols \ Tracked

NothingListed ==
  \A p \in Unread :
    /\ phase[p] # "persist"
    /\ cache[p] = {} /\ adding[p] = {}
    /\ disk[p].rows = {} /\ durable[p].rows = {}

LEMMA NothingListedStep ==
  ASSUME TypeOK, NothingListed, [Next]_vars
  PROVE  NothingListed'
<1> SUFFICES ASSUME NEW p \in Unread
             PROVE  /\ phase'[p] # "persist"
                    /\ cache'[p] = {} /\ adding'[p] = {}
                    /\ disk'[p].rows = {} /\ durable'[p].rows = {}
  BY DEF NothingListed, Unread, Tracked, Parses, WrittenWidths, ReadWidths, AssetWidth
<1>1. /\ p \in Protocols /\ ~Parses(p)
      /\ phase[p] # "persist"
      /\ cache[p] = {} /\ adding[p] = {}
      /\ disk[p].rows = {} /\ durable[p].rows = {}
  BY DEF NothingListed, Unread, Tracked
<1> USE <1>1 DEF TypeOK, Store
<1>2. CASE NewBlock \/ Reorg \/ StartEngine \/ UNCHANGED vars
  BY <1>2 DEF NewBlock, Reorg, StartEngine, vars, runVars
<1>3. CASE Flush
  BY <1>3 DEF Flush, runVars
<1>4. CASE Crash \/ GiveUp
  <2>1. \E found \in {disk, durable} : Boot(found)
    BY <1>4 DEF Crash, GiveUp
  <2> QED BY <2>1 DEF Boot
<1>5. ASSUME NEW q \in Protocols, RunStep(q)
      PROVE  /\ phase'[p] # "persist"
             /\ cache'[p] = {} /\ adding'[p] = {}
             /\ disk'[p].rows = {} /\ durable'[p].rows = {}
  <2>1. CASE q # p
    <3>1. Others(q)
      BY <1>5, RunStepFrame
    <3>2. durable' = durable
      BY <1>5 DEF RunStep, LoadLastBlock, GetBlockNumber, FetchBatch, FetchFails,
                  AddEntry, PersistRow, SaveLastBlock, CallFails, Goto
    <3> QED BY <2>1, <3>1, <3>2 DEF Others
  <2>2. CASE q = p
    <3>1. CASE LoadLastBlock(p) \/ GetBlockNumber(p) \/ FetchBatch(p) \/ FetchFails(p)
      BY <3>1 DEF LoadLastBlock, GetBlockNumber, FetchBatch, FetchFails, Goto
    <3>2. CASE AddEntry(p)
      BY <3>2 DEF AddEntry, Contained, Goto
    <3>3. CASE PersistRow(p)
      BY <3>3 DEF PersistRow
    <3>4. CASE SaveLastBlock(p)
      BY <3>4 DEF SaveLastBlock, Goto
    <3>5. CASE CallFails(p)
      BY <3>5 DEF CallFails, Goto
    <3> QED BY <1>5, <2>2, <3>1, <3>2, <3>3, <3>4, <3>5 DEF RunStep
  <2> QED BY <2>1, <2>2
<1> QED BY <1>2, <1>3, <1>4, <1>5 DEF Next

(***************************************************************************)
(* The list of a protocol whose identities do not parse stays empty, in    *)
(* memory and on disk, whatever the chain names, however often the         *)
(* bootstrap runs and although it counts and reports what it adds: the     *)
(* general form of what IndexedIsTracked finds on one chain.               *)
(***************************************************************************)
THEOREM UnreadListsStayEmpty == Spec => []NothingListed
<1>1. Init => NothingListed
  BY DEF Init, NothingListed, Unread
<1>2. TypeOK /\ NothingListed /\ [Next]_vars => NothingListed'
  BY NothingListedStep
<1> QED BY <1>1, <1>2, TypeCorrect, PTL DEF Spec

(***************************************************************************)
(* What the updaters start from (ListInit of WatchList): the list in       *)
(* memory is the list on disk.                                             *)
(***************************************************************************)
ListsMatchStores ==
  engine = "running" => \A p \in Protocols : cache[p] = disk[p].rows

(***************************************************************************)
(* The engine starts only when every run has succeeded, and then nothing   *)
(* is in memory only: no row is still being written and none is missing.   *)
(***************************************************************************)
THEOREM StartsFromTheStores == Spec => []ListsMatchStores
<1>1. IInv /\ NothingListed => ListsMatchStores
  <2> SUFFICES ASSUME IInv, NothingListed, engine = "running", NEW p \in Protocols
               PROVE  cache[p] = disk[p].rows
    BY DEF ListsMatchStores
  <2>1. CASE p \in Tracked
    <3>1. phase[p] = "done" /\ CacheOK(p)
      BY <2>1 DEF IInv
    <3> QED BY <3>1 DEF CacheOK
  <2>2. CASE p \notin Tracked
    BY <2>2 DEF NothingListed, Unread
  <2> QED BY <2>1, <2>2
<1> QED BY <1>1, IInvHolds, UnreadListsStayEmpty, PTL

=============================================================================
