------------------------------ MODULE Bootstrap ------------------------------
(***************************************************************************)
(* How the watch lists are filled before the bot starts: the run methods   *)
(* of adapters/aave_bootstrap_adapter.rs and morpho_bootstrap_adapter.rs,  *)
(* the last block they keep in watchlists/bootstrap_state.rs, and the      *)
(* executor that runs both and lets the engine start.                      *)
(*                                                                         *)
(* The process may be killed at any point.  sled recovers a prefix of what *)
(* was written to it, over all its trees: disk is what the process wrote,  *)
(* durable what a restart would find.  The chain may replace its last      *)
(* MaxDepth blocks at any point.                                           *)
(***************************************************************************)
EXTENDS Integers, FiniteSets

CONSTANTS
  Protocols,   \* the protocols bootstrapped, among "aave" and "morpho"
  Pairs,       \* pairs of a borrower and a whitelisted reserve or market
  DeployBlock, \* deploy_block, the same for all here
  Overlap,     \* 20: how far before the saved block a run starts
  Batch,       \* batch_size
  MaxAttempts, \* 5: attempts at one batch
  MaxBlock,    \* bound: the chain grows up to this block
  MaxDepth,    \* how many of the last blocks the chain may replace
  MaxReorgs,   \* bound: how often it does
  MaxCrashes,  \* bound: how often the process is killed or gives up
  None         \* "no block saved yet"

Blocks == 0 .. MaxBlock

ASSUME BootstrapAssumption ==
  /\ Protocols \subseteq {"aave", "morpho"}
  /\ DeployBlock \in Nat /\ MaxBlock \in Nat /\ MaxDepth \in Nat
  /\ Overlap \in Nat /\ Batch \in Nat
  /\ MaxAttempts \in Nat \ {0} /\ MaxReorgs \in Nat /\ MaxCrashes \in Nat
  /\ None \notin Int

(***************************************************************************)
(* A reorganisation is no deeper than the overlap makes up for.            *)
(***************************************************************************)
ASSUME DepthAssumption == MaxDepth <= Overlap + 1

VARIABLES
  tip,      \* number of the chain's head
  events,   \* the pairs named by the events of each block
  reorgs,   \* reorganisations so far
  crashes,  \* restarts so far
  engine,   \* "boot" or "running"
  phase,    \* where the run of each protocol is
  start,    \* its start_block
  latest,   \* its latest_block
  attempts, \* its failed attempts at the batch
  entries,  \* the pairs of the batch still to add
  adding,   \* the pairs whose row is being written
  indexed,  \* history: the pairs it counted as added
  cache,    \* the watch list in memory
  disk,     \* the rows and the last block written to sled
  durable   \* the same, as a restart finds them

chainVars == <<tip, events, reorgs>>
runVars == <<phase, start, latest, attempts, entries, adding, indexed, cache>>
vars == <<chainVars, crashes, engine, runVars, disk, durable>>

Store == [rows : SUBSET Pairs, last : Blocks \cup {None}]

Init ==
  /\ tip = 0
  /\ events = [p \in Protocols |-> [b \in Blocks |-> {}]]
  /\ reorgs = 0
  /\ crashes = 0
  /\ engine = "boot"
  /\ phase = [p \in Protocols |-> "load"]
  /\ start = [p \in Protocols |-> 0]
  /\ latest = [p \in Protocols |-> 0]
  /\ attempts = [p \in Protocols |-> 0]
  /\ entries = [p \in Protocols |-> {}]
  /\ adding = [p \in Protocols |-> {}]
  /\ indexed = [p \in Protocols |-> {}]
  /\ cache = [p \in Protocols |-> {}]
  /\ disk = [p \in Protocols |-> [rows |-> {}, last |-> None]]
  /\ durable = disk

-----------------------------------------------------------------------------
(* The chain.  A contract has no events before it is deployed. *)
Emitted(b) == IF b < DeployBlock THEN {{}} ELSE SUBSET Pairs

NewBlock ==
  /\ tip < MaxBlock
  /\ tip' = tip + 1
  /\ events' \in {[p \in Protocols |-> [events[p] EXCEPT ![tip + 1] = es[p]]] :
                    es \in [Protocols -> Emitted(tip + 1)]}
  /\ UNCHANGED <<reorgs, crashes, engine, runVars, disk, durable>>

(* A reorganisation rewrites the events of one of the last blocks. *)
Reorg ==
  /\ reorgs < MaxReorgs
  /\ reorgs' = reorgs + 1
  /\ \E p \in Protocols, b \in Blocks :
       /\ tip - MaxDepth < b /\ b <= tip
       /\ \E es \in Emitted(b) : events' = [events EXCEPT ![p][b] = es]
  /\ UNCHANGED <<tip, crashes, engine, runVars, disk, durable>>

-----------------------------------------------------------------------------
(***************************************************************************)
(* One protocol's run.                                                     *)
(***************************************************************************)
Goto(p, place) ==
  /\ phase' = [phase EXCEPT ![p] = place]
  /\ UNCHANGED <<chainVars, crashes, engine, durable>>

(* Mutant: resumes at the block after the saved one. *)
ResumeAtNoOverlap(last) == IF last = None THEN DeployBlock ELSE last + 1

(* last_block.unwrap_or(deploy_block).saturating_sub(20) *)
ResumeAt(last) ==
  LET from == IF last = None THEN DeployBlock ELSE last
  IN  IF from < Overlap THEN 0 ELSE from - Overlap

LoadLastBlock(p) ==
  /\ phase[p] = "load"
  /\ start' = [start EXCEPT ![p] = ResumeAt(disk[p].last)]
  /\ Goto(p, "latest")
  /\ UNCHANGED <<latest, attempts, entries, adding, indexed, cache, disk>>

(***************************************************************************)
(* provider.get_block_number, asked once per run; the node may be a block  *)
(* behind.                                                                 *)
(***************************************************************************)
GetBlockNumber(p) ==
  /\ phase[p] = "latest"
  /\ \E b \in Blocks :
       /\ tip - 1 <= b /\ b <= tip
       /\ latest' = [latest EXCEPT ![p] = b]
       /\ Goto(p, IF start[p] <= b THEN "fetch" ELSE "done")
  /\ UNCHANGED <<start, attempts, entries, adding, indexed, cache, disk>>

(* current_end *)
BatchEnd(p) == IF start[p] + Batch < latest[p] THEN start[p] + Batch ELSE latest[p]

(***************************************************************************)
(* fetch_batch: the three queries return the logs of the batch, or one of  *)
(* them fails and all are tried again.                                     *)
(***************************************************************************)
FetchBatch(p) ==
  /\ phase[p] = "fetch"
  /\ entries' = [entries EXCEPT ![p] =
       UNION {events[p][b] : b \in start[p] .. BatchEnd(p)}]
  /\ attempts' = [attempts EXCEPT ![p] = 0]
  /\ Goto(p, "add")
  /\ UNCHANGED <<start, latest, adding, indexed, cache, disk>>

(* Mutant: the attempts start over instead of running out. *)
FetchFailsForever(p) ==
  /\ phase[p] = "fetch"
  /\ attempts' = [attempts EXCEPT ![p] = (@ + 1) % MaxAttempts]
  /\ Goto(p, "fetch")
  /\ UNCHANGED <<start, latest, entries, adding, indexed, cache, disk>>

FetchFails(p) ==
  /\ phase[p] = "fetch"
  /\ attempts' = [attempts EXCEPT ![p] = @ + 1]
  /\ Goto(p, IF attempts[p] + 1 >= MaxAttempts THEN "failed" ELSE "fetch")
  /\ UNCHANGED <<start, latest, entries, adding, indexed, cache, disk>>

(***************************************************************************)
(* The identities are text.  Both adapters write the borrower first;       *)
(* TrackerIdentity::from_str reads an Aave identity as two addresses and a *)
(* Morpho one as a 32-byte market followed by an address, and refuses a    *)
(* field of another width.                                                 *)
(***************************************************************************)
AssetWidth(p) == IF p = "morpho" THEN 32 ELSE 20

WrittenWidths(p) == <<20, AssetWidth(p)>>

ReadWidths(p) == IF p = "morpho" THEN <<32, 20>> ELSE <<20, 20>>

Parses(p) == WrittenWidths(p) = ReadWidths(p)

(***************************************************************************)
(* contains_identity, and add up to the await in persist.  An identity     *)
(* that does not parse is not contained, and adding it does nothing and    *)
(* succeeds.                                                               *)
(***************************************************************************)
Contained(p, e) == Parses(p) /\ e \in cache[p]

AddEntry(p) ==
  /\ phase[p] = "add"
  /\ \E e \in entries[p] :
       /\ entries' = [entries EXCEPT ![p] = @ \ {e}]
       /\ \/ /\ Contained(p, e)
             /\ Goto(p, "add")
             /\ UNCHANGED <<adding, indexed, cache>>
          \/ /\ ~Contained(p, e)
             /\ Parses(p)
             /\ cache' = [cache EXCEPT ![p] = @ \cup {e}]
             /\ adding' = [adding EXCEPT ![p] = {e}]
             /\ indexed' = [indexed EXCEPT ![p] = @ \cup {e}]
             /\ Goto(p, "persist")
          \/ /\ ~Contained(p, e)
             /\ ~Parses(p)
             /\ indexed' = [indexed EXCEPT ![p] = @ \cup {e}]
             /\ Goto(p, "add")
             /\ UNCHANGED <<adding, cache>>
  /\ UNCHANGED <<start, latest, attempts, disk>>

(* persist: the borrower's row, as the cache now has it *)
PersistRow(p) ==
  /\ phase[p] = "persist"
  /\ disk' = [disk EXCEPT ![p].rows = @ \cup adding[p]]
  /\ adding' = [adding EXCEPT ![p] = {}]
  /\ Goto(p, "add")
  /\ UNCHANGED <<start, latest, attempts, entries, indexed, cache>>

(* Mutant: the last block is saved while entries are left to add. *)
SaveLastBlockEarly(p) ==
  /\ phase[p] = "add"
  /\ disk' = [disk EXCEPT ![p].last = BatchEnd(p)]
  /\ start' = [start EXCEPT ![p] = BatchEnd(p) + 1]
  /\ Goto(p, IF BatchEnd(p) + 1 <= latest[p] THEN "fetch" ELSE "done")
  /\ UNCHANGED <<latest, attempts, entries, adding, indexed, cache>>

(* save_last_block, and the next turn of the loop *)
SaveLastBlock(p) ==
  /\ phase[p] = "add"
  /\ entries[p] = {}
  /\ disk' = [disk EXCEPT ![p].last = BatchEnd(p)]
  /\ start' = [start EXCEPT ![p] = BatchEnd(p) + 1]
  /\ Goto(p, IF BatchEnd(p) + 1 <= latest[p] THEN "fetch" ELSE "done")
  /\ UNCHANGED <<latest, attempts, entries, adding, indexed, cache>>

(* Every other call is tried once; its error ends the run. *)
CallFails(p) ==
  /\ \/ phase[p] \in {"load", "latest", "persist"}
     \/ phase[p] = "add" /\ entries[p] = {}
  /\ Goto(p, "failed")
  /\ UNCHANGED <<start, latest, attempts, entries, adding, indexed, cache, disk>>

RunStep(p) ==
  \/ LoadLastBlock(p)
  \/ GetBlockNumber(p)
  \/ FetchBatch(p)
  \/ FetchFails(p)
  \/ AddEntry(p)
  \/ PersistRow(p)
  \/ SaveLastBlock(p)
  \/ CallFails(p)

-----------------------------------------------------------------------------
(***************************************************************************)
(* BootstrapExecutor::run_all: waits for every run, then fails if one did. *)
(***************************************************************************)
Joined == \A p \in Protocols : phase[p] \in {"done", "failed"}

StartEngine ==
  /\ engine = "boot"
  /\ Joined
  /\ \A p \in Protocols : phase[p] = "done"
  /\ engine' = "running"
  /\ UNCHANGED <<chainVars, crashes, runVars, disk, durable>>

(* sled's background flush *)
Flush ==
  /\ durable' = disk
  /\ UNCHANGED <<chainVars, crashes, engine, runVars, disk>>

(* A new process: the watch lists are loaded from what sled recovers. *)
Boot(found) ==
  /\ crashes < MaxCrashes
  /\ crashes' = crashes + 1
  /\ engine' = "boot"
  /\ disk' = found
  /\ durable' = found
  /\ cache' = [p \in Protocols |-> found[p].rows]
  /\ phase' = [p \in Protocols |-> "load"]
  /\ entries' = [p \in Protocols |-> {}]
  /\ adding' = [p \in Protocols |-> {}]
  /\ indexed' = [p \in Protocols |-> {}]
  /\ attempts' = [p \in Protocols |-> 0]
  /\ UNCHANGED <<chainVars, start, latest>>

Crash == Boot(durable)

(* The error leaves main: sled is closed cleanly, the process restarted. *)
GiveUp ==
  /\ engine = "boot"
  /\ Joined
  /\ \E p \in Protocols : phase[p] = "failed"
  /\ Boot(disk)

Next ==
  \/ NewBlock
  \/ Reorg
  \/ \E p \in Protocols : RunStep(p)
  \/ StartEngine
  \/ Flush
  \/ Crash
  \/ GiveUp

Spec == Init /\ [][Next]_vars

(***************************************************************************)
(* A run is a tokio task whose calls return or fail.  Nothing makes the    *)
(* chain grow or the process crash.                                        *)
(***************************************************************************)
FairSpec ==
  /\ Spec
  /\ WF_vars(StartEngine)
  /\ \A p \in Protocols : WF_vars(RunStep(p))

-----------------------------------------------------------------------------
TypeOK ==
  /\ tip \in Blocks
  /\ events \in [Protocols -> [Blocks -> SUBSET Pairs]]
  /\ reorgs \in 0 .. MaxReorgs
  /\ crashes \in 0 .. MaxCrashes
  /\ engine \in {"boot", "running"}
  /\ phase \in [Protocols ->
       {"load", "latest", "fetch", "add", "persist", "done", "failed"}]
  /\ start \in [Protocols -> Nat]
  /\ latest \in [Protocols -> Blocks]
  /\ attempts \in [Protocols -> 0 .. MaxAttempts]
  /\ entries \in [Protocols -> SUBSET Pairs]
  /\ adding \in [Protocols -> SUBSET Pairs]
  /\ indexed \in [Protocols -> SUBSET Pairs]
  /\ cache \in [Protocols -> SUBSET Pairs]
  /\ disk \in [Protocols -> Store]
  /\ durable \in [Protocols -> Store]

Tracked == {p \in Protocols : Parses(p)}

(***************************************************************************)
(* When the engine starts, the watch list of every protocol whose          *)
(* identities parse names every pair of every settled block up to the      *)
(* block its run ended at, whatever was lost or replaced on the way.       *)
(***************************************************************************)
Complete ==
  engine = "running" =>
    \A p \in Tracked, b \in Blocks :
      b <= latest[p] - MaxDepth => events[p][b] \subseteq cache[p]

(***************************************************************************)
(* A store's last block is never ahead of its rows: a run that starts from *)
(* it, reading again from Overlap blocks before, misses nothing.           *)
(***************************************************************************)
Covered(store) ==
  \A p \in Tracked : store[p].last # None =>
    \A b \in Blocks :
      b < store[p].last - Overlap => events[p][b] \subseteq store[p].rows

(* What a crash leaves can be resumed from, and so can what was written. *)
ResumesSafely == Covered(durable) /\ Covered(disk)

(***************************************************************************)
(* The inductive invariant behind both.  Blocks below Known(p) have been   *)
(* read by this run or by the runs before it; what was read is in the      *)
(* cache or among the entries, and the tree lacks only what is being       *)
(* added.                                                                  *)
(***************************************************************************)
Known(p) == IF phase[p] \in {"add", "persist"} THEN BatchEnd(p) + 1 ELSE start[p]

BoundsOK(p) ==
  /\ latest[p] <= tip
  /\ phase[p] # "failed" => attempts[p] < MaxAttempts
  /\ phase[p] = "latest" => start[p] = ResumeAt(disk[p].last)
  /\ phase[p] \in {"fetch", "add", "persist"} => start[p] <= latest[p]
  /\ phase[p] = "done" => start[p] > latest[p]

ReadOK(p) ==
  phase[p] \in {"fetch", "add", "persist", "done"} =>
    \A b \in Blocks :
      b < Known(p) /\ b <= latest[p] - MaxDepth =>
        events[p][b] \subseteq cache[p] \cup entries[p]

CacheOK(p) ==
  /\ phase[p] \notin {"add", "persist", "failed"} => entries[p] = {}
  /\ phase[p] \notin {"persist", "failed"} => adding[p] = {}
  /\ phase[p] # "failed" => cache[p] \subseteq disk[p].rows \cup adding[p]
  /\ disk[p].rows \subseteq cache[p]
  /\ adding[p] \subseteq cache[p]

StoreOK(store) ==
  \A p \in Protocols : store[p].last # None => store[p].last <= tip

ChainOK ==
  \A p \in Protocols, b \in Blocks : b < DeployBlock => events[p][b] = {}

IInv ==
  /\ TypeOK
  /\ ChainOK
  /\ ResumesSafely
  /\ StoreOK(disk) /\ StoreOK(durable)
  /\ \A p \in Protocols : BoundsOK(p)
  /\ \A p \in Tracked : ReadOK(p) /\ CacheOK(p)
  /\ engine = "running" => \A p \in Protocols : phase[p] = "done"

(***************************************************************************)
(* Every run comes to an end, in success or in failure, however fast the   *)
(* chain grows and whatever the node answers.                              *)
(***************************************************************************)
RunsEnd ==
  \A p \in Protocols : phase[p] = "load" ~> phase[p] \in {"done", "failed"}

(***************************************************************************)
(* "Successfully indexed {} new Morpho positions"                          *)
(* (morpho_bootstrap_adapter.rs:165): the pairs counted as added are in    *)
(* the watch list.                                                         *)
(***************************************************************************)
IndexedIsTracked == \A p \in Protocols : indexed[p] \subseteq cache[p]

=============================================================================
