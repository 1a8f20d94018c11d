----------------------------- MODULE RevmSimulator -----------------------------
(***************************************************************************)
(* adapters/revm_simulation_adapter.rs: a liquidation is run on a snapshot *)
(* of the chain at the block asked, or at the node's latest for 0.  The    *)
(* pipeline's tasks share the snapshots already built, and the accounts    *)
(* read for them.  What the accounts hold is left out, and the EVM is a    *)
(* library: a run gives any outcome.  The chain only grows here, and the   *)
(* node that answers is a block behind it at most.                         *)
(***************************************************************************)
EXTENDS Integers, FiniteSets

CONSTANTS
  Simulations, \* tasks that simulate
  Accounts,    \* contracts, assets and borrowers warmed up
  Spacing,     \* blocks between two scans
  MaxHead      \* bound: the chain's last block

Heights == 1 .. MaxHead

(* Three in the code.  At one, neighbouring payloads are kept together. *)
ASSUME SimAssumption ==
  MaxHead \in Nat \ {0} /\ Spacing \in Nat \ 0 .. 1 /\ IsFiniteSet(Simulations)

VARIABLES
  head,      \* the chain's last block
  payload,   \* the block of the payload taken last from the pipeline's channel
  snapshots, \* snapshot_cache: the blocks it has a snapshot of
  codeCache, \* code_cache: the accounts it has
  sim        \* the call of each task

simVars == <<head, payload, snapshots, codeCache, sim>>

(* A call: where it is, and the block of the snapshot it builds or holds. *)
Sims == [at : {"idle", "resolve", "header", "warm", "populate", "run"}, block : 0 .. MaxHead]

NoSim == [at |-> "idle", block |-> 0]

SimInit ==
  /\ head = 1
  /\ payload = 1
  /\ snapshots = {}
  /\ codeCache = {}
  /\ sim = [t \in Simulations |-> NoSim]

GrowHead ==
  /\ head < MaxHead
  /\ head' = head + 1
  /\ UNCHANGED <<payload, snapshots, codeCache, sim>>

MoveSim(t, place, b) == sim' = [sim EXCEPT ![t] = [at |-> place, block |-> b]]

(* build_snapshot, once the block is known: the cached snapshot or a new one *)
LookUp(t, b) == MoveSim(t, IF b \in snapshots THEN "run" ELSE "header", b)

(***************************************************************************)
(* simulate_job: at the block of the scan that found the payload.  The     *)
(* channel gives payloads in the order of their scans.                     *)
(***************************************************************************)
SimulateScanned(t) ==
  /\ sim[t].at = "idle"
  /\ payload' \in {payload} \cup payload + Spacing .. head
  /\ LookUp(t, payload')
  /\ UNCHANGED <<head, snapshots, codeCache>>

(* try_revalidate_and_simulate: at the latest block.  (A job that repays  *)
(* with what it seizes is refused, here and above, before anything else.) *)
SimulateLatest(t) ==
  /\ sim[t].at = "idle"
  /\ MoveSim(t, "resolve", 0)
  /\ UNCHANGED <<head, payload, snapshots, codeCache>>

(* What the node takes for its latest block. *)
Latest == {head - 1, head} \cap Heights

ResolveLatest(t) ==
  /\ sim[t].at = "resolve"
  /\ \E b \in Latest : LookUp(t, b)
  /\ UNCHANGED <<head, payload, snapshots, codeCache>>

(* The header and the keeper's nonce are there; accounts the cache does *)
(* not have are asked for. *)
FetchHeader(t) ==
  /\ sim[t].at = "header"
  /\ MoveSim(t, IF Accounts \subseteq codeCache THEN "populate" ELSE "warm", sim[t].block)
  /\ UNCHANGED <<head, payload, snapshots, codeCache>>

(* Those that answer are cached, by address alone; a failure is passed over. *)
WarmUp(t) ==
  /\ sim[t].at = "warm"
  /\ \E got \in SUBSET Accounts : codeCache' = codeCache \cup got
  /\ MoveSim(t, "populate", sim[t].block)
  /\ UNCHANGED <<head, payload, snapshots>>

(* Mutant: nothing is pruned. *)
RetainAll(b) == snapshots

(* The snapshots retained when that of b is inserted. *)
Retained(b) == {h \in snapshots : h >= b - 1}

InsertSnapshot(t) ==
  /\ sim[t].at = "populate"
  /\ snapshots' = Retained(sim[t].block) \cup {sim[t].block}
  /\ MoveSim(t, "run", sim[t].block)
  /\ UNCHANGED <<head, payload, codeCache>>

(* A failed call, or the two seconds a snapshot may take are over. *)
SnapshotFails(t) ==
  /\ sim[t].at \in {"resolve", "header", "warm", "populate"}
  /\ sim' = [sim EXCEPT ![t] = NoSim]
  /\ UNCHANGED <<head, payload, snapshots, codeCache>>

(* The run's gas, or an error for a revert, a halt or a failed read. *)
RunSimulation(t) ==
  /\ sim[t].at = "run"
  /\ sim' = [sim EXCEPT ![t] = NoSim]
  /\ UNCHANGED <<head, payload, snapshots, codeCache>>

SimStep(t) ==
  \/ SimulateScanned(t)
  \/ SimulateLatest(t)
  \/ ResolveLatest(t)
  \/ FetchHeader(t)
  \/ WarmUp(t)
  \/ InsertSnapshot(t)
  \/ SnapshotFails(t)
  \/ RunSimulation(t)

SimNext == GrowHead \/ \E t \in Simulations : SimStep(t)

SimSpec == SimInit /\ [][SimNext]_simVars

-----------------------------------------------------------------------------
SimTypeOK ==
  /\ head \in Heights /\ payload \in Heights
  /\ snapshots \subseteq Heights
  /\ codeCache \subseteq Accounts
  /\ sim \in [Simulations -> Sims]

(***************************************************************************)
(* "Prune older cached snapshots to keep memory footprint bounded"         *)
(* (revm_simulation_adapter.rs:108).  A snapshot is pruned only by the     *)
(* insertion of a later block, and tasks behind the head put older ones    *)
(* back; still, besides the head's two and the payloads' one the cache     *)
(* never holds more than two for each other task: the latest block of a    *)
(* slow refresh, and the payload it simulates next.  A node that falls     *)
(* farther behind from one answer to the next would have more kept.        *)
(***************************************************************************)
SnapshotsBounded == Cardinality(snapshots) <= 2 * Cardinality(Simulations) + 1

=============================================================================
