------------------------------ MODULE WatchList ------------------------------
(***************************************************************************)
(* A protocol's watch list: the DashMap that the readers scan and the sled *)
(* tree it is persisted to (watchlists/aave_watchlist.rs and               *)
(* morpho_watchlist.rs, which do the same but for their snapshot).         *)
(*                                                                         *)
(* add and remove change the map, copy the borrower's row, and await its   *)
(* write on a thread of the blocking pool.  Several removals may be under  *)
(* way at once; each is a job of the pair it is about.                     *)
(***************************************************************************)
EXTENDS Naturals, FiniteSets

CONSTANTS
  Borrowers,
  Assets,         \* reserves or markets
  MaxSledFailures \* bound: how many writes to sled fail

ASSUME WatchListAssumption ==
  /\ IsFiniteSet(Borrowers) /\ IsFiniteSet(Assets)
  /\ MaxSledFailures \in Nat

VARIABLES
  cache,       \* the pairs tracked in memory
  rows,        \* the pairs in the sled tree
  job,         \* where the job of each pair is
  row,         \* the copy of its borrower's row a job is to write
  sledFailures \* writes that failed

listVars == <<cache, rows, job, row, sledFailures>>

Pairs == Borrowers \X Assets

RowOf(set, e) == {f \in set : f[1] = e[1]}

(***************************************************************************)
(* A job waits for its turn in a prune, asks the node for the debt, knows  *)
(* the debt is cleared, or writes a row.                                   *)
(***************************************************************************)
Stages == {"none", "waiting", "check", "clear", "write"}

Active == {e \in Pairs : job[e] \in {"check", "clear", "write"}}

NoJobs == \A e \in Pairs : job[e] = "none"

SetJob(e, stage) == job' = [job EXCEPT ![e] = stage]

ListInit ==
  /\ cache \in SUBSET Pairs
  /\ rows = cache
  /\ job = [e \in Pairs |-> "none"]
  /\ row = [e \in Pairs |-> {}]
  /\ sledFailures = 0

-----------------------------------------------------------------------------
(* persist, up to the await of the write *)
Persist(e) ==
  /\ SetJob(e, "write")
  /\ row' = [row EXCEPT ![e] = RowOf(cache', e)]
  /\ UNCHANGED <<rows, sledFailures>>

(* Mutant: a pair that joins a borrower already tracked is not persisted. *)
AddNewBorrowersOnly(e) ==
  /\ cache' = cache \cup {e}
  /\ IF RowOf(cache, e) = {}
       THEN Persist(e)
       ELSE UNCHANGED <<job, row, rows, sledFailures>>

(* add: a pair already tracked is not persisted again. *)
Add(e) ==
  /\ cache' = cache \cup {e}
  /\ IF e \in cache
       THEN UNCHANGED <<job, row, rows, sledFailures>>
       ELSE Persist(e)

(* Mutant: drops the borrower's whole row. *)
RemoveBorrower(e) ==
  /\ job[e] = "clear"
  /\ cache' = cache \ RowOf(cache, e)
  /\ Persist(e)

(* remove: a pair not tracked is left alone. *)
Remove(e) ==
  /\ job[e] = "clear"
  /\ cache' = cache \ {e}
  /\ IF e \in cache
       THEN Persist(e)
       ELSE SetJob(e, "none") /\ UNCHANGED <<row, rows, sledFailures>>

(* Mutant: an empty row is not written. *)
WriteRowUnlessEmpty(e) ==
  /\ job[e] = "write"
  /\ rows' = IF row[e] = {} THEN rows ELSE (rows \ RowOf(rows, e)) \cup row[e]
  /\ row' = [row EXCEPT ![e] = {}]
  /\ SetJob(e, "none")
  /\ UNCHANGED <<cache, sledFailures>>

(* The blocking task; an empty row is removed from the tree. *)
WriteRow(e) ==
  /\ job[e] = "write"
  /\ rows' = (rows \ RowOf(rows, e)) \cup row[e]
  /\ row' = [row EXCEPT ![e] = {}]
  /\ SetJob(e, "none")
  /\ UNCHANGED <<cache, sledFailures>>

WriteFails(e) ==
  /\ job[e] = "write"
  /\ sledFailures < MaxSledFailures
  /\ sledFailures' = sledFailures + 1
  /\ row' = [row EXCEPT ![e] = {}]
  /\ SetJob(e, "none")
  /\ UNCHANGED <<cache, rows>>

ListTypeOK ==
  /\ cache \subseteq Pairs
  /\ rows \subseteq Pairs
  /\ job \in [Pairs -> Stages]
  /\ row \in [Pairs -> SUBSET Pairs]
  /\ sledFailures \in 0 .. MaxSledFailures

=============================================================================
