# A formal model of Liq-Ranger

Liq-Ranger watches the borrowers of Aave V3 and Morpho Blue on Polygon and liquidates
the unhealthy ones through a flash-loan contract. This directory models its control in
TLA+: what its tasks do at each `.await`, what can come between, and what must hold
whatever the node, the chain, the disk and the scheduler do. Paths below are relative to
the crate (`src/src/` in `PROJECT.json`).

## 1. Inventory

### Parts and how they interact

`lib.rs` wires everything: a `watch` channel for the shutdown, a `broadcast<u64>(64)` for
block numbers, two `mpsc(64)` for prune commands, an `mpsc(200)` for liquidation payloads.
It opens sled, runs both bootstraps to their end, spawns the tasks, starts the block
watcher last, waits for Ctrl-C, and joins the registered tasks.

```
 node --headers--> block watcher --broadcast--> scanner --mpsc(200)--> pipeline --> contract
                                  \-----------> pruner --mpsc(64)--> Aave / Morpho updaters
 node --logs--> bootstraps --add--> watch lists <--add/remove-- updaters <--events-- node
                                        |  (read by the readers the scanner asks)
                                      sled
 cron --Sundays--> distributor --refuel, pay out--> contract --logs--> extractor --> SQLite
                        ^------------------ (assets of the rows) ----------------------|
```

| part | state | operations | hard behaviour | what makes it correct |
|---|---|---|---|---|
| liquidation pipeline (`core/services/liquidation_engine.rs`) | semaphore, job of each task | take, spawn, validate, quote, simulate, refresh, re-quote, re-simulate, broadcast | ten tasks interleave at awaits; the position moves between scan and broadcast; shutdown while waiting for a permit | only what was simulated last is sent; it is what the refresh reported; it pays; permits and payloads are conserved; every payload ends, by itself or cut off with the process |
| protocol scanner (`core/services/protocol_scanner.rs`) | last block, `JoinSet` | receive, lag fallback, start a scan, join, push, stop | select of racing arms, broadcast lag, reorganisations, a full channel | scans do not overlap, are spaced, start from recent blocks, end |
| block watcher (`block_watcher.rs`) | subscription | subscribe, forward, reconnect, stop | the stream ends at any time | readers survive it; the shutdown is seen |
| watch lists (`watchlists/*_watchlist.rs`) | `DashMap` and sled tree | load, add, remove, persist, snapshot | the write follows the map change after an await, on another thread | tree and map agree when nothing is under way |
| updaters (`watchlists/watchlist_updaters/`) | watch list, streams, commands | borrow, repay, liquidation, prune | answers old when acted upon, three unordered streams, four jobs at once, errors that end the task | no debtor is lost; no cleared pair stays for ever |
| bootstraps and executor (`adapters/*_bootstrap_adapter.rs`, `watchlists/bootstrap_state.rs`, `core/services/bootstrap_executor.rs`) | start block, attempts, rows, last block | load, query, add, persist, save, retry, join | crash, lost writes, reorganisations, retries | the saved block is never ahead of the rows; the engine starts with complete lists |
| tracker identities (`core/types.rs`) | none | write, parse | written in one file, read in another | what is written parses |
| pruner (`watchlist_pruner.rs`) | cursor in the block channel, senders it spawned | receive, skip, send to both | lag; a sender waits for a full channel, or for an updater that is gone | its end closes the command channels, so it outlives everything but the shutdown; prunes due reach both updaters |
| registry, start-up, shutdown (`common/task_manager.rs`, `common/mod.rs`, `lib.rs`) | task handles | register, signal, join | joins in a fixed order of tasks that depend on each other's channels | after Ctrl-C the process ends |
| Morpho reader (`adapters/morpho_protocol_adapter.rs`) and its arithmetic (`adapters/helpers/morpho_math_helpers.rs`) | none | evaluate, refresh, size a liquidation | answers of different blocks, roundings both ways, a zero price | Morpho can execute what is sized; the flash loan covers it but for one unit; nothing worth seizing is passed over |
| Aave reader (`adapters/aave_protocol_adapter.rs`) and its arithmetic (`adapters/helpers/aave_math_helpers.rs`) | none | find candidates, refresh, size a liquidation, select a collateral | answers of different blocks, decimals and rounding, calls that fail for one collateral | Aave can execute what is sized; the best of the collaterals that answered is seized |
| route finder (`adapters/uniswap_v3_adapter.rs`) | route cache | quote by the known route, or by the best of all | entries expire, are evicted or replaced while tasks use them; colliding buckets | no route is older than its time to live; a dry one hides no other |
| simulator (`adapters/revm_simulation_adapter.rs`, `simulation/`) | snapshot cache, accounts cached | build a snapshot, run | tasks at different blocks insert and prune in any order | the cache stays small |
| liquidator adapter (`adapters/flash_liquidator_adapter.rs`) | none of its own (nonces are the library's) | send, poll | concurrent sends | one nonce each, no gap |
| profit distributor (`profit_distributor.rs`) | `running` flag | refuel, discover, distribute | overlapping runs, an error between two assets, transactions that revert, vanish or outlive the run | what is sent is covered; WPOL only buys gas; profits and gas are settled some Sunday |
| data extractor (`liq_data_extractor.rs`, `db.rs`, records of `common/mod.rs`) | SQLite | subscribe, record | events delivered twice, errors, restarts | a transaction is recorded once |

Not part of the running program: `core/watchlist_updater.rs` (in no `mod`),
`adapters/paraswap_adapter.rs` and `adapters/anvil_simulation_sandbox.rs` (compiled, never
constructed). The repository's README still names Anvil, ParaSwap and Compound; the
code was followed.

`PROJECT.json` lists the hazards at their lines, with the properties that cover them or
the reason why none does yet.

## 2. Modules

| module | models | composed of |
|---|---|---|
| `LiquidationEngine` | the pipeline's loop and tasks | |
| `LiquidationDispatch` | abstract: what the pipeline promises of each payload | implemented by `LiquidationEngine` |
| `BlockFeed` | chain head, subscription, block watcher, broadcast channel | |
| `ProtocolScanner` | scanner and scan tasks | extends `BlockFeed` |
| `Bootstrap` | both bootstrap runs, saved block, sled across crashes, executor | |
| `WatchList` | map, tree and deferred writes | |
| `DebtEvents` | external: who owes, and the event streams | extends `WatchList` |
| `AaveWatchListUpdater`, `MorphoWatchListUpdater` | the updaters | extend `DebtEvents` |
| `MorphoReader` | one evaluation of a Morpho position and the fixed-point arithmetic under it | |
| `AaveReader` | one evaluation of an Aave borrower and its arithmetic | |
| `RouteFinder` | the route cache and the calls of the tasks that share it | |
| `RevmSimulator` | the snapshot cache and the calls of the tasks that share it | |
| `Lifecycle` | start-up, pruner, command channels, registry, shutdown | extends `BlockFeed` |
| `FlashLiquidator` | external: the contract, the wallet, the pool of transactions, the logs | |
| `LiqDataExtractor` | the extractor and the two tables | extends `FlashLiquidator` |
| `ProfitDistributor` | the weekly job and its runs, shutdown and restart | extends `LiqDataExtractor` |
| `MC*` | instances for TLC: small sets | extend the module they name; `MCComponents` those without shared state: both readers, `RouteFinder`, `RevmSimulator`, `Lifecycle` |
| `*_proofs` | theorems | extend the module they name and `TLAPS`; `Components_proofs` is about those of `MCComponents`, `DebtEvents_proofs` holds what the two updaters' proofs share |

Operators named `...` with a comment that starts with *Mutant* are changed copies of the
definition below them, which break one property each; nothing else uses them.

### LiquidationEngine
A payload is a model value; `pc[p]` is where it is, from the channel (`queued`) through the
loop's hands (`taken`) and the awaits of `process_payload` to one of the ends. A profile is
reduced to the debt to cover, the seize amount, the collateral asset and one value for the
pair of repaid shares and seized assets; a swap is what it sells. The DEX, the simulator,
the reader and the contract answer anything their traits allow, or an error. `refreshed`,
`simulated` and `sent` are history; a task that returns without a broadcast forgets its job.
Payloads are numbered in the order the scanner sends them. One action is one stretch of code
between two awaits.

The loop and the evaluations are registered nowhere (`common/mod.rs:263` registers the task that
starts the loop), so `main` may return while they run, and the runtime's drop cancels them at
whatever they await: `CancelLoop` and `CancelTask`, at any time after the signal. A task cut off
at the broadcast may or may not have sent. Nothing is promised of evaluations after the shutdown but that
they end, one way or the other.

### BlockFeed and ProtocolScanner
The broadcast channel is the sequence of all numbers sent; a receiver is a cursor that is
*lagged* when more than the capacity behind. A head may be replaced by a header with a
number no higher. The HTTP node may be a block behind the subscription. `tracker` is the
`JoinSet`: finished scans stay in it until the select joins them. `work` is the progress of
each reader of a scan. The pipeline is the channel's other end.

### Bootstrap
`disk` is what was written to sled, `durable` a prefix of it that a crash leaves (`Flush`
moves it up at any time). The chain's blocks carry the pairs their events name; the last
`MaxDepth` may be rewritten. A run is split at its awaits; the batch's entries are added
one at a time, map first and row later, then the last block is saved. `Parses` compares the
field widths an adapter writes with those `from_str` reads. An error ends the run, the
executor joins both, and the process is restarted by its supervisor (`GiveUp`).

### WatchList, DebtEvents and the updaters
A `job` of a pair is a call in flight: `waiting` in a prune, at its debt `check`, `clear`
once the node said there is none, `write` while a copy of the borrower's row (`row`) is
with the blocking pool. In a prune up to `Concurrency` jobs are under way; in an event's
handler one. `missed` records borrows no stream of the updater carried (it was not yet
subscribed, the stream had ended, or the updater had stopped).

### MorphoReader
Every `checked_mul`/`checked_div` helper is an operator with the code's rounding; scales
and bounds are constants, so that TLC takes small ones and the proofs any. A call is at
one of its awaits (`at`), and each answer, of the position, the market or the price, is any
at all. `Accepted` and `Pulled` say what Morpho makes of the profile, by the roundings the
comments of `morpho_math_helpers.rs` give; whether the *contract* copes with a flash loan
one unit short is not decided by this repository. Interest that accrues between the reading
of the market and the pull is outside `FlashShortByOne`.

### AaveReader
Each call of `evaluate_borrower` is an action; the collaterals are appraised one by one, in
any order, because `join_all` runs them concurrently and they share nothing. A call that
fails, a bonus outside its bounds and a price of zero lose one collateral (`Appraise` that
leaves `offers` alone). The price of a collateral is asked for twice, and the answers may
differ (`price`, `again`).

### RouteFinder
`routeCache` is the moka cache: `Tick` ages its entries, `Evict` is its capacity, and both are
the library's. `CacheKey::new` is translated with its arithmetic (`Bits`, `Magnitude`,
`Digit`). An action of `QuoteStep` is one await of a task; pools are reduced to the set of
routes that give anything (`liquid`), which changes at any time. In a call, `entry` is the
entry gone by, `seen` and `erred` are history.

### RevmSimulator
`snapshots` and `codeCache` are the two maps, of blocks and of accounts. A task simulates at
the block of its payload, which the channel gives in the order of the scans, or at the
node's latest, which may be a block behind the head. `Retained` is the pruning done with an
insertion. The head only grows here: a node that falls back farther, or a reorganisation, would let a task put
more old snapshots back than `SnapshotsBounded` allows, until a later insertion prunes them.

### Lifecycle
The tasks are those of `lib.rs`, in its order. The watcher and the pruner are whole; the
updaters take commands and end (their modules show when); of the other tasks only the join
is left. The pipeline's handle is done as soon as it is started, because `start_pipeline`
spawns a task of its own that the registry never sees: `ShutdownCompletes` says that `main`
returns, not that evaluations under way are finished (`LiquidationEngine` cuts them off). The
joins of the scanner, the distributor and the extractor (`task_manager.rs:21-26`) are taken
as instantaneous: that the scanner ends is `ShutdownStops` of the run `scanner`; of the other two no
module shows it, each breaks out of its own `select!` and waits for no other task. `senders[u]` counts the tasks spawned
for a prune that wait to send to `u`; a command sent to an ended updater is lost.

### FlashLiquidator, LiqDataExtractor and ProfitDistributor
`accumulated` is the contract's book, `pending` the distributor's transactions in the pool
(`slot` is the run that waits for one, 0 when none does any more), `receipts` what was mined
for a run. `mined` numbers the logged transactions, `feed` is what the extractor has yet to
read. A run (`stage`) is split at its awaits; `Errs` is every way an `?` can end it. Two
slots let a second run exist should the flag fail to keep it out. `Restart` covers both a
crash and an orderly stop followed by a start.

Transactions cost gas: `Fee` is what the wallet must hold for one and the most it costs. The node refuses
a transaction the wallet cannot pay for (`Affordable`), and the error ends the run, at the
refuel too: `ensure_gas_balance()?` comes first, so a wallet that has fallen below the fee with
WPOL waiting for it is stuck, and no Sunday pays anything out. The threshold (10 POL, refilled
to 100) is there so that it does not come to that. What is promised excuses such a wallet:
`GasRestored` says that one below the threshold which can still pay does not stay there while
the contract has the WPOL to top it up.

## 3. Runs

The run `components` has a variable `part` that picks, in the initial state, the one component
that moves, and `TypesOK` for their types. The types of the other modules are proved (section 4).
All runs use small sets of model values; every bound is a constant of its module. Deadlock
is not checked: every behaviour may end (payloads, blocks or events run out, the bot is
stopped).

| run | shows | instance |
|---|---|---|
| `engine` | data: `SentWasSimulated`, `SentIsFresh`, `SentPays`; tasks: `PermitsConserved`, `EveryPayloadEnds`, and `Dispatch`: the refinement of `LiquidationDispatch` | three payloads, two permits, a channel of one: the loop waits for a permit and the sender for room; three profiles that differ in debt, seizure, collateral and shares, one with nothing to seize, so that a refresh may change each of them; quotes below and at either debt; the loop and the tasks may be cut off after the shutdown; fairness |
| `scanner` | `OneScan`, `StopsOnlyOnShutdown`, `ScansAreSpaced`, `ScansAreRecent`, `ScansEnd`, `ShutdownStops` | four blocks scanned every second one, a channel of one so that the scanner lags, one reorganisation, one reader with up to two candidates for a payload channel of one, fairness |
| `bootstrap` | `Complete`, `ResumesSafely`, `RunsEnd` | Aave and Morpho, one pair, three blocks in batches of one, a reorganisation of exactly the depth allowed, a crash, failed calls and give-ups, fairness |
| `morpho_updater` | `NoDebtorLost`, `TrackedOnDisk`, `StalePairsPruned`, `BorrowsTracked` | one borrower in two markets: two jobs write the same row; three events, one failed write, a borrow stream that may end, fairness |
| `aave_updater` | `NoDebtorLost`, `TreeMatchesMap`, `StaleBorrowersPruned` | one borrower with two reserves, of which a prune looks at one; three events, one failed write, fairness |
| `components`: readers | `Executable`, `FlashShortByOne`, `NothingOverlooked` (Morpho); `AaveExecutable`, `BestCollateral` (Aave) | Morpho: a one of 10, an incentive capped at 12, amounts up to 6, prices up to 8 over a scale of 3, zero included: healthy, unhealthy and under-collateralised positions, dust, and a panic. Aave: two reserves of 1 and 0 decimals, one of them not configured as debt, health factors on either side of both thresholds, odd debts, prices of zero, a bonus out of bounds |
| `components`: routes | `RoutesAreRecent`, `FailsOnlyWithoutRoutes` | two tasks, one pair, two routes, two amounts of one bucket, a time to live of two |
| `components`: simulator | `SnapshotsBounded` | two tasks, six blocks, scans three blocks apart |
| `components`: life | `ChannelsStayOpen`, `PrunesArrive`, `ShutdownCompletes` | four blocks, a block channel of one so that the pruner lags, prunes every second block, command channels of one, fairness |
| `settlement` | `Covered`, `RecordedOnce`, `WpolIsForGas`, `ProfitsPaid`, `GasRestored` | WPOL, a token and one whose symbol cannot be read, profits before the start and one more liquidation, one fault (a failed call, a revert or a lost transaction), one log delivered again, one restart; a fee of one, a threshold of two, a refill to three and a wallet that starts with one or none: it is low but can pay, is dry, or has been refilled, and refuelling is possible only just (two WPOL for two needed); fairness |

Five runs end in a violation, each of a statement made by the code about itself:

| run | statement | what the code does |
|---|---|---|
| `engine_refresh` | `RefreshHandled` (`liquidation_engine.rs:282`) | the refreshed collateral asset is quoted but not put in the job |
| `bootstrap_identity` | `IndexedIsTracked` (`morpho_bootstrap_adapter.rs:165`) | identities are written borrower first and parsed market first; `add` ignores them silently |
| `morpho_rows` | `TreeMatchesMap` (`morpho_watchlist.rs:36`) | two writes of one row overtake each other in a prune |
| `route_buckets` | `BucketsAreNarrow` (`uniswap_v3_adapter.rs:19`) | the last digit of the quotient is kept instead of the first: 600 and 6,600 share a bucket |
| `settlement_discovery` | `RecordedIsDiscovered` (`db/20260424122753_create_initial_tables.up.sql:26`) | addresses are stored abbreviated (`0x1234…abcd`) and do not parse when read back, so no asset is ever discovered from the records; those of `PROFIT_DIST_ASSETS` are settled all the same |

### Bounds
The control of each component is finite; what grows (payloads, blocks, events, crashes,
faults) is bounded. Three payloads compete for two permits and a channel of one; their data
do not meet. Constants are scaled together: intervals, batches and capacities of one to
three where the code has 3, 1,000 and 64, with enough blocks or messages to pass each of
them at least once. In `bootstrap` the overlap is the saved block itself (`Overlap = 0`)
and reorganisations are as deep as `DepthAssumption` then allows; the proof covers any
overlap and batch. In `settlement` one fault is enough to end a run anywhere, and a token of
`Broken` ends any number of them. In `components` the readers' units are small so that every
rounding bites; the proofs hold for 10^18. With `Ttl` at 2 a route can be found, used, expire
and be found again while another task still goes by the old one. Two tasks fill the
simulator's cache to the bound. In `aave_updater` one borrower is enough for the pruning of
its reserves; jobs of several borrowers at once, which TLC could not reach beside three
events, are covered by the proofs.

No run uses symmetry.

### Fairness
Tasks are polled when ready and the calls they await return or fail: weak fairness of
each task's steps. tokio's `select!` polls its arms in random order, so an arm that is
ready again and again is taken: strong fairness for arms that compete with others (join,
stop, events, prune commands). A debt check asked again and again is answered some time
(strong fairness of `CheckDebt`; without it no prune could be promised to clear anything).
Nothing is assumed of the chain, reorganisations, crashes, the end of a stream, or the
operator. In `engine` the loop and the tasks are fair until the runtime's drop cuts them off,
which is one of their steps after the shutdown: a process that is going away either polls a
task again or drops it. `SendPrune` is weakly fair: blocks keep coming.
In `components` the steps of `main`, of tasks asked to stop, of the prune commands and of the
watcher are weakly fair, and the watcher's arm for the shutdown strongly (it competes with
blocks in its `select!`); nothing makes Ctrl-C happen. Liveness properties of the
updaters excuse an updater that stopped, which an error or the shutdown causes. In
`settlement` Sundays come (`Fire`), runs go on, and what is in the pool is mined; a
`HashSet`'s order is drawn anew in each run, so an asset that may be looked at next again and
again is looked at some time (strong fairness of `NextAsset`): without it a broken token
could come first for ever. `ProfitsPaid` and `GasRestored` hold as long as the wallet can pay for a
transaction, with at most `MaxFaults` faults, and apart from gaps in the wallet's nonces,
which would hold back every transaction behind them (a hazard no module covers). A week is taken to be longer than a transaction stays in the
pool once nobody waits for it (`Sunday`).

## 4. Proofs

`tlapm` checks the following for every value of the constants allowed by the named
assumptions.

Three themes run through them. Every invariant and every action property the passing runs
check is a theorem. Of the liveness properties, which the prover cannot reach, the safety
half is one: that nothing is lost on the way and that nobody waits for ever on somebody who
waits (`NeverWedged`, `ScanCanGoOn`, `PrunesUnderWay`, `OutlivesNone`, `RunsApart`). And what one model
assumes of another is proved of the other: the table lists these interfaces.

| assumed by | of | proved as |
|---|---|---|
| `ProtocolScanner` (`inChannel`, `open`, `Pipeline`) | the pipeline | `ScannerSeesThePipeline` |
| `LiquidationEngine` (`DebtAssumption`) | both readers | `ReadersReturnDebts` |
| `WatchList` (`ListInit`: `rows = cache`) | the bootstrap | `StartsFromTheStores` |
| `Lifecycle` (a task that ended is done) | the updaters | `MorphoHandlersApart`, `AaveHandlersApart` |

**`LiquidationEngine_proofs`.** `IInv` strengthens the properties with what is known of a
payload at each place (`Progress`) and of the channel (`ChannelOK`): between the simulation
and the broadcast the job held is the simulated one, and after the refresh the job equals
either the scan's profile or the refreshed one in both amounts. Without it the broadcast
step could send a job nothing is known of. `PermitsConserved` needs cardinalities of the
set of running tasks, with one lemma for entering and one for leaving it. `ImplementsDispatch`
maps each step to a step or a stutter of the abstract specification, the cancellations by the
runtime's drop included. `LoopHolds` adds what
the loop has in hand: it waits for a permit exactly while one payload is `taken`, and what was
sent and not taken is in the channel. With `PermitsConserved` it gives `NeverWedged`: if no task runs, all
permits are free, so a payload in hand finds one. `Onward` gives each place a distance
that only grows. `ScannerSeesThePipeline` instantiates the scanner's model with
the pipeline's own queue and loop: every step of the engine is a step of the scanner's
reduced pipeline, a push, or leaves the channel alone.

**`ProtocolScanner_proofs`.** Types, then `OneScan` from the overlap guard and `last`, and
the spacing of scans and the recency of their blocks as action properties; `StopsOnlyOnShutdown` needs that the watcher
stops only after the shutdown, because the channel closes with it. `ScansAccounted`: a stopped
scanner has joined its scan, and a scan that is joined leaves no work for a later scan of the
same number after a reorganisation. `ScanCanGoOn`: a scan is waiting only for an answer, or for
room that the pipeline can make, or for the scanner to join it.

**`Bootstrap_proofs`.** `IInv` says what was read is in the map or among the entries
(`ReadOK`), the tree lacks only what is being added (`CacheOK`), and the last block of
either store is covered by its rows. `Reorg` is the step that needs `DepthAssumption`:
it can touch only blocks the overlap will read again. Blocks before the deployment carry
no events, which covers a start below them (`ChainOK`). `NothingListed` is the other side
of `Complete`: the list of a protocol whose identities do not parse stays empty, in memory
and on disk, through any number of runs, which the run `bootstrap_identity` shows for one chain.
With it `ListsMatchStores` holds for every protocol: when the engine starts no row is still
being written.

**`Components_proofs`.** For the readers, the module starts from the facts of integer division a rounding
rests on (`d * (n \div d) <= n < d * (n \div d) + d`) and derives monotonicity and the
bounds between the rounded-up and rounded-down conversions. `Executable` needs that a
seizure below the required collateral costs no more shares than the position has although
every step of Morpho's conversion rounds up; `FlashShortByOne` that the assets of a number
of shares, up and down, differ by one at most. The invariant says that at `decimals` and
`some` the profile is the one `Size` gives for what was read. Aave's invariant says the same
of what is known at each place: past the debt the loan is not nothing, every offer has a
valid bonus, a price and something to seize, and a selected asset is among the offers.
`RoutesAreRecent` and `FailsOnlyWithoutRoutes` follow from the types of the cache and the
calls.

`SnapshotsBounded` bounds the simulator's cache, which tasks at different blocks fill and
prune in any order: an insertion drops what is more than a block older, but a slow task may put an old
block back later. `Explains` accounts for every block in the cache: it is one of the two at
the highest block inserted (`top`), or one of two functions from tasks to blocks names it: `old`, the
block of a call begun before `top` went in, for every task but the one that inserted it, and
`new`, the payload such a task went on with. What a task is building now is already named, is
`top` or its neighbour below (a node a block behind), is above, or will drop the block it is named for. `SnapshotInv` carries these
witnesses through every insertion. It needs `Spacing` of two or more (the code scans every third
block): payloads of consecutive blocks do not prune each other, and TLC finds the bound violated.

For the process, `ChannelsStayOpen` needs that the pruner ends only with the shutdown or with the
watcher, and the watcher only with the shutdown (`OutliveAll`). `PrunesUnderWay` counts the prunes: as long
as Morpho's updater lives, those due are delivered or with a sender. `JoinedEnded` says that
what is joined has ended and stays so, hence `OutlivesNone`: when `main` returns, the
watcher, the pruner and both updaters are gone, in whatever order they ended. `ComponentsTypeCorrect` puts
the components side by side, as the run does.

**`DebtEvents_proofs` and the two updaters' proofs.** `NoDebtorLost` alone is not inductive: a
call that answered *no debt* (a job at `clear`) removes the pair later, when the borrower may
owe again. `Safe` says that such a pair, if it owes, has its borrow still among the events
to come, or was missed; the other handlers keep it because borrowing emits an event. For the
tree, `CopiesCover` says that a row on its way to sled has every pair still in the map
(Morpho, where two writes may overtake each other), `CopiesFresh` with `JobsApart` that it is
the map's row (Aave, where the jobs under way are of different borrowers). `UnderWay` bounds
the jobs: none between handlers and once stopped, one in an event's handler, `Concurrency` in a
prune. From it `SequentialPrunesMatch`: with a prune one job wide Morpho's tree would match
its map too, so that what the run `morpho_rows` shows comes from `Concurrency` and from
nothing else. The lemmas about events, rows and jobs are shared.

**`ProfitDistributor_proofs`.** `RunsOK` says what a run knows at each of its awaits: at most
one run exists (`OneRun`), what it is about to
send the contract still holds (`Funded`), because beside the transaction a run waits for there
is none (`Waits`), and what it distributes is not WPOL
(`PaysNoWpol`). `PaysFee` keeps the wallet's gas from going below zero: nothing is mined that it
cannot pay for. `RowsOK` says that a row stands for a logged transaction of its kind, and no other row does.
`RunsApart` is the flag's meaning in both directions: it is set exactly while there is a run, so
that no Sunday after a run that ended is refused. `RowsTell` compares a row's assets with the log's.

Checked by TLC only: every liveness property, because fairness and `ENABLED` are out of the
prover's reach; the violations, which are counterexamples. Nothing proved rests on induction over data.

## 5. Plan

1. Bootstrap and updater together over restarts: the gap between `latest` and the
   subscription.
2. Scanner and engine together with repeated identities.
3. Nonces and receipt polling of the liquidator adapter, shared by the engine and the
   distributor.
4. A refinement of the two updaters to one abstract watch list, from `UnderWay` and `Safe`.

## 6. Not modelled

Decoding of events and contract answers, HTTP and WebSocket transport, back-off times,
logging, the generated bindings and the constants files: no control of their own. The EVM is
a library, and what the simulator's accounts hold is left out, so that a stale account of
`code_cache` shows in no property. The liquidator adapter (`flash_liquidator_adapter.rs`) is a
straight line to one send: the engine sees it through its trait with every outcome it
allows, nonces are given by ethers' `NonceManagerMiddleware`, and the task it spawns to poll
for the receipt only logs. The engine, the scanner and the readers are checked apart: the
engine takes any profile where Aave's reader would name its own, including the reserve repaid as
the collateral, which the simulator refuses (`revm_simulation_adapter.rs:259`). The executor
is said to stop at "the first error encountered" (`bootstrap_executor.rs:41`), while every run
is awaited first: `Bootstrap` follows the code. The split of a payout and token amounts as
floating-point numbers are left out.
